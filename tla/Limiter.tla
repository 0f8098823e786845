------------------------------- MODULE Limiter -------------------------------
(***************************************************************************)
(* sync/limiter.go: at most limit operations run at a time.  A slot is not  *)
(* freed while somebody waits: end() hands it to the first waiter over the  *)
(* waiter's channel, outside l.mu, while the waiter may be busy raising its *)
(* own priority.  The limit is read from a hot-reloadable value.            *)
(*                                                                         *)
(* The wait list is what PriorityQueue shows of the heap: Pop returns an    *)
(* item of the highest priority, the oldest of these up to the millisecond. *)
(* It is kept as the sequence of the sets of waiters that were pushed in    *)
(* the same millisecond, oldest first.  A section under l.mu is one step.   *)
(***************************************************************************)
EXTENDS Integers, Sequences, FiniteSets

CONSTANTS Tasks,       \* goroutines that use the limiter
          Priority,    \* the priority each begins with
          High,        \* LimiterPriorityValueHigh
          Limits,      \* the values the limit takes; one value: not reloaded
          Dynamic,     \* WithLimiterDynamicPeriod given
          Nobody

ASSUME ConstantsAssumption ==
         /\ High \in Nat /\ Priority \in [Tasks -> 1..High]
         /\ Limits \subseteq Nat \ {0} /\ Limits # {}
         /\ Dynamic \in BOOLEAN
         /\ Nobody \notin Tasks /\ IsFiniteSet(Tasks)

VARIABLES limit, count,
          limits,     \* history: the values the limit has had
          waitList,   \* sets of waiters pushed in the same millisecond, oldest first
          prio,       \* Priority of a waiter's item
          pc,
          next,       \* the waiter whose channel end() sends to
          sleeps      \* end() was called by Sleep, not by End

vars == <<limit, limits, count, waitList, prio, pc, next, sleeps>>

Labels == {"idle", "wait", "blocked", "ticked", "active", "ending", "handing", "asleep"}

Waiting == UNION {waitList[i] : i \in DOMAIN waitList}

TypeOK == /\ limit \in limits /\ limits \subseteq Limits /\ count \in Nat
          /\ waitList \in Seq(SUBSET Tasks)
          /\ prio \in [Tasks -> 1..High]
          /\ pc \in [Tasks -> Labels]
          /\ next \in [Tasks -> Tasks \cup {Nobody}]
          /\ sleeps \in [Tasks -> BOOLEAN]

Init == /\ limit \in Limits /\ limits = {limit} /\ count = 0
        /\ waitList = <<>>
        /\ prio = Priority
        /\ pc = [t \in Tasks |-> "idle"]
        /\ next = [t \in Tasks |-> Nobody]
        /\ sleeps = [t \in Tasks |-> FALSE]

Goto(t, label) == pc' = [pc EXCEPT ![t] = label]

-----------------------------------------------------------------------------
\* BeginWithSleepAndPriority, under every one of its names.
Begin(t) ==
  /\ pc[t] = "idle"
  /\ Goto(t, "wait")
  /\ UNCHANGED <<limit, limits, count, waitList, prio, next, sleeps>>

\* Fault: one operation too many.
HasSlot_OneMore == count <= limit

\* l.count < limit.
HasSlot == count < limit

\* wait: there is a slot.  Who already waits is not looked at.
WaitTakes(t) ==
  /\ pc[t] = "wait"
  /\ HasSlot
  /\ count' = count + 1
  /\ Goto(t, "active")
  /\ UNCHANGED <<limit, limits, waitList, prio, next, sleeps>>

\* wait: there is none, an item is pushed, in the millisecond of the last or a new one.
WaitPushes(t) ==
  /\ pc[t] = "wait"
  /\ ~HasSlot
  /\ \/ waitList' = Append(waitList, {t})
     \/ /\ waitList # <<>>
        /\ waitList' = [waitList EXCEPT ![Len(waitList)] = @ \cup {t}]
  /\ prio' = [prio EXCEPT ![t] = Priority[t]]
  /\ Goto(t, "blocked")
  /\ UNCHANGED <<limit, limits, count, next, sleeps>>

\* The ticker fires, and the waiter goes on to take l.mu.
Ticker(t) ==
  /\ Dynamic /\ Priority[t] # High
  /\ pc[t] = "blocked" /\ prio[t] < High
  /\ Goto(t, "ticked")
  /\ UNCHANGED <<limit, limits, count, waitList, prio, next, sleeps>>

\* Fault: Update gives the item the priority it has.
Raise_Not(t) ==
  /\ pc[t] = "ticked"
  /\ Goto(t, "blocked")
  /\ UNCHANGED <<limit, limits, count, waitList, prio, next, sleeps>>

\* waitList.Update(w, w.Priority+1): nothing if the item has been popped meanwhile.
Raise(t) ==
  /\ pc[t] = "ticked"
  /\ prio' = IF t \in Waiting THEN [prio EXCEPT ![t] = @ + 1] ELSE prio
  /\ Goto(t, "blocked")
  /\ UNCHANGED <<limit, limits, count, waitList, next, sleeps>>

\* heap.Pop: highest priority first, then the oldest millisecond.
CanPop(t) ==
  /\ t \in Waiting
  /\ \A u \in Waiting : prio[u] <= prio[t]
  /\ \A i, j \in DOMAIN waitList : j < i /\ t \in waitList[i] =>
                                   \A u \in waitList[j] : prio[u] < prio[t]

\* The wait list without t.
Remove(t) ==
  LET i == CHOOSE j \in DOMAIN waitList : t \in waitList[j]
  IN  IF waitList[i] = {t} THEN SubSeq(waitList, 1, i-1) \o SubSeq(waitList, i+1, Len(waitList))
      ELSE [waitList EXCEPT ![i] = @ \ {t}]

\* End (its first call) or Sleep is called and goes on to end().
Finish(t, sleep) ==
  /\ pc[t] = "active"
  /\ sleeps' = [sleeps EXCEPT ![t] = sleep]
  /\ Goto(t, "ending")
  /\ UNCHANGED <<limit, limits, count, waitList, prio, next>>

\* Where end() returns to: the pause of Sleep, or the caller of End.
AfterEnd(t) == IF sleeps[t] THEN "asleep" ELSE "idle"

\* Fault: the slot is freed without looking at the wait list.
EndFrees_Always(t) ==
  /\ pc[t] = "ending"
  /\ count' = count - 1
  /\ Goto(t, AfterEnd(t))
  /\ UNCHANGED <<limit, limits, waitList, prio, next, sleeps>>

\* end(): nobody waits.
EndFrees(t) ==
  /\ pc[t] = "ending"
  /\ waitList = <<>>
  /\ count' = count - 1
  /\ Goto(t, AfterEnd(t))
  /\ sleeps' = [sleeps EXCEPT ![t] = FALSE]
  /\ UNCHANGED <<limit, limits, waitList, prio, next>>

\* Fault: the slot of the waiter that is woken is not counted again.
SlotKept_Not == count' = count - 1

\* count-- and count++ of an end() that hands its slot over.
SlotKept == UNCHANGED count

\* end(): count-- and count++, the first waiter is popped, l.mu is released.
EndPops(t) ==
  /\ pc[t] = "ending"
  /\ \E u \in Tasks : /\ CanPop(u)
                      /\ waitList' = Remove(u)
                      /\ next' = [next EXCEPT ![t] = u]
  /\ Goto(t, "handing")
  /\ SlotKept
  /\ UNCHANGED <<limit, limits, prio, sleeps>>

\* next.Value <- struct{}{} meets the waiter's receive.
Handoff(t) ==
  /\ pc[t] = "handing"
  /\ pc[next[t]] = "blocked"
  /\ pc' = [pc EXCEPT ![t] = AfterEnd(t), ![next[t]] = "active"]
  /\ next' = [next EXCEPT ![t] = Nobody]
  /\ sleeps' = [sleeps EXCEPT ![t] = FALSE]
  /\ prio' = [prio EXCEPT ![next[t]] = Priority[next[t]]]
  /\ UNCHANGED <<limit, limits, count, waitList>>

\* Sleep: the pause is over, or its context is, and the deferred wait follows.
Wake(t) ==
  /\ pc[t] = "asleep"
  /\ Goto(t, "wait")
  /\ UNCHANGED <<limit, limits, count, waitList, prio, next, sleeps>>

\* The configuration changes the limit; no waiter is told.
Reload(v) == /\ limit # v
             /\ limit' = v /\ limits' = limits \cup {v}
             /\ UNCHANGED <<count, waitList, prio, pc, next, sleeps>>

\* The steps of the limiter's own code that take a task on.
Run(t) == WaitTakes(t) \/ WaitPushes(t) \/ Raise(t) \/ EndFrees(t) \/ EndPops(t) \/ Wake(t)

Next == \/ \E t \in Tasks : \/ Begin(t)
                            \/ \E sleep \in BOOLEAN : Finish(t, sleep)
                            \/ Ticker(t) \/ Handoff(t) \/ Run(t)
        \/ \E v \in Limits : Reload(v)

Spec == Init /\ [][Next]_vars

-----------------------------------------------------------------------------
(***************************************************************************)
(* Fairness.  Goroutines that can run do, l.mu is starvation free, tickers  *)
(* fire and sleeps end.  A send whose receiver is at its select again and   *)
(* again goes through: select chooses at random among what is ready.        *)
(***************************************************************************)
Fairness == \A t \in Tasks : WF_vars(Run(t)) /\ WF_vars(Ticker(t)) /\ SF_vars(Handoff(t))

FairSpec == Spec /\ Fairness

\* The callers end the operations they begin (the doc of Begin asks for it).
CallersEnd == \A t \in Tasks : WF_vars(Finish(t, FALSE) \/ Finish(t, TRUE))

\* A millisecond does not last for ever: not all items are pushed in the same.
TimePasses == SF_vars(\E t \in Tasks : WaitPushes(t) /\ Len(waitList') > Len(waitList))

-----------------------------------------------------------------------------
\* The slots in use: operations that run (up to their end()), and slots on their way to a waiter.
InUse == {t \in Tasks : pc[t] \in {"active", "ending", "handing"}}

\* No slot is lost or invented: count is the number of slots in use.  A double
\* end() or a hand-over that also frees would let one operation too many in for ever.
CountIsSlotsInUse == count = Cardinality(InUse)

\* Doc of Limiter: no more operations run than the limit says, or, when it has
\* been lowered, than it said.
WithinLimit == \E m \in limits : Cardinality({t \in Tasks : pc[t] \in {"active", "ending"}}) <= m

\* While somebody waits no slot is free, or, when the limit has been raised, none
\* was before: a newcomer never passes a waiter.
WaitersOnlyWhenFull == Waiting # {} => \E m \in limits : count >= m

\* Who is blocked is in the wait list or about to be handed a slot, by exactly
\* one end(): no wake-up is lost and none is given twice.
EveryWaiterIsKnown ==
  \A t \in Tasks :
    LET senders == {u \in Tasks : pc[u] = "handing" /\ next[u] = t}
    IN  Cardinality(senders) = IF pc[t] \in {"blocked", "ticked"} /\ t \notin Waiting THEN 1 ELSE 0

\* The limiter's records are exact: slots, waiters, and the slots on their way.
RecordsExact == TypeOK /\ CountIsSlotsInUse /\ EveryWaiterIsKnown

\* With dynamic priorities nobody waits forever, whatever the priorities of the others.
EveryWaiterServed == CallersEnd /\ TimePasses =>
                       \A t \in Tasks : pc[t] = "blocked" ~> pc[t] = "active"

=============================================================================
