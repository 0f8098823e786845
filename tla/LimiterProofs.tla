---------------------------- MODULE LimiterProofs ----------------------------
(***************************************************************************)
(* Proofs about Limiter for any set of tasks, any priorities and any        *)
(* values of the limit.  What a task that waits is promised by count rests  *)
(* on count being the number of slots in use, and that rests on an end()    *)
(* that hands over having exactly one receiver, which is not running.       *)
(* Which waiter the heap pops plays no part.                                *)
(***************************************************************************)
EXTENDS Limiter, FiniteSetTheorems, SequenceTheorems, TLAPS

\* The part of the types that the argument needs; a hand-over has a receiver.
Typed == /\ limit \in limits /\ limits \subseteq Nat
         /\ count \in Nat
         /\ pc \in [Tasks -> Labels]
         /\ next \in [Tasks -> Tasks \cup {Nobody}]
         /\ \A t \in Tasks : pc[t] = "handing" => next[t] \in Tasks

\* count is within one of the limits there have been.
CountWithinLimit == \E m \in limits : count <= m

IInv == Typed /\ CountIsSlotsInUse /\ CountWithinLimit /\ WaitersOnlyWhenFull

-----------------------------------------------------------------------------
\* A sequence without its element at p.
LEMMA Removed ==
  ASSUME NEW S, NEW s \in Seq(S), NEW p \in 1..Len(s)
  PROVE  LET t == SubSeq(s, 1, p-1) \o SubSeq(s, p+1, Len(s))
         IN  /\ t \in Seq(S) /\ Len(t) = Len(s) - 1
             /\ \A i \in 1..Len(s)-1 : t[i] = IF i < p THEN s[i] ELSE s[i+1]
<1> DEFINE a == SubSeq(s, 1, p-1)
           b == SubSeq(s, p+1, Len(s))
           t == a \o b
<1>1. Len(s) \in Nat /\ \A i \in 1..Len(s) : s[i] \in S
  BY LenProperties
<1>2. a \in Seq(S) /\ Len(a) = p-1 /\ \A i \in 1..p-1 : a[i] = s[i]
  <2>1. \A i \in 1..p-1 : s[i] \in S
    BY <1>1
  <2>2. a \in Seq(S) /\ Len(a) = (IF 1 <= p-1 THEN p-1-1+1 ELSE 0)
        /\ \A i \in 1..p-1-1+1 : a[i] = s[1+i-1]
    BY <1>1, <2>1, SubSeqProperties
  <2> QED
    BY <1>1, <2>2
<1>3. b \in Seq(S) /\ Len(b) = Len(s) - p /\ \A i \in 1..Len(s)-p : b[i] = s[p+i]
  <2>1. \A i \in p+1..Len(s) : s[i] \in S
    BY <1>1
  <2>2. b \in Seq(S) /\ Len(b) = (IF p+1 <= Len(s) THEN Len(s)-(p+1)+1 ELSE 0)
        /\ \A i \in 1..Len(s)-(p+1)+1 : b[i] = s[p+1+i-1]
    BY <1>1, <2>1, SubSeqProperties
  <2> QED
    BY <1>1, <2>2
<1>4. t \in Seq(S) /\ Len(t) = Len(a) + Len(b)
      /\ \A i \in 1..Len(a)+Len(b) : t[i] = IF i <= Len(a) THEN a[i] ELSE b[i - Len(a)]
  <2> HIDE DEF a, b
  <2> QED
    BY <1>2, <1>3, ConcatProperties
<1> HIDE DEF a, b, t
<1>5. Len(t) = Len(s) - 1
  BY <1>1, <1>2, <1>3, <1>4
<1>6. ASSUME NEW i \in 1..Len(s)-1 PROVE t[i] = IF i < p THEN s[i] ELSE s[i+1]
  <2>0. t[i] = IF i <= p-1 THEN a[i] ELSE b[i - (p-1)]
    BY <1>1, <1>2, <1>3, <1>4
  <2>1. CASE i < p
    <3>1. i \in 1..p-1
      BY <2>1
    <3> QED
      BY <1>2, <2>0, <2>1, <3>1
  <2>2. CASE ~(i < p)
    <3>1. i - (p-1) \in 1..Len(s)-p /\ p + (i - (p-1)) = i+1
      BY <1>1, <2>2
    <3>2. b[i - (p-1)] = s[p + (i - (p-1))]
      BY <1>3, <3>1
    <3> QED
      BY <1>1, <2>0, <2>2, <3>1, <3>2
  <2> QED
    BY <2>1, <2>2
<1> QED
  BY <1>4, <1>5, <1>6 DEF t, a, b

USE ConstantsAssumption

\* The slots in use are finitely many.
LEMMA InUseFinite == IsFiniteSet(InUse) /\ Cardinality(InUse) \in Nat
<1>1. InUse \in SUBSET Tasks
  BY DEF InUse
<1>2. IsFiniteSet(InUse)
  BY <1>1, FS_Subset
<1> QED
  BY <1>2, FS_CardinalityType

\* A step between two labels that both count, or both do not, changes no slot.
LEMMA SameSlots ==
  ASSUME Typed, NEW t \in Tasks, NEW label \in Labels, Goto(t, label),
         pc[t] \in {"active", "ending", "handing"} <=> label \in {"active", "ending", "handing"}
  PROVE  InUse' = InUse
BY DEF Typed, Goto, InUse

\* A new limiter has no slot in use.
LEMMA InitIInv == Init => IInv
<1> SUFFICES ASSUME Init PROVE IInv
  OBVIOUS
<1>1. Typed
  BY DEF Init, Typed, Labels
<1>2. CountIsSlotsInUse
  <2>1. InUse = {}
    BY DEF Init, InUse
  <2> QED
    BY <2>1, FS_EmptySet DEF Init, CountIsSlotsInUse
<1>3. CountWithinLimit
  BY DEF Init, CountWithinLimit
<1>4. WaitersOnlyWhenFull
  BY DEF Init, WaitersOnlyWhenFull, Waiting
<1> QED
  BY <1>1, <1>2, <1>3, <1>4 DEF IInv

\* wait() that finds a slot: it is below the limit before, so at most at it after.
LEMMA WaitTakesKeeps == ASSUME IInv, NEW t \in Tasks, WaitTakes(t) PROVE IInv'
<1> USE DEF IInv, WaitTakes, HasSlot
<1>1. Typed'
  BY DEF Typed, Goto, Labels
<1>2. CountIsSlotsInUse'
  <2>1. InUse' = InUse \cup {t} /\ t \notin InUse
    BY DEF Typed, InUse, Goto
  <2> QED
    BY <2>1, InUseFinite, FS_AddElement DEF CountIsSlotsInUse
<1>3. CountWithinLimit'
  BY DEF Typed, CountWithinLimit
<1>4. WaitersOnlyWhenFull'
  <2>1. Waiting' = Waiting
    BY DEF Waiting
  <2> QED
    BY <2>1 DEF WaitersOnlyWhenFull, Typed
<1> QED
  BY <1>1, <1>2, <1>3, <1>4

\* wait() that finds none: who begins to wait does so while the limit is reached.
LEMMA WaitPushesKeeps == ASSUME IInv, NEW t \in Tasks, WaitPushes(t) PROVE IInv'
<1> USE DEF IInv, WaitPushes, HasSlot
<1>1. Typed'
  BY DEF Typed, Goto, Labels
<1>2. CountIsSlotsInUse'
  BY SameSlots DEF CountIsSlotsInUse, Labels
<1>3. CountWithinLimit'
  BY DEF CountWithinLimit
<1>4. WaitersOnlyWhenFull'
  BY DEF Typed, WaitersOnlyWhenFull
<1> QED
  BY <1>1, <1>2, <1>3, <1>4

\* end() that finds nobody waiting frees the slot its caller had.
LEMMA EndFreesKeeps == ASSUME IInv, NEW t \in Tasks, EndFrees(t) PROVE IInv'
<1> USE DEF IInv, EndFrees
<1>1. AfterEnd(t) \in {"asleep", "idle"}
  BY DEF AfterEnd
<1>2. CountIsSlotsInUse' /\ count' \in Nat
  <2>1. InUse' = InUse \ {t} /\ t \in InUse
    BY <1>1 DEF Typed, InUse, Goto
  <2>2. count' = Cardinality(InUse')
    BY <2>1, InUseFinite, FS_RemoveElement DEF CountIsSlotsInUse
  <2>3. IsFiniteSet(InUse')
    BY <2>1, InUseFinite, FS_RemoveElement
  <2> QED
    BY <2>2, <2>3, FS_CardinalityType DEF CountIsSlotsInUse
<1>3. Typed'
  BY <1>1, <1>2 DEF Typed, Goto, Labels
<1>4. CountWithinLimit'
  BY <1>2 DEF Typed, CountWithinLimit
<1>5. WaitersOnlyWhenFull'
  BY DEF WaitersOnlyWhenFull, Waiting
<1> QED
  BY <1>2, <1>3, <1>4, <1>5

\* end() that pops a waiter keeps the slot for it.  Somebody waited, so the limit
\* was reached, and it still is, whatever is left of the wait list.
LEMMA EndPopsKeeps == ASSUME IInv, NEW t \in Tasks, EndPops(t) PROVE IInv'
<1> USE DEF IInv, EndPops, SlotKept
<1>1. Typed'
  BY DEF Typed, Goto, Labels
<1>2. CountIsSlotsInUse'
  BY SameSlots DEF CountIsSlotsInUse, Labels
<1>3. CountWithinLimit'
  BY DEF CountWithinLimit
<1>4. WaitersOnlyWhenFull'
  <2>1. Waiting # {}
    BY DEF CanPop
  <2> QED
    BY <2>1 DEF WaitersOnlyWhenFull
<1> QED
  BY <1>1, <1>2, <1>3, <1>4

\* The hand-over moves a slot from its sender to its receiver.
LEMMA HandoffKeeps == ASSUME IInv, NEW t \in Tasks, Handoff(t) PROVE IInv'
<1> USE DEF IInv, Handoff
<1> DEFINE u == next[t]
<1>1. u \in Tasks /\ u # t
  BY DEF Typed
<1>2. AfterEnd(t) \in {"asleep", "idle"}
  BY DEF AfterEnd
<1>3. Typed'
  BY <1>1, <1>2 DEF Typed, Labels
<1>4. CountIsSlotsInUse'
  <2>1. t \in InUse /\ u \notin InUse \ {t}
    BY DEF InUse
  <2>2. InUse' = (InUse \ {t}) \cup {u}
    BY <1>1, <1>2 DEF Typed, InUse
  <2>3. /\ IsFiniteSet(InUse \ {t})
        /\ Cardinality(InUse \ {t}) = Cardinality(InUse) - 1
    BY <2>1, InUseFinite, FS_RemoveElement
  <2>4. Cardinality(InUse') = Cardinality(InUse \ {t}) + 1
    BY <2>1, <2>2, <2>3, FS_AddElement
  <2> QED
    BY <2>3, <2>4, InUseFinite DEF CountIsSlotsInUse
<1>5. CountWithinLimit'
  BY DEF CountWithinLimit
<1>6. WaitersOnlyWhenFull'
  BY DEF WaitersOnlyWhenFull, Waiting
<1> QED
  BY <1>3, <1>4, <1>5, <1>6

\* The steps that touch neither the slots nor the wait list.
Apart(t) == \/ Begin(t) \/ (\E sleep \in BOOLEAN : Finish(t, sleep))
            \/ Ticker(t) \/ Raise(t) \/ Wake(t)

\* They keep the invariant.
LEMMA ApartKeeps == ASSUME IInv, NEW t \in Tasks, Apart(t) PROVE IInv'
<1> USE DEF IInv, Apart, Begin, Finish, Ticker, Raise, Wake
<1>1. PICK label \in Labels \ {"handing"} :
        /\ Goto(t, label)
        /\ pc[t] \in {"active", "ending", "handing"} <=> label \in {"active", "ending", "handing"}
  BY DEF Labels
<1>2. UNCHANGED <<limit, limits, count, waitList, next>>
  OBVIOUS
<1>3. Typed'
  BY <1>1, <1>2 DEF Typed, Goto
<1>4. CountIsSlotsInUse'
  BY <1>1, <1>2, SameSlots DEF CountIsSlotsInUse
<1>5. CountWithinLimit' /\ WaitersOnlyWhenFull'
  BY <1>2 DEF CountWithinLimit, WaitersOnlyWhenFull, Waiting
<1> QED
  BY <1>3, <1>4, <1>5

\* The limits there have been only become more.
LEMMA ReloadKeeps == ASSUME IInv, NEW v \in Limits, Reload(v) PROVE IInv'
<1> USE DEF IInv, Reload
<1>1. Typed'
  BY DEF Typed
<1>2. CountIsSlotsInUse'
  BY DEF CountIsSlotsInUse, InUse
<1>3. CountWithinLimit' /\ WaitersOnlyWhenFull'
  BY DEF CountWithinLimit, WaitersOnlyWhenFull, Waiting
<1> QED
  BY <1>1, <1>2, <1>3

\* The invariant is inductive.
LEMMA NextIInv == IInv /\ [Next]_vars => IInv'
<1> SUFFICES ASSUME IInv, [Next]_vars PROVE IInv'
  OBVIOUS
<1>1. ASSUME NEW t \in Tasks, Apart(t) PROVE IInv'
  BY <1>1, ApartKeeps
<1>2. ASSUME NEW t \in Tasks, WaitTakes(t) PROVE IInv'
  BY <1>2, WaitTakesKeeps
<1>3. ASSUME NEW t \in Tasks, WaitPushes(t) PROVE IInv'
  BY <1>3, WaitPushesKeeps
<1>4. ASSUME NEW t \in Tasks, EndFrees(t) PROVE IInv'
  BY <1>4, EndFreesKeeps
<1>5. ASSUME NEW t \in Tasks, EndPops(t) PROVE IInv'
  BY <1>5, EndPopsKeeps
<1>6. ASSUME NEW t \in Tasks, Handoff(t) PROVE IInv'
  BY <1>6, HandoffKeeps
<1>7. ASSUME NEW v \in Limits, Reload(v) PROVE IInv'
  BY <1>7, ReloadKeeps
<1>8. CASE UNCHANGED vars
  <2>1. UNCHANGED <<limit, limits, count, waitList, pc, next>>
    BY <1>8 DEF vars
  <2>2. Typed' /\ CountIsSlotsInUse'
    BY <2>1 DEF IInv, Typed, CountIsSlotsInUse, InUse
  <2>3. CountWithinLimit' /\ WaitersOnlyWhenFull'
    BY <2>1 DEF IInv, CountWithinLimit, WaitersOnlyWhenFull, Waiting
  <2> QED
    BY <2>2, <2>3 DEF IInv
<1> QED
  BY <1>1, <1>2, <1>3, <1>4, <1>5, <1>6, <1>7, <1>8 DEF Next, Run, Apart

\* The invariant holds in every state the limiter reaches.
LEMMA AlwaysIInv == Spec => []IInv
BY InitIInv, NextIInv, PTL DEF Spec

-----------------------------------------------------------------------------
\* No slot is lost or invented by any interleaving of wait() and end() (limiter.go).
THEOREM SlotsCounted == Spec => []CountIsSlotsInUse
<1>1. IInv => CountIsSlotsInUse
  BY DEF IInv
<1> QED
  BY <1>1, AlwaysIInv, PTL

\* No more operations run between wait() and end() than one of the limits there
\* have been: than the limit, where it is not reloaded.
THEOREM NeverAboveLimit == Spec => []WithinLimit
<1>1. IInv => WithinLimit
  <2> SUFFICES ASSUME IInv PROVE WithinLimit
    OBVIOUS
  <2> DEFINE running == {t \in Tasks : pc[t] \in {"active", "ending"}}
  <2>1. running \in SUBSET InUse
    BY DEF InUse
  <2>2. IsFiniteSet(running) /\ Cardinality(running) <= Cardinality(InUse)
    BY <2>1, InUseFinite, FS_Subset
  <2>3. Cardinality(running) \in Nat
    BY <2>2, FS_CardinalityType
  <2>4. PICK m \in limits : count <= m
    BY DEF IInv, CountWithinLimit
  <2>5. Cardinality(running) <= m
    BY <2>2, <2>3, <2>4, InUseFinite DEF IInv, Typed, CountIsSlotsInUse
  <2> QED
    BY <2>5 DEF WithinLimit
<1> QED
  BY <1>1, AlwaysIInv, PTL

\* Nobody waits while a slot is free under every limit there has been: end() gives
\* the slot away under the mutex under which wait() looks for one.
THEOREM NoFreeSlotWhileWaiting == Spec => []WaitersOnlyWhenFull
<1>1. IInv => WaitersOnlyWhenFull
  BY DEF IInv
<1> QED
  BY <1>1, AlwaysIInv, PTL

-----------------------------------------------------------------------------
(***************************************************************************)
(* The waiters.  That nobody is woken twice and nobody is forgotten rests   *)
(* on a task being in the wait list at most once, on whoever is popped      *)
(* staying at its receive or at its tick until the one end() that popped it *)
(* has met it, and on a tick that comes in between changing nothing.        *)
(***************************************************************************)

\* No set of waiters is empty, and nobody is in two.
Groups(w) == /\ w \in Seq(SUBSET Tasks)
             /\ \A i \in 1..Len(w) : w[i] # {}
             /\ \A i, j \in 1..Len(w) : i # j => w[i] \cap w[j] = {}

\* Who is in the wait list is at its select, and only what can be raised is ticked.
Queued == /\ \A t \in Waiting : pc[t] \in {"blocked", "ticked"}
          /\ \A t \in Tasks : pc[t] = "ticked" => prio[t] < High

\* A task that has been popped and not yet met.
Popped == {t \in Tasks : pc[t] \in {"blocked", "ticked"} /\ t \notin Waiting}

\* The goroutines in end() that have popped a waiter.
Handing == {t \in Tasks : pc[t] = "handing"}

\* Each popped waiter has one goroutine that sends to it.
Sends == /\ \A u \in Handing : next[u] \in Popped
         /\ \A u, v \in Handing : next[u] = next[v] => u = v
         /\ \A t \in Popped : \E u \in Handing : next[u] = t

Known == TypeOK /\ Groups(waitList) /\ Queued /\ Sends

\* The waiters are those of the places of the list.
LEMMA WaitingIs ==
  ASSUME Groups(waitList)
  PROVE  /\ DOMAIN waitList = 1..Len(waitList) /\ Len(waitList) \in Nat
         /\ Waiting \subseteq Tasks
         /\ \A t : t \in Waiting <=> \E i \in 1..Len(waitList) : t \in waitList[i]
<1>1. waitList \in Seq(SUBSET Tasks)
  BY DEF Groups
<1>2. DOMAIN waitList = 1..Len(waitList) /\ Len(waitList) \in Nat
      /\ \A i \in 1..Len(waitList) : waitList[i] \subseteq Tasks
  BY <1>1, LenProperties
<1> QED
  BY <1>2 DEF Waiting

\* Who is popped is in the list no more; the others stay, each in one set.
LEMMA RemoveIs ==
  ASSUME Groups(waitList), NEW t \in Waiting
  PROVE  /\ Groups(Remove(t))
         /\ \A u : (\E i \in 1..Len(Remove(t)) : u \in Remove(t)[i]) <=> u \in Waiting /\ u # t
<1> DEFINE w == waitList
           S == SUBSET Tasks
           p == CHOOSE j \in DOMAIN waitList : t \in waitList[j]
<1>1. w \in Seq(S) /\ Len(w) \in Nat /\ DOMAIN w = 1..Len(w) /\ \A i \in 1..Len(w) : w[i] \in S
  BY LenProperties DEF Groups
<1>2. \A u : u \in Waiting <=> \E i \in 1..Len(w) : u \in w[i]
  BY WaitingIs
<1>3. p \in 1..Len(w) /\ t \in w[p]
  BY <1>1, <1>2
<1>4. \A i \in 1..Len(w) : w[i] # {}
  BY DEF Groups
<1>5. \A i, j \in 1..Len(w) : i # j => w[i] \cap w[j] = {}
  BY DEF Groups
<1>6. \A i \in 1..Len(w) : i # p => t \notin w[i]
  BY <1>3, <1>5
<1>7. CASE w[p] = {t}
  <2> DEFINE r == SubSeq(w, 1, p-1) \o SubSeq(w, p+1, Len(w))
  <2>1. Remove(t) = r
    BY <1>7 DEF Remove
  <2>2. r \in Seq(S) /\ Len(r) = Len(w) - 1
        /\ \A i \in 1..Len(w)-1 : r[i] = IF i < p THEN w[i] ELSE w[i+1]
    <3> HIDE DEF p, w, S
    <3> QED
      BY <1>1, <1>3, Removed
  <2> HIDE DEF r, p, w
  <2>3. ASSUME NEW i \in 1..Len(r) PROVE r[i] # {}
    <3> DEFINE a == IF i < p THEN i ELSE i+1
    <3>1. a \in 1..Len(w) /\ r[i] = w[a]
      BY <1>1, <1>3, <2>2
    <3> HIDE DEF a
    <3> QED
      BY <1>4, <3>1
  <2>4. ASSUME NEW i \in 1..Len(r), NEW j \in 1..Len(r), i # j
        PROVE  r[i] \cap r[j] = {}
    <3> DEFINE a == IF i < p THEN i ELSE i+1
               b == IF j < p THEN j ELSE j+1
    <3>1. a \in 1..Len(w) /\ b \in 1..Len(w) /\ a # b
      BY <1>1, <1>3, <2>2, <2>4
    <3>2. r[i] = w[a] /\ r[j] = w[b]
      BY <2>2
    <3> HIDE DEF a, b
    <3> QED
      BY <1>5, <3>1, <3>2
  <2>5. ASSUME NEW u PROVE (\E i \in 1..Len(r) : u \in r[i]) <=> u \in Waiting /\ u # t
    <3>1. ASSUME NEW i \in 1..Len(r), u \in r[i] PROVE u \in Waiting /\ u # t
      <4> DEFINE a == IF i < p THEN i ELSE i+1
      <4>1. a \in 1..Len(w) /\ a # p /\ r[i] = w[a]
        BY <1>1, <1>3, <2>2
      <4> HIDE DEF a
      <4> QED
        BY <1>2, <1>6, <3>1, <4>1
    <3>2. ASSUME u \in Waiting, u # t PROVE \E i \in 1..Len(r) : u \in r[i]
      <4>1. PICK a \in 1..Len(w) : u \in w[a]
        BY <1>2, <3>2
      <4>2. a # p
        BY <1>7, <3>2, <4>1
      <4> DEFINE i == IF a < p THEN a ELSE a-1
      <4>3. i \in 1..Len(r) /\ r[i] = w[a]
        BY <1>1, <1>3, <2>2, <4>2
      <4> HIDE DEF i
      <4> QED
        BY <4>1, <4>3
    <3> QED
      BY <3>1, <3>2
  <2> QED
    BY <2>1, <2>2, <2>3, <2>4, <2>5 DEF Groups
<1>8. CASE w[p] # {t}
  <2> DEFINE r == [w EXCEPT ![p] = w[p] \ {t}]
  <2>1. Remove(t) = r
    BY <1>8 DEF Remove
  <2>2. r \in Seq(S) /\ Len(r) = Len(w)
        /\ \A i \in 1..Len(w) : r[i] = IF i = p THEN w[p] \ {t} ELSE w[i]
    <3>1. w[p] \ {t} \in S
      BY <1>1, <1>3
    <3> HIDE DEF p, w, S
    <3> QED
      BY <1>1, <1>3, <3>1, ExceptSeq
  <2> HIDE DEF r, p, w
  <2>3. \A i \in 1..Len(r) : r[i] # {}
    BY <1>3, <1>4, <1>8, <2>2
  <2>4. \A i, j \in 1..Len(r) : i # j => r[i] \cap r[j] = {}
    BY <1>3, <1>5, <2>2
  <2>5. \A u : (\E i \in 1..Len(r) : u \in r[i]) <=> u \in Waiting /\ u # t
    BY <1>2, <1>3, <1>6, <2>2
  <2> QED
    BY <2>1, <2>2, <2>3, <2>4, <2>5 DEF Groups
<1> QED
  BY <1>7, <1>8

\* Who is pushed is a waiter from then on, in a set of its own or in the last.
LEMMA PushedIs ==
  ASSUME Groups(waitList), NEW t \in Tasks, t \notin Waiting, WaitPushes(t)
  PROVE  Groups(waitList)' /\ Waiting' = Waiting \cup {t}
<1> DEFINE S == SUBSET Tasks
<1>1. waitList \in Seq(S) /\ Len(waitList) \in Nat /\ \A i \in 1..Len(waitList) : waitList[i] \in S
  BY LenProperties DEF Groups
<1>2. \A i \in 1..Len(waitList) : t \notin waitList[i]
  BY WaitingIs
<1>3. PICK w : w = waitList'
  OBVIOUS
<1>4. Groups(w) /\ \A u : (\E i \in 1..Len(w) : u \in w[i]) <=> u \in Waiting \/ u = t
  <2>1. CASE w = Append(waitList, {t})
    <3>1. w \in Seq(S) /\ Len(w) = Len(waitList) + 1
          /\ \A i \in 1..Len(waitList) : w[i] = waitList[i]
      BY <1>1, <2>1, AppendProperties
    <3>2. w[Len(waitList) + 1] = {t}
      BY <1>1, <2>1, AppendProperties
    <3>3. 1..Len(w) = 1..Len(waitList) \cup {Len(waitList) + 1} /\ Len(waitList) + 1 \notin 1..Len(waitList)
      BY <1>1, <3>1
    <3>4. \A i \in 1..Len(w) : w[i] # {}
      BY <3>1, <3>2, <3>3 DEF Groups
    <3>5. \A i, j \in 1..Len(w) : i # j => w[i] \cap w[j] = {}
      <4>1. \A i, j \in 1..Len(waitList) : i # j => w[i] \cap w[j] = {}
        BY <3>1 DEF Groups
      <4>2. \A i \in 1..Len(waitList) : w[i] \cap w[Len(waitList) + 1] = {}
        BY <1>2, <3>1, <3>2
      <4> QED
        BY <3>3, <4>1, <4>2
    <3> QED
      BY <3>1, <3>2, <3>3, <3>4, <3>5, WaitingIs DEF Groups
  <2>2. CASE /\ waitList # <<>>
             /\ w = [waitList EXCEPT ![Len(waitList)] = @ \cup {t}]
    <3> DEFINE n == Len(waitList)
    <3>1. n \in 1..Len(waitList)
      BY <1>1, <2>2, EmptySeq
    <3>2. waitList[n] \cup {t} \in S
      BY <1>1, <3>1
    <3>3. w \in Seq(S) /\ Len(w) = n
          /\ \A i \in 1..n : w[i] = IF i = n THEN waitList[n] \cup {t} ELSE waitList[i]
      BY <1>1, <2>2, <3>1, <3>2, ExceptSeq
    <3>4. \A i \in 1..n : w[i] # {}
      BY <3>1, <3>3 DEF Groups
    <3>5. \A i, j \in 1..n : i # j => w[i] \cap w[j] = {}
      BY <1>2, <3>1, <3>3 DEF Groups
    <3> HIDE DEF n
    <3>6. Groups(w)
      BY <3>3, <3>4, <3>5 DEF Groups
    <3>7. \A i \in 1..n : \A u : u \in w[i] <=> u \in waitList[i] \/ (i = n /\ u = t)
      BY <3>3
    <3> USE DEF n
    <3>8. \A u : u \in Waiting <=> \E i \in 1..n : u \in waitList[i]
      BY WaitingIs
    <3> HIDE DEF n
    <3> QED
      BY <3>1, <3>3, <3>6, <3>7, <3>8
  <2> QED
    BY <1>3, <2>1, <2>2 DEF WaitPushes
<1>5. Waiting' = UNION {w[i] : i \in 1..Len(w)}
  <2>1. DOMAIN w = 1..Len(w)
    BY <1>4, LenProperties DEF Groups
  <2> QED
    BY <1>3, <2>1 DEF Waiting
<1>6. Groups(waitList)'
  BY <1>3, <1>4 DEF Groups
<1> QED
  BY <1>4, <1>5, <1>6

\* A new limiter has no waiter.
LEMMA InitKnown == Init => Known
<1> SUFFICES ASSUME Init PROVE Known
  OBVIOUS
<1>1. waitList \in Seq(SUBSET Tasks) /\ Len(waitList) = 0
  BY EmptySeq DEF Init
<1>2. TypeOK
  BY <1>1 DEF Init, TypeOK, Labels
<1>3. Groups(waitList)
  BY <1>1 DEF Groups
<1>4. Queued
  BY DEF Init, Queued, Waiting
<1>5. Sends
  BY DEF Init, Sends, Handing, Popped
<1> QED
  BY <1>2, <1>3, <1>4, <1>5 DEF Known

\* A step that leaves the wait list alone, neither pops nor meets anybody, and moves
\* one task that does not wait, or between its two labels of waiting.
LEMMA MoveKeeps ==
  ASSUME Known, TypeOK', UNCHANGED <<waitList, next>>,
         NEW t \in Tasks, NEW label \in Labels, Goto(t, label),
         pc[t] \in {"blocked", "ticked"} <=> label \in {"blocked", "ticked"},
         pc[t] # "handing", label # "handing",
         \A u \in Tasks \ {t} : prio'[u] = prio[u],
         label = "ticked" => prio'[t] < High
  PROVE  Known'
<1>1. Waiting' = Waiting
  BY DEF Waiting
<1>2. pc'[t] = label /\ \A u \in Tasks \ {t} : pc'[u] = pc[u]
  BY DEF Known, TypeOK, Goto
<1>3. Popped' = Popped /\ Handing' = Handing
  BY <1>1, <1>2 DEF Popped, Handing
<1>4. Groups(waitList)'
  BY DEF Known, Groups
<1>5. Queued'
  BY <1>1, <1>2, WaitingIs DEF Known, Queued
<1>6. Sends'
  BY <1>3 DEF Known, Sends
<1> QED
  BY <1>4, <1>5, <1>6 DEF Known

\* Every step keeps the records of the waiters.
LEMMA NextKnown == Known /\ IInv /\ IInv' /\ [Next]_vars => Known'
<1> SUFFICES ASSUME Known, IInv, IInv', [Next]_vars PROVE Known'
  OBVIOUS
<1>0. count' \in Nat /\ Waiting \subseteq Tasks
  BY WaitingIs DEF Known, IInv, Typed
<1>1. CASE UNCHANGED vars
  <2>1. UNCHANGED <<limit, limits, count, waitList, prio, pc, next, sleeps>>
    BY <1>1 DEF vars
  <2>2. Waiting' = Waiting /\ Popped' = Popped /\ Handing' = Handing
    BY <2>1 DEF Waiting, Popped, Handing
  <2> QED
    BY <2>1, <2>2 DEF Known, TypeOK, Groups, Queued, Sends
<1>2. ASSUME NEW v \in Limits, Reload(v) PROVE Known'
  <2>1. UNCHANGED <<count, waitList, prio, pc, next, sleeps>>
    BY <1>2 DEF Reload
  <2>2. Waiting' = Waiting /\ Popped' = Popped /\ Handing' = Handing
    BY <2>1 DEF Waiting, Popped, Handing
  <2>3. TypeOK'
    BY <1>2, <2>1 DEF Known, TypeOK, Reload
  <2> QED
    BY <2>1, <2>2, <2>3 DEF Known, Groups, Queued, Sends
<1>3. ASSUME NEW t \in Tasks, Begin(t) \/ (\E sleep \in BOOLEAN : Finish(t, sleep)) \/ Wake(t)
                              \/ WaitTakes(t) \/ EndFrees(t)
      PROVE  Known'
  <2>1. PICK label \in {"wait", "ending", "active", "asleep", "idle"} :
          Goto(t, label) /\ pc[t] \in {"idle", "active", "asleep", "wait", "ending"}
    BY <1>3 DEF Begin, Finish, Wake, WaitTakes, EndFrees, AfterEnd
  <2>2. UNCHANGED <<limit, limits, waitList, prio, next>> /\ sleeps' \in [Tasks -> BOOLEAN]
    BY <1>3 DEF Begin, Finish, Wake, WaitTakes, EndFrees, Known, TypeOK
  <2>3. TypeOK'
    BY <1>0, <2>1, <2>2 DEF Known, TypeOK, Goto, Labels
  <2> QED
    BY <2>1, <2>2, <2>3, MoveKeeps DEF Labels
<1>4. ASSUME NEW t \in Tasks, Ticker(t) PROVE Known'
  <2>1. TypeOK'
    BY <1>4 DEF Known, TypeOK, Ticker, Goto, Labels
  <2> QED
    BY <1>4, <2>1, MoveKeeps DEF Ticker, Labels
<1>5. ASSUME NEW t \in Tasks, Raise(t) PROVE Known'
  <2>1. prio[t] < High /\ prio[t] \in 1..High
    BY <1>5 DEF Known, Queued, TypeOK, Raise
  <2>2. prio' \in [Tasks -> 1..High] /\ \A u \in Tasks \ {t} : prio'[u] = prio[u]
    BY <1>5, <2>1 DEF Known, TypeOK, Raise
  <2>3. TypeOK'
    BY <1>5, <2>2 DEF Known, TypeOK, Raise, Goto, Labels
  <2> QED
    BY <1>5, <2>2, <2>3, MoveKeeps DEF Raise, Labels
<1>6. ASSUME NEW t \in Tasks, WaitPushes(t) PROVE Known'
  <2>1. t \notin Waiting /\ t \notin Popped /\ t \notin Handing
    BY <1>6 DEF Known, Queued, Popped, Handing, WaitPushes
  <2>2. Groups(waitList)' /\ Waiting' = Waiting \cup {t}
    BY <1>6, <2>1, PushedIs DEF Known
  <2>3. pc'[t] = "blocked" /\ \A u \in Tasks \ {t} : pc'[u] = pc[u]
    BY <1>6 DEF WaitPushes, Goto, Known, TypeOK
  <2>4. Popped' = Popped /\ Handing' = Handing
    BY <2>1, <2>2, <2>3 DEF Popped, Handing
  <2>5. TypeOK'
    BY <1>6, <2>2 DEF Known, TypeOK, WaitPushes, Goto, Labels, Groups
  <2>6. \A u \in Tasks \ {t} : prio'[u] = prio[u]
    BY <1>6 DEF WaitPushes, Known, TypeOK
  <2>7. Queued'
    BY <1>0, <2>2, <2>3, <2>6 DEF Known, Queued
  <2>8. Sends'
    BY <1>6, <2>4 DEF Known, Sends, WaitPushes
  <2> QED
    BY <2>2, <2>5, <2>7, <2>8 DEF Known
<1>7. ASSUME NEW t \in Tasks, EndPops(t) PROVE Known'
  <2>1. PICK u \in Tasks : CanPop(u) /\ waitList' = Remove(u) /\ next' = [next EXCEPT ![t] = u]
    BY <1>7 DEF EndPops
  <2>2. u \in Waiting /\ pc[u] \in {"blocked", "ticked"} /\ u # t
    BY <1>7, <2>1 DEF CanPop, Known, Queued, EndPops
  <2>3. Groups(waitList') /\ Waiting' = Waiting \ {u}
    <3>1. PICK w : w = waitList'
      OBVIOUS
    <3>2. Groups(w) /\ \A v : (\E i \in 1..Len(w) : v \in w[i]) <=> v \in Waiting /\ v # u
      BY <2>1, <2>2, <3>1, RemoveIs DEF Known
    <3>3. DOMAIN w = 1..Len(w)
      BY <3>2, LenProperties DEF Groups
    <3>4. Waiting' = UNION {w[i] : i \in 1..Len(w)}
      BY <3>1, <3>3 DEF Waiting
    <3> QED
      BY <3>1, <3>2, <3>4
  <2>4. pc'[t] = "handing" /\ \A v \in Tasks \ {t} : pc'[v] = pc[v]
    BY <1>7 DEF EndPops, Goto, Known, TypeOK
  <2>5. pc[t] = "ending" /\ UNCHANGED <<limit, limits, count, prio, sleeps>>
    BY <1>7 DEF EndPops, SlotKept
  <2>6. t \notin Waiting
    BY <2>5 DEF Known, Queued
  <2>7. Popped' = Popped \cup {u} /\ u \notin Popped
    BY <2>2, <2>3, <2>4, <2>5 DEF Popped
  <2>8. Handing' = Handing \cup {t} /\ t \notin Handing
    BY <2>4, <2>5 DEF Handing
  <2>9. next'[t] = u /\ \A v \in Handing : next'[v] = next[v]
    BY <2>1, <2>8 DEF Known, TypeOK, Handing
  <2>10. Sends'
    BY <2>7, <2>8, <2>9 DEF Known, Sends
  <2>11. Queued'
    BY <1>0, <2>3, <2>4, <2>5, <2>6 DEF Known, Queued
  <2>12. TypeOK'
    BY <1>7, <2>1, <2>3, <2>5 DEF Known, TypeOK, EndPops, Goto, Labels, Groups
  <2> QED
    BY <2>3, <2>10, <2>11, <2>12 DEF Known, Groups
<1>8. ASSUME NEW t \in Tasks, Handoff(t) PROVE Known'
  <2> DEFINE u == next[t]
  <2>1. t \in Handing /\ u \in Popped /\ u \in Tasks /\ u # t /\ u \notin Waiting /\ t \notin Waiting
    BY <1>8 DEF Handoff, Handing, Known, Sends, Popped, Queued
  <2>2. AfterEnd(t) \in {"asleep", "idle"}
    BY DEF AfterEnd
  <2>3. /\ pc'[t] = AfterEnd(t) /\ pc'[u] = "active"
        /\ \A v \in Tasks \ {t, u} : pc'[v] = pc[v]
    BY <1>8, <2>1 DEF Handoff, Known, TypeOK
  <2>4. UNCHANGED <<limit, limits, count, waitList>> /\ Waiting' = Waiting
    BY <1>8 DEF Handoff, Waiting
  <2>5. Popped' = Popped \ {u}
    BY <2>1, <2>2, <2>3, <2>4 DEF Popped, Handing
  <2>6. Handing' = Handing \ {t} /\ \A v \in Handing \ {t} : next'[v] = next[v]
    BY <1>8, <2>1, <2>2, <2>3 DEF Handing, Handoff, Known, TypeOK, Popped
  <2>7. \A v \in Handing \ {t} : next[v] # u
    BY <2>1 DEF Known, Sends
  <2>8. Sends'
    BY <2>5, <2>6, <2>7 DEF Known, Sends
  <2>9. \A v \in Tasks \ {u} : prio'[v] = prio[v]
    BY <1>8 DEF Handoff, Known, TypeOK
  <2>10. Queued'
    BY <1>0, <2>1, <2>2, <2>3, <2>4, <2>9 DEF Known, Queued
  <2>11. TypeOK'
    <3>1. pc' \in [Tasks -> Labels]
      BY DEF IInv, Typed
    <3>2. Priority[u] \in 1..High
      BY <2>1
    <3>3. prio' \in [Tasks -> 1..High] /\ sleeps' \in [Tasks -> BOOLEAN]
          /\ next' \in [Tasks -> Tasks \cup {Nobody}]
      BY <1>8, <2>1, <3>2 DEF Handoff, Known, TypeOK
    <3> QED
      BY <2>4, <3>1, <3>3 DEF Known, TypeOK
  <2>12. Groups(waitList)'
    BY <2>4 DEF Known, Groups
  <2> QED
    BY <2>8, <2>10, <2>11, <2>12 DEF Known
<1> QED
  BY <1>1, <1>2, <1>3, <1>4, <1>5, <1>6, <1>7, <1>8 DEF Next, Run

\* The records of the limiter are exact in every state (limiter.go): count is the
\* number of slots in use, and who is blocked in wait() is in the wait list or is the
\* one receiver of one end(), never both: no wake-up is lost and none is given twice,
\* also when the priority is raised between the pop and the send.
THEOREM RecordsAreExact == Spec => []RecordsExact
<1>1. Spec => []Known
  BY InitKnown, NextKnown, AlwaysIInv, PTL DEF Spec
<1>2. Known /\ IInv => RecordsExact
  <2> SUFFICES ASSUME Known, IInv PROVE EveryWaiterIsKnown
    BY DEF RecordsExact, Known, IInv
  <2> SUFFICES ASSUME NEW t \in Tasks
               PROVE  LET senders == {u \in Tasks : pc[u] = "handing" /\ next[u] = t}
                      IN  Cardinality(senders) = IF pc[t] \in {"blocked", "ticked"} /\ t \notin Waiting
                                                 THEN 1 ELSE 0
    BY DEF EveryWaiterIsKnown
  <2> DEFINE senders == {u \in Tasks : pc[u] = "handing" /\ next[u] = t}
  <2>1. senders = {u \in Handing : next[u] = t}
    BY DEF Handing
  <2>2. CASE t \in Popped
    <3>1. PICK u \in Handing : next[u] = t
      BY <2>2 DEF Known, Sends
    <3>2. senders = {u}
      BY <2>1, <3>1 DEF Known, Sends
    <3> HIDE DEF senders
    <3>3. Cardinality(senders) = 1
      BY <3>2, FS_Singleton
    <3> QED
      BY <2>2, <3>3 DEF Popped, senders
  <2>3. CASE t \notin Popped
    <3>1. senders = {}
      BY <2>1, <2>3 DEF Known, Sends
    <3> HIDE DEF senders
    <3>2. Cardinality(senders) = 0
      BY <3>1, FS_EmptySet
    <3> QED
      BY <2>3, <3>2 DEF Popped, senders
  <2> QED
    BY <2>2, <2>3
<1> QED
  BY <1>1, <1>2, AlwaysIInv, PTL
=============================================================================
