----------------------------- MODULE EagerGroup -----------------------------
(***************************************************************************)
(* sync/eagergroup.go: functions run in goroutines, at most Limit at a      *)
(* time; the first error, or the cancellation of the parent context, stops  *)
(* the ones that have not started.  Go is called by the goroutine that will *)
(* call Wait and, from inside the group, by the functions themselves.       *)
(***************************************************************************)
EXTENDS Integers, FiniteSets

CONSTANTS Calls,     \* the calls of Go, each with its function
          Limit,     \* 0: no limit (g.sem is nil)
          Main,      \* the goroutine that calls Wait
          NoError, CtxError, Parent

VARIABLES cancelled,  \* g.ctx.Err() # nil
          cause,      \* what ended g.ctx; NoError: nothing yet, or Wait without an error
          err,        \* g.err; the error of a function is named after its call
          sem,        \* elements in g.sem
          st,         \* where each call is
          by,         \* who made it
          fails,      \* the error a call's goroutine is about to record
          main,       \* where Main is
          late        \* history: calls whose goroutine had not looked at the context when it ended

vars == <<cancelled, cause, err, sem, st, by, fails, main, late>>

InGroup == {"spawned", "running", "failed", "freeing"}
States == InGroup \cup {"new", "select", "rejected", "ok", "skipped", "error"}
Errors == Calls \cup {NoError, CtxError}

TypeOK == /\ cancelled \in BOOLEAN
          /\ cause \in Errors \cup {Parent}
          /\ err \in Errors
          /\ sem \in 0..Limit
          /\ st \in [Calls -> States]
          /\ by \in [Calls -> Calls \cup {Main}]
          /\ fails \in [Calls -> Errors]
          /\ main \in {"submitting", "waiting", "returned"}
          /\ late \subseteq Calls

Init == /\ cancelled = FALSE /\ cause = NoError /\ err = NoError
        /\ sem = 0
        /\ st = [c \in Calls |-> "new"]
        /\ by = [c \in Calls |-> Main]
        /\ fails = [c \in Calls |-> NoError]
        /\ main = "submitting"
        /\ late = {}

\* Calls that have not passed the check in their goroutine.
NotStarted == {c \in Calls : st[c] \in {"new", "select", "spawned"}}

\* The context ends; the first cause stays.
Cancel(why) == /\ cancelled' = TRUE
               /\ cause' = IF cancelled THEN cause ELSE why
               /\ late' = IF cancelled THEN late ELSE NotStarted

\* errOnce.Do: the first error is kept and cancels the context.
Record(e) == IF err = NoError THEN err' = e /\ Cancel(e)
             ELSE UNCHANGED <<err, cancelled, cause, late>>

-----------------------------------------------------------------------------
\* A goroutine that can call Go: Main before Wait, or a function that runs; not
\* while it is blocked in Go.
CanSubmit(s) == /\ IF s = Main THEN main = "submitting" ELSE st[s] = "running"
                /\ \A c \in Calls : by[c] = s => st[c] # "select"

\* Fault: the context's error is not recorded.
GoRejected_Silent(s, c) ==
  /\ CanSubmit(s) /\ st[c] = "new" /\ cancelled
  /\ st' = [st EXCEPT ![c] = "rejected"]
  /\ by' = [by EXCEPT ![c] = s]
  /\ UNCHANGED <<cancelled, cause, err, sem, fails, main, late>>

\* Go(f) finds the context ended.
GoRejected(s, c) ==
  /\ CanSubmit(s) /\ st[c] = "new" /\ cancelled
  /\ Record(CtxError)
  /\ st' = [st EXCEPT ![c] = "rejected"]
  /\ by' = [by EXCEPT ![c] = s]
  /\ UNCHANGED <<sem, fails, main>>

\* Go(f) goes on to the select, or, without a limit, to the goroutine.
Go(s, c) ==
  /\ CanSubmit(s) /\ st[c] = "new" /\ ~cancelled
  /\ st' = [st EXCEPT ![c] = IF Limit > 0 THEN "select" ELSE "spawned"]
  /\ by' = [by EXCEPT ![c] = s]
  /\ UNCHANGED <<cancelled, cause, err, sem, fails, main, late>>

\* The select of Go takes the ended context ...
SelectDone(c) ==
  /\ st[c] = "select" /\ cancelled
  /\ Record(CtxError)
  /\ st' = [st EXCEPT ![c] = "rejected"]
  /\ UNCHANGED <<sem, by, fails, main>>

\* ... or a slot, also when the context has ended too.
SelectSlot(c) ==
  /\ st[c] = "select" /\ sem < Limit
  /\ sem' = sem + 1
  /\ st' = [st EXCEPT ![c] = "spawned"]
  /\ UNCHANGED <<cancelled, cause, err, by, fails, main, late>>

\* The goroutine looks at the context: f is called, or not.
Check(c) ==
  /\ st[c] = "spawned"
  /\ st' = [st EXCEPT ![c] = IF cancelled THEN "failed" ELSE "running"]
  /\ fails' = [fails EXCEPT ![c] = IF cancelled THEN CtxError ELSE NoError]
  /\ UNCHANGED <<cancelled, cause, err, sem, by, main, late>>

\* f returns nil, or its error.
Return(c, e) ==
  /\ st[c] = "running"
  /\ \A d \in Calls : by[d] = c => st[d] # "select"
  /\ e \in {NoError, c}
  /\ fails' = [fails EXCEPT ![c] = e]
  /\ st' = [st EXCEPT ![c] = IF e = NoError THEN "freeing" ELSE "failed"]
  /\ UNCHANGED <<cancelled, cause, err, sem, by, main, late>>

\* The goroutine records its error.
Fail(c) ==
  /\ st[c] = "failed"
  /\ Record(fails[c])
  /\ st' = [st EXCEPT ![c] = "freeing"]
  /\ UNCHANGED <<sem, by, fails, main>>

\* <-g.sem, when there is a limit.
SlotBack(c) == IF Limit > 0 THEN sem - 1 ELSE sem

\* The goroutine gives its slot back and leaves the wait group.
Free(c) ==
  /\ st[c] = "freeing"
  /\ sem' = SlotBack(c)
  /\ st' = [st EXCEPT ![c] = IF fails[c] = NoError THEN "ok"
                             ELSE IF fails[c] = CtxError THEN "skipped" ELSE "error"]
  /\ UNCHANGED <<cancelled, cause, err, by, fails, main, late>>

\* Wait is called.
Wait == /\ CanSubmit(Main)
        /\ main' = "waiting"
        /\ UNCHANGED <<cancelled, cause, err, sem, st, by, fails, late>>

\* Fault: a call that was rejected still counts in the wait group.
WaitReturns_CountsRejected ==
  /\ main = "waiting"
  /\ \A c \in Calls : st[c] \notin InGroup \cup {"rejected"}
  /\ main' = "returned"
  /\ Cancel(err)
  /\ UNCHANGED <<err, sem, st, by, fails>>

\* The wait group is empty: Wait cancels the context and returns g.err.
WaitReturns == /\ main = "waiting"
               /\ \A c \in Calls : st[c] \notin InGroup
               /\ main' = "returned"
               /\ Cancel(err)
               /\ UNCHANGED <<err, sem, st, by, fails>>

\* The parent context ends.
ParentEnds == /\ ~cancelled
              /\ Cancel(Parent)
              /\ UNCHANGED <<err, sem, st, by, fails, main>>

Group(c) == SelectDone(c) \/ SelectSlot(c) \/ Check(c) \/ Fail(c) \/ Free(c)

Next == \/ \E c \in Calls : \/ \E s \in Calls \cup {Main} : GoRejected(s, c) \/ Go(s, c)
                            \/ \E e \in Errors : Return(c, e)
                            \/ Group(c)
        \/ Wait \/ WaitReturns \/ ParentEnds

Spec == Init /\ [][Next]_vars

\* Goroutines that can run do.
Fairness == (\A c \in Calls : WF_vars(Group(c))) /\ WF_vars(WaitReturns)

FairSpec == Spec /\ Fairness

\* Functions return.
FunctionsReturn == \A c \in Calls : WF_vars(\E e \in Errors : Return(c, e))

-----------------------------------------------------------------------------
\* Doc of Go: no more goroutines of the group are active than the limit, and the
\* semaphore holds one element for each, so no slot is lost on any path.
ActiveWithinLimit ==
  Limit > 0 => sem = Cardinality({c \in Calls : st[c] \in InGroup}) /\ sem <= Limit

\* The semaphore's elements and the goroutines of the group are the same.
RecordsExact == TypeOK /\ ActiveWithinLimit

\* Wait does not hide a function that failed or that was never called: if it
\* returns nil, each function given to Go before has run and returned nil.
NilMeansAllRan == main = "returned" /\ err = NoError =>
                    \A c \in Calls : st[c] \in {"new", "ok"}

\* Doc of Go: the error that cancels the context is the one Wait returns, not one
\* that comes later, nor the context's own error in its place.
CauseIsError == cause \in Calls => err = cause

\* What Wait returns tells what happened: nil only if all ran, and else the first
\* error, also when errors, rejections and the end of the context race.
WaitTellsWhatHappened == NilMeansAllRan /\ CauseIsError

\* Doc of Go: a function that waits for the limit, or whose goroutine has not
\* looked at the context yet, when the context ends is not called.
LateNotRun == \A c \in late : st[c] \notin {"running", "ok", "error"}

\* All slots are held by functions that wait for one.
Entangled == {c \in Calls : st[c] = "running" /\ \E d \in Calls : by[d] = c /\ st[d] = "select"}
SlotsEntangled == Limit > 0 /\ Cardinality(Entangled) = Limit

\* When the functions return, so does Wait, unless functions that call Go themselves
\* have taken all slots and wait for one, and the context goes on.
WaitEnds == FunctionsReturn =>
              (main = "waiting" ~> main = "returned" \/ (SlotsEntangled /\ ~cancelled))

=============================================================================
