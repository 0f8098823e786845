---------------------------- MODULE GroupProofs -----------------------------
(***************************************************************************)
(* Proofs about EagerGroup for any finite set of calls and any limit, and   *)
(* about SingleSender for any senders.  That a nil from Wait means that all *)
(* ran needs that no Go is still in its select when the group is empty,     *)
(* hence that who made the call is blocked in it; that nothing starts late, *)
(* that the context never starts again.  That no send panics rests on the   *)
(* select being the only place where closedMu is held over a wait.          *)
(***************************************************************************)
EXTENDS EagerGroup, FiniteSetTheorems, TLAPS

CONSTANTS Senders, MaxSends, Nobody
VARIABLES parent, ctx, sendCtx, mu, closed, pc, sends, receiver, closing

Sender == INSTANCE SingleSender

\* What the proofs need of the constants.
Constants == /\ IsFiniteSet(Calls) /\ Limit \in Nat
             /\ Main \notin Calls /\ NoError \notin Calls /\ CtxError \notin Calls
             /\ Parent \notin Calls /\ CtxError # NoError /\ Parent # NoError

\* The goroutines of the group.
Active == {c \in Calls : st[c] \in InGroup}
SemCounts == Limit > 0 => sem = Cardinality(Active)

\* A recorded error ends the context.
ErrorCancels == err # NoError => cancelled

\* A goroutine that fails has an error to record, and once it is recorded g.err is one.
FailuresKnown == \A c \in Calls :
    /\ st[c] = "failed" => fails[c] # NoError
    /\ st[c] = "freeing" /\ fails[c] # NoError => err # NoError
    /\ st[c] \in {"rejected", "skipped", "error"} => err # NoError

\* Who is blocked in Go has not called Wait, or is a function that has not returned.
Blocked == \A c \in Calls : st[c] = "select" =>
             IF by[c] = Main THEN main = "submitting" ELSE st[by[c]] = "running"

\* After Wait the group is empty.
Ended == main = "returned" => \A c \in Calls : st[c] \notin InGroup

\* A call that was too late does not run, and fails with the context's error.
LateFails == \A c \in late : /\ cancelled
                             /\ st[c] \notin {"running", "ok", "error"}
                             /\ st[c] \in {"failed", "freeing"} => fails[c] = CtxError

IInv == /\ TypeOK /\ SemCounts /\ ErrorCancels /\ FailuresKnown /\ Blocked /\ Ended
        /\ CauseIsError /\ LateFails

-----------------------------------------------------------------------------
\* The invariant holds of a new group.
LEMMA InitIInv == ASSUME Constants, Init PROVE IInv
<1>1. TypeOK
  <2>1. NoError \in Errors /\ Main \in Calls \cup {Main} /\ "new" \in States
    BY DEF Errors, States
  <2>2. 0 \in 0..Limit
    BY DEF Constants
  <2>3. by \in [Calls -> Calls \cup {Main}] /\ fails \in [Calls -> Errors]
        /\ st \in [Calls -> States]
    BY <2>1 DEF Init
  <2> QED
    BY <2>1, <2>2, <2>3 DEF Init, TypeOK
<1>2. SemCounts
  <2>1. Active = {}
    BY DEF Active, Init, InGroup
  <2> QED
    BY <2>1, FS_EmptySet DEF SemCounts, Init
<1>3. ErrorCancels /\ FailuresKnown /\ Blocked /\ Ended /\ CauseIsError /\ LateFails
  BY DEF Constants, Init, ErrorCancels, FailuresKnown, Blocked, Ended, CauseIsError, LateFails
<1> QED
  BY <1>1, <1>2, <1>3 DEF IInv

\* One call enters or leaves the group: the semaphore counts.
LEMMA ActiveChanges ==
  ASSUME Constants, TypeOK, NEW c \in Calls, NEW s \in States, st' = [st EXCEPT ![c] = s]
  PROVE  /\ IsFiniteSet(Active) /\ Cardinality(Active) \in Nat
         /\ st[c] \in InGroup /\ s \in InGroup => Active' = Active
         /\ st[c] \notin InGroup /\ s \notin InGroup => Active' = Active
         /\ st[c] \notin InGroup /\ s \in InGroup =>
              Cardinality(Active') = Cardinality(Active) + 1
         /\ st[c] \in InGroup /\ s \notin InGroup =>
              Cardinality(Active') = Cardinality(Active) - 1
<1>1. IsFiniteSet(Active)
  BY FS_Subset DEF Constants, Active
<1>2. st[c] \notin InGroup /\ s \in InGroup => Active' = Active \cup {c} /\ c \notin Active
  BY DEF Active, TypeOK
<1>3. st[c] \in InGroup /\ s \notin InGroup => Active' = Active \ {c} /\ c \in Active
  BY DEF Active, TypeOK
<1>4. (st[c] \in InGroup <=> s \in InGroup) => Active' = Active
  BY DEF Active, TypeOK
<1>5. Cardinality(Active) \in Nat
  BY <1>1, FS_CardinalityType
<1> QED
  BY <1>1, <1>2, <1>3, <1>4, <1>5, FS_AddElement, FS_RemoveElement

\* What recording an error changes, and what it leaves true.
LEMMA RecordKeeps ==
  ASSUME Constants, IInv, NEW e \in Errors \ {NoError}, Record(e)
  PROVE  /\ cancelled' /\ err' # NoError
         /\ cancelled' \in BOOLEAN /\ cause' \in Errors \cup {Parent} /\ err' \in Errors
         /\ late' \subseteq Calls
         /\ cause' \in Calls => err' = cause'
         /\ late' = late \/ (~cancelled /\ late' = NotStarted)
<1> USE DEF IInv, TypeOK, ErrorCancels, CauseIsError
<1>1. CASE err = NoError
  <2>1. NotStarted \subseteq Calls
    BY DEF NotStarted
  <2> QED
    BY <1>1, <2>1 DEF Record, Cancel, Constants
<1>2. CASE err # NoError
  BY <1>2 DEF Record
<1> QED
  BY <1>1, <1>2

\* Go is refused.
LEMMA RejectedPreserves ==
  ASSUME Constants, IInv, NEW c \in Calls,
         SelectDone(c) \/ \E s \in Calls \cup {Main} : GoRejected(s, c)
  PROVE  IInv'
<1> USE DEF IInv
<1> DEFINE r == "rejected"
<1>1. /\ st[c] \in {"new", "select"} /\ cancelled /\ Record(CtxError)
      /\ st' = [st EXCEPT ![c] = r]
      /\ sem' = sem /\ fails' = fails /\ main' = main
      /\ by' \in [Calls -> Calls \cup {Main}]
      /\ \A d \in Calls \ {c} : by'[d] = by[d]
  BY DEF SelectDone, GoRejected, TypeOK
<1>2. CtxError \in Errors \ {NoError}
  BY DEF Constants, Errors
<1>3. /\ cancelled' /\ err' # NoError /\ cancelled' \in BOOLEAN
      /\ cause' \in Errors \cup {Parent} /\ err' \in Errors
      /\ cause' \in Calls => err' = cause'
      /\ late' = late
  BY <1>1, <1>2, RecordKeeps
<1>4. r \in States /\ r \notin InGroup /\ st[c] \notin InGroup
  BY <1>1 DEF States, InGroup
<1>5. SemCounts'
  BY <1>1, <1>4, ActiveChanges DEF SemCounts
<1>6. /\ st' \in [Calls -> States] /\ st'[c] = "rejected"
      /\ \A d \in Calls : d # c => st'[d] = st[d]
  BY <1>1, <1>4 DEF TypeOK
<1>7. TypeOK'
  BY <1>1, <1>3, <1>6 DEF TypeOK
<1>8. FailuresKnown'
  BY <1>1, <1>3, <1>6 DEF FailuresKnown
<1>9. Blocked'
  <2> SUFFICES ASSUME NEW d \in Calls, st'[d] = "select"
               PROVE  IF by'[d] = Main THEN main = "submitting" ELSE st'[by'[d]] = "running"
    BY <1>1 DEF Blocked
  <2>1. d # c /\ st[d] = "select" /\ by'[d] = by[d] /\ by[d] \in Calls \cup {Main}
    BY <1>1, <1>6 DEF TypeOK
  <2>2. by[d] # c \/ st[c] # "running"
    BY <1>1
  <2> QED
    BY <1>1, <1>6, <2>1, <2>2 DEF Blocked
<1>10. Ended' /\ ErrorCancels' /\ CauseIsError'
  BY <1>1, <1>3, <1>4, <1>6 DEF Ended, ErrorCancels, CauseIsError
<1>11. LateFails'
  BY <1>1, <1>3, <1>6 DEF LateFails, TypeOK
<1> QED
  BY <1>5, <1>7, <1>8, <1>9, <1>10, <1>11

\* Go goes on to its select, or to its goroutine.
LEMMA GoPreserves ==
  ASSUME Constants, IInv, NEW s \in Calls \cup {Main}, NEW c \in Calls, Go(s, c)
  PROVE  IInv'
<1> USE DEF IInv
<1> DEFINE n == IF Limit > 0 THEN "select" ELSE "spawned"
<1>1. /\ st[c] = "new" /\ ~cancelled /\ st' = [st EXCEPT ![c] = n]
      /\ by' = [by EXCEPT ![c] = s]
      /\ UNCHANGED <<cancelled, cause, err, sem, fails, main, late>>
      /\ IF s = Main THEN main = "submitting" ELSE s \in Calls /\ st[s] = "running"
  BY DEF Go, CanSubmit
<1>2. n \in States /\ st[c] \notin InGroup /\ (Limit > 0 => n \notin InGroup)
  BY <1>1 DEF States, InGroup
<1>3. SemCounts'
  <2> SUFFICES ASSUME Limit > 0 PROVE sem' = Cardinality(Active')
    BY <1>1 DEF SemCounts
  <2>1. Active' = Active
    BY <1>1, <1>2, ActiveChanges
  <2> QED
    BY <1>1, <2>1 DEF SemCounts
<1>4. /\ st' \in [Calls -> States] /\ st'[c] = n /\ by'[c] = s
      /\ by' \in [Calls -> Calls \cup {Main}]
      /\ \A d \in Calls : d # c => st'[d] = st[d] /\ by'[d] = by[d]
  BY <1>1, <1>2 DEF TypeOK
<1>5. TypeOK'
  BY <1>1, <1>4 DEF TypeOK
<1>6. FailuresKnown' /\ ErrorCancels' /\ CauseIsError'
  BY <1>1, <1>4 DEF FailuresKnown, ErrorCancels, CauseIsError
<1>7. Blocked'
  <2> SUFFICES ASSUME NEW d \in Calls, st'[d] = "select"
               PROVE  IF by'[d] = Main THEN main = "submitting" ELSE st'[by'[d]] = "running"
    BY <1>1 DEF Blocked
  <2>1. CASE d = c
    BY <1>1, <1>4, <2>1
  <2>2. CASE d # c
    BY <1>1, <1>4, <2>2 DEF Blocked, TypeOK
  <2> QED
    BY <2>1, <2>2
<1>8. Ended'
  <2>1. main # "returned"
    BY <1>1 DEF Ended, InGroup
  <2> QED
    BY <1>1, <2>1 DEF Ended
<1>9. LateFails'
  BY <1>1 DEF LateFails
<1> QED
  BY <1>3, <1>5, <1>6, <1>7, <1>8, <1>9

\* Go gets a slot.
LEMMA SlotPreserves ==
  ASSUME Constants, IInv, NEW c \in Calls, SelectSlot(c)
  PROVE  IInv'
<1> USE DEF IInv
<1> DEFINE n == "spawned"
<1>1. /\ st[c] = "select" /\ sem < Limit /\ sem' = sem + 1 /\ st' = [st EXCEPT ![c] = n]
      /\ UNCHANGED <<cancelled, cause, err, by, fails, main, late>>
  BY DEF SelectSlot
<1>2. n \in States /\ n \in InGroup /\ st[c] \notin InGroup
  BY <1>1 DEF States, InGroup
<1>3. SemCounts'
  BY <1>1, <1>2, ActiveChanges DEF SemCounts
<1>4. /\ st' \in [Calls -> States] /\ st'[c] = n
      /\ \A d \in Calls : d # c => st'[d] = st[d]
  BY <1>1, <1>2 DEF TypeOK
<1>5. sem' \in 0..Limit
  BY <1>1 DEF TypeOK, Constants
<1>6. TypeOK'
  BY <1>1, <1>4, <1>5 DEF TypeOK
<1>7. FailuresKnown' /\ ErrorCancels' /\ CauseIsError' /\ LateFails'
  BY <1>1, <1>4 DEF FailuresKnown, ErrorCancels, CauseIsError, LateFails, TypeOK
<1>8. Blocked'
  BY <1>1, <1>4 DEF Blocked, TypeOK
<1>9. Ended'
  <2>1. main # "returned"
    <3>1. IF by[c] = Main THEN main = "submitting" ELSE st[by[c]] = "running"
      BY <1>1 DEF Blocked
    <3>2. by[c] \in Calls \cup {Main}
      BY DEF TypeOK
    <3> QED
      BY <3>1, <3>2 DEF Ended, InGroup
  <2> QED
    BY <1>1, <2>1 DEF Ended
<1> QED
  BY <1>3, <1>6, <1>7, <1>8, <1>9

\* The goroutine looks at the context, or the function returns: it stays in the group.
LEMMA RunPreserves ==
  ASSUME Constants, IInv, NEW c \in Calls, Check(c) \/ \E e \in Errors : Return(c, e)
  PROVE  IInv'
<1> USE DEF IInv
<1>1. PICK n \in {"failed", "running", "freeing"}, f \in Errors :
         /\ st' = [st EXCEPT ![c] = n] /\ fails' = [fails EXCEPT ![c] = f]
         /\ n = "failed" => f # NoError
         /\ n = "freeing" => f = NoError
         /\ n = "running" => ~cancelled
         /\ f \in {NoError, c} => ~cancelled \/ st[c] = "running"
         /\ st[c] = "spawned" /\ cancelled => f = CtxError
  <2>1. CASE Check(c)
    BY <2>1 DEF Check, Constants, Errors
  <2>2. ASSUME NEW e \in Errors, Return(c, e) 
        PROVE  /\ st' = [st EXCEPT ![c] = IF e = NoError THEN "freeing" ELSE "failed"]
               /\ fails' = [fails EXCEPT ![c] = e] /\ st[c] = "running"
    BY <2>2 DEF Return
  <2> QED
    BY <2>1, <2>2
<1>2. /\ st[c] \in {"spawned", "running"}
      /\ UNCHANGED <<cancelled, cause, err, sem, by, main, late>>
      /\ n # "running" /\ st[c] = "running" =>
           \A d \in Calls : by[d] = c => st[d] # "select"
  BY <1>1 DEF Check, Return
<1>3. n \in States /\ n \in InGroup /\ st[c] \in InGroup
  BY <1>1, <1>2 DEF States, InGroup
<1>4. SemCounts'
  BY <1>1, <1>2, <1>3, ActiveChanges DEF SemCounts
<1>5. /\ st' \in [Calls -> States] /\ st'[c] = n /\ fails' \in [Calls -> Errors] /\ fails'[c] = f
      /\ \A d \in Calls : d # c => st'[d] = st[d] /\ fails'[d] = fails[d]
  BY <1>1, <1>3 DEF TypeOK
<1>6. TypeOK'
  BY <1>2, <1>5 DEF TypeOK
<1>7. FailuresKnown' /\ ErrorCancels' /\ CauseIsError'
  BY <1>1, <1>2, <1>5 DEF FailuresKnown, ErrorCancels, CauseIsError
<1>8. Blocked'
  <2> SUFFICES ASSUME NEW d \in Calls, st'[d] = "select"
               PROVE  IF by'[d] = Main THEN main = "submitting" ELSE st'[by'[d]] = "running"
    BY <1>2 DEF Blocked
  <2>1. d # c /\ st[d] = "select" /\ by'[d] = by[d] /\ by[d] \in Calls \cup {Main}
    BY <1>1, <1>2, <1>5 DEF TypeOK
  <2>2. by[d] = c => st[c] = "running" /\ n = "running"
    BY <1>2, <1>1, <2>1 DEF Blocked, Constants
  <2> QED
    BY <1>2, <1>5, <2>1, <2>2 DEF Blocked
<1>9. Ended'
  BY <1>2, <1>3, <1>5 DEF Ended
<1>10. LateFails'
  <2> SUFFICES ASSUME NEW d \in late
               PROVE  /\ cancelled /\ st'[d] \notin {"running", "ok", "error"}
                      /\ st'[d] \in {"failed", "freeing"} => fails'[d] = CtxError
    BY <1>2 DEF LateFails
  <2>1. d \in Calls /\ cancelled /\ st[d] # "running"
    BY DEF LateFails, TypeOK
  <2>2. CASE d = c
    BY <1>1, <1>2, <1>5, <2>1, <2>2
  <2>3. CASE d # c
    BY <1>5, <2>1, <2>3 DEF LateFails
  <2> QED
    BY <2>2, <2>3
<1> QED
  BY <1>4, <1>6, <1>7, <1>8, <1>9, <1>10

\* A goroutine records its error.
LEMMA FailPreserves ==
  ASSUME Constants, IInv, NEW c \in Calls, Fail(c)
  PROVE  IInv'
<1> USE DEF IInv
<1> DEFINE n == "freeing"
<1>1. /\ st[c] = "failed" /\ Record(fails[c]) /\ st' = [st EXCEPT ![c] = n]
      /\ UNCHANGED <<sem, by, fails, main>>
  BY DEF Fail
<1>2. fails[c] \in Errors \ {NoError}
  BY <1>1 DEF FailuresKnown, TypeOK
<1>3. /\ cancelled' /\ err' # NoError /\ cancelled' \in BOOLEAN
      /\ cause' \in Errors \cup {Parent} /\ err' \in Errors /\ late' \subseteq Calls
      /\ cause' \in Calls => err' = cause'
      /\ late' = late \/ (~cancelled /\ late' = NotStarted)
  BY <1>1, <1>2, RecordKeeps
<1>4. n \in States /\ n \in InGroup /\ st[c] \in InGroup
  BY <1>1 DEF States, InGroup
<1>5. SemCounts'
  BY <1>1, <1>4, ActiveChanges DEF SemCounts
<1>6. /\ st' \in [Calls -> States] /\ st'[c] = n
      /\ \A d \in Calls : d # c => st'[d] = st[d]
  BY <1>1, <1>4 DEF TypeOK
<1>7. TypeOK'
  BY <1>1, <1>3, <1>6 DEF TypeOK
<1>8. FailuresKnown' /\ ErrorCancels' /\ CauseIsError'
  BY <1>1, <1>3, <1>6 DEF FailuresKnown, ErrorCancels, CauseIsError
<1>9. Blocked'
  BY <1>1, <1>6 DEF Blocked, TypeOK
<1>10. Ended'
  BY <1>1, <1>4, <1>6 DEF Ended
<1>11. LateFails'
  <2>1. CASE late' = late
    BY <1>1, <1>3, <1>6, <2>1 DEF LateFails, TypeOK
  <2>2. CASE late' = NotStarted
    BY <1>1, <1>3, <1>6, <2>2 DEF LateFails, NotStarted
  <2> QED
    BY <1>3, <2>1, <2>2
<1> QED
  BY <1>5, <1>7, <1>8, <1>9, <1>10, <1>11

\* A goroutine gives its slot back.
LEMMA FreePreserves ==
  ASSUME Constants, IInv, NEW c \in Calls, Free(c)
  PROVE  IInv'
<1> USE DEF IInv
<1> DEFINE n == IF fails[c] = NoError THEN "ok"
                ELSE IF fails[c] = CtxError THEN "skipped" ELSE "error"
<1>1. /\ st[c] = "freeing" /\ sem' = SlotBack(c) /\ st' = [st EXCEPT ![c] = n]
      /\ UNCHANGED <<cancelled, cause, err, by, fails, main, late>>
  BY DEF Free
<1>2. n \in {"ok", "skipped", "error"} /\ n \in States /\ n \notin InGroup /\ st[c] \in InGroup
  BY <1>1 DEF States, InGroup
<1>3. SemCounts' /\ sem' \in 0..Limit
  <2>1. CASE Limit = 0
    BY <1>1, <2>1 DEF SlotBack, SemCounts, TypeOK
  <2>2. CASE Limit > 0
    <3>1. Cardinality(Active) \in Nat /\ Cardinality(Active') = Cardinality(Active) - 1
      BY <1>1, <1>2, ActiveChanges
    <3>2. Cardinality(Active') \in Nat
      <4>1. IsFiniteSet(Active')
        BY FS_Subset DEF Constants, Active
      <4> QED
        BY <4>1, FS_CardinalityType
    <3>3. sem = Cardinality(Active) /\ sem' = sem - 1 /\ sem \in 0..Limit /\ Limit \in Nat
      BY <1>1, <2>2 DEF SlotBack, SemCounts, TypeOK, Constants
    <3> QED
      BY <3>1, <3>2, <3>3 DEF SemCounts
  <2> QED
    BY <2>1, <2>2 DEF Constants
<1>4. /\ st' \in [Calls -> States] /\ st'[c] = n
      /\ \A d \in Calls : d # c => st'[d] = st[d]
  BY <1>1, <1>2 DEF TypeOK
<1>5. TypeOK'
  BY <1>1, <1>3, <1>4 DEF TypeOK
<1>6. FailuresKnown' /\ ErrorCancels' /\ CauseIsError'
  BY <1>1, <1>2, <1>4 DEF FailuresKnown, ErrorCancels, CauseIsError
<1>7. Blocked'
  BY <1>1, <1>2, <1>4 DEF Blocked, TypeOK
<1>8. Ended'
  BY <1>1, <1>2, <1>4 DEF Ended
<1>9. LateFails'
  <2>1. c \in late => n = "skipped"
    BY <1>1 DEF LateFails, Constants
  <2> QED
    BY <1>1, <1>4, <2>1 DEF LateFails, TypeOK
<1> QED
  BY <1>3, <1>5, <1>6, <1>7, <1>8, <1>9

\* Wait is called, returns, or the parent context ends: the calls stay where they are.
LEMMA MainPreserves ==
  ASSUME Constants, IInv, Wait \/ WaitReturns \/ ParentEnds
  PROVE  IInv'
<1> USE DEF IInv
<1>1. UNCHANGED <<err, sem, st, by, fails>> /\ main' \in {"submitting", "waiting", "returned"}
  BY DEF Wait, WaitReturns, ParentEnds, TypeOK
<1>2. /\ cancelled' \in BOOLEAN /\ cause' \in Errors \cup {Parent} /\ late' \subseteq Calls
      /\ err # NoError => cancelled'
      /\ cause' \in Calls => err = cause'
      /\ UNCHANGED late \/ (cancelled' /\ late' = NotStarted)
      /\ cancelled => cancelled'
  <2>1. CASE Wait
    BY <2>1 DEF Wait, TypeOK, ErrorCancels, CauseIsError
  <2>2. CASE WaitReturns
    BY <2>2 DEF WaitReturns, Cancel, NotStarted, TypeOK, CauseIsError
  <2>3. CASE ParentEnds
    BY <2>3 DEF ParentEnds, Cancel, NotStarted, TypeOK, CauseIsError, Constants
  <2> QED
    BY <2>1, <2>2, <2>3
<1>3. TypeOK'
  BY <1>1, <1>2 DEF TypeOK
<1>4. SemCounts' /\ FailuresKnown' /\ ErrorCancels' /\ CauseIsError'
  BY <1>1, <1>2 DEF SemCounts, Active, FailuresKnown, ErrorCancels, CauseIsError
<1>5. Blocked'
  <2>1. CASE Wait
    BY <1>1, <2>1 DEF Wait, CanSubmit, Blocked
  <2>2. CASE WaitReturns
    BY <1>1, <2>2 DEF WaitReturns, Blocked
  <2>3. CASE ParentEnds
    BY <1>1, <2>3 DEF ParentEnds, Blocked
  <2> QED
    BY <2>1, <2>2, <2>3
<1>6. Ended'
  BY <1>1 DEF Wait, WaitReturns, ParentEnds, Ended
<1>7. LateFails'
  BY <1>1, <1>2 DEF LateFails, NotStarted
<1> QED
  BY <1>3, <1>4, <1>5, <1>6, <1>7

\* Every step keeps the invariant.
LEMMA NextIInv == ASSUME Constants, IInv, [Next]_vars PROVE IInv'
<1>1. CASE UNCHANGED vars
  BY <1>1 DEF vars, IInv, TypeOK, SemCounts, Active, ErrorCancels, FailuresKnown, Blocked,
              Ended, CauseIsError, LateFails
<1>2. ASSUME NEW c \in Calls, NEW s \in Calls \cup {Main}, GoRejected(s, c) \/ Go(s, c)
      PROVE  IInv'
  BY <1>2, RejectedPreserves, GoPreserves
<1>3. ASSUME NEW c \in Calls, \E e \in Errors : Return(c, e) PROVE IInv'
  BY <1>3, RunPreserves
<1>4. ASSUME NEW c \in Calls, Group(c) PROVE IInv'
  BY <1>4, RejectedPreserves, SlotPreserves, RunPreserves, FailPreserves, FreePreserves
     DEF Group
<1>5. CASE Wait \/ WaitReturns \/ ParentEnds
  BY <1>5, MainPreserves
<1> QED
  BY <1>1, <1>2, <1>3, <1>4, <1>5 DEF Next

\* The group is never over its limit, Wait hides no failure and no function that was not
\* called, the error is the first one, and nothing starts late: for any number of calls.
THEOREM GroupTells == ASSUME Constants PROVE
  Spec => [](RecordsExact /\ WaitTellsWhatHappened /\ LateNotRun)
<1>1. Init => IInv
  BY InitIInv
<1>2. IInv /\ [Next]_vars => IInv'
  BY NextIInv
<1>3. ASSUME IInv PROVE RecordsExact /\ WaitTellsWhatHappened /\ LateNotRun
  <2>1. ActiveWithinLimit
    BY <1>3 DEF IInv, SemCounts, Active, ActiveWithinLimit, TypeOK, Constants
  <2>2. NilMeansAllRan
    <3> SUFFICES ASSUME main = "returned", err = NoError, NEW c \in Calls
                 PROVE  st[c] \in {"new", "ok"}
      BY DEF NilMeansAllRan
    <3>1. st[c] \in States /\ st[c] \notin InGroup
      BY <1>3 DEF IInv, TypeOK, Ended
    <3>2. st[c] \notin {"rejected", "skipped", "error"}
      BY <1>3 DEF IInv, FailuresKnown
    <3>3. st[c] # "select"
      <4>1. by[c] \in Calls \cup {Main}
        BY <1>3 DEF IInv, TypeOK
      <4> QED
        BY <1>3, <4>1 DEF IInv, Blocked, Ended, InGroup
    <3> QED
      BY <3>1, <3>2, <3>3 DEF States
  <2>3. CauseIsError /\ LateNotRun
    BY <1>3 DEF IInv, LateFails, LateNotRun
  <2> QED
    BY <1>3, <2>1, <2>2, <2>3 DEF IInv, RecordsExact, WaitTellsWhatHappened
<1> QED
  BY <1>1, <1>2, <1>3, PTL DEF Spec

-----------------------------------------------------------------------------
(* The single sender. *)

\* What the proofs need of its constants.
SenderConstants == Nobody \notin Senders /\ MaxSends \in Nat

\* Who has come past ctxCancel is closing.
Closers == \A s \in Senders : pc[s] \in {"closeSend", "closeLock", "stopped"} => closing

\* sendCtx ends with one of the two sides.
OneSideLeft == sendCtx => receiver = "left" \/ closing

SenderIInv == Sender!ChannelIsSafe /\ Closers /\ OneSideLeft

\* The invariant holds after Begin.
LEMMA SenderInit == ASSUME SenderConstants, Sender!Init PROVE SenderIInv
<1>1. ASSUME NEW s \in Senders PROVE pc[s] = "working" /\ mu # s
  BY <1>1 DEF SenderConstants, Sender!Init
<1>2. pc \in [Senders -> Sender!Labels] /\ sends \in [Senders -> 0..MaxSends]
  BY DEF SenderConstants, Sender!Init, Sender!Labels
<1>3. /\ parent \in BOOLEAN /\ ctx \in BOOLEAN /\ sendCtx \in BOOLEAN
      /\ mu \in Senders \cup {Nobody}
      /\ closed \in BOOLEAN /\ closing \in BOOLEAN
      /\ receiver \in {"receiving", "left", "ended"}
  BY DEF Sender!Init
<1>4. Sender!TypeOK
  BY <1>1, <1>2, <1>3 DEF Sender!TypeOK
<1>5. Sender!NoSendOnClosed /\ Closers /\ OneSideLeft
  BY <1>1 DEF Sender!Init, Sender!NoSendOnClosed, Closers, OneSideLeft
<1> QED
  BY <1>4, <1>5 DEF SenderIInv, Sender!ChannelIsSafe

\* A sender that takes or leaves closedMu for its select.
LEMMA SendPreserves ==
  ASSUME SenderConstants, SenderIInv, NEW s \in Senders,
         Sender!Send(s) \/ Sender!SendLock(s) \/ Sender!SendLeft(s) \/ Sender!Deliver(s)
  PROVE  SenderIInv'
<1> USE DEF Sender!Goto, Sender!Labels
<1>1. Sender!TypeOK /\ Sender!NoSendOnClosed /\ Closers /\ OneSideLeft
  BY DEF SenderIInv, Sender!ChannelIsSafe
<1>2. Sender!TypeOK'
  <2>1. CASE Sender!Send(s)
    BY <1>1, <2>1 DEF SenderConstants, Sender!TypeOK, Sender!Send
  <2>2. CASE Sender!SendLock(s)
    BY <1>1, <2>2 DEF SenderConstants, Sender!TypeOK, Sender!SendLock
  <2>3. CASE Sender!SendLeft(s)
    BY <1>1, <2>3 DEF SenderConstants, Sender!TypeOK, Sender!SendLeft
  <2>4. CASE Sender!Deliver(s)
    BY <1>1, <2>4 DEF SenderConstants, Sender!TypeOK, Sender!Deliver
  <2> QED
    BY <2>1, <2>2, <2>3, <2>4
<1>3. Sender!NoSendOnClosed'
  BY <1>1 DEF Sender!NoSendOnClosed, Sender!TypeOK, Sender!Send, Sender!SendLock,
              Sender!SendLeft, Sender!Deliver
<1>4. Closers' /\ OneSideLeft'
  BY <1>1 DEF Closers, OneSideLeft, Sender!TypeOK, Sender!Send, Sender!SendLock,
              Sender!SendLeft, Sender!Deliver
<1> QED
  BY <1>2, <1>3, <1>4 DEF SenderIInv, Sender!ChannelIsSafe

\* A sender that closes: it has the mutex to itself when it closes the channel.
LEMMA ClosePreserves ==
  ASSUME SenderConstants, SenderIInv, NEW s \in Senders,
         Sender!Close(s) \/ Sender!CloseSend(s) \/ Sender!CloseLock(s)
  PROVE  SenderIInv'
<1> USE DEF Sender!Goto, Sender!Labels
<1>1. Sender!TypeOK /\ Sender!NoSendOnClosed /\ Closers /\ OneSideLeft
  BY DEF SenderIInv, Sender!ChannelIsSafe
<1>2. Sender!TypeOK'
  BY <1>1 DEF SenderConstants, Sender!TypeOK, Sender!Close, Sender!CloseSend, Sender!CloseLock
<1>3. Sender!NoSendOnClosed'
  <2>1. CASE Sender!CloseLock(s)
    BY <1>1, <2>1 DEF SenderConstants, Sender!NoSendOnClosed, Sender!TypeOK, Sender!CloseLock
  <2>2. CASE Sender!Close(s) \/ Sender!CloseSend(s)
    BY <1>1, <2>2 DEF Sender!NoSendOnClosed, Sender!TypeOK, Sender!Close, Sender!CloseSend
  <2> QED
    BY <2>1, <2>2
<1>4. Closers' /\ OneSideLeft'
  BY <1>1 DEF Closers, OneSideLeft, Sender!TypeOK, Sender!Close, Sender!CloseSend, Sender!CloseLock
<1> QED
  BY <1>2, <1>3, <1>4 DEF SenderIInv, Sender!ChannelIsSafe

\* The invariant is inductive.
LEMMA SenderNext ==
  ASSUME SenderConstants, SenderIInv, [Sender!Next]_(Sender!vars)
  PROVE  SenderIInv'
<1>1. ASSUME NEW s \in Senders,
             Sender!Send(s) \/ Sender!SendLock(s) \/ Sender!SendLeft(s) \/ Sender!Deliver(s)
      PROVE  SenderIInv'
  BY <1>1, SendPreserves
<1>2. ASSUME NEW s \in Senders, Sender!Close(s) \/ Sender!CloseSend(s) \/ Sender!CloseLock(s)
      PROVE  SenderIInv'
  BY <1>2, ClosePreserves
<1>3. CASE Sender!Leave \/ Sender!ReceiveClosed \/ Sender!ParentEnds \/ UNCHANGED Sender!vars
  <2> USE DEF Sender!Leave, Sender!ReceiveClosed, Sender!ParentEnds, Sender!vars
  <2>1. Sender!TypeOK /\ Sender!NoSendOnClosed /\ Closers /\ OneSideLeft
    BY DEF SenderIInv, Sender!ChannelIsSafe
  <2>2. UNCHANGED <<mu, pc, sends, closed, closing>>
    BY <1>3
  <2>3. Sender!TypeOK'
    <3>1. /\ parent' \in BOOLEAN /\ ctx' \in BOOLEAN /\ sendCtx' \in BOOLEAN
          /\ receiver' \in {"receiving", "left", "ended"}
      BY <1>3, <2>1 DEF Sender!TypeOK
    <3> QED
      BY <2>1, <2>2, <3>1 DEF Sender!TypeOK
  <2>4. Sender!NoSendOnClosed' /\ Closers'
    BY <2>1, <2>2 DEF Sender!NoSendOnClosed, Closers
  <2>5. OneSideLeft'
    <3>1. CASE Sender!Leave
      BY <3>1 DEF OneSideLeft
    <3>2. CASE Sender!ReceiveClosed
      BY <2>1, <3>2 DEF OneSideLeft
    <3>3. CASE Sender!ParentEnds \/ UNCHANGED Sender!vars
      BY <2>1, <3>3 DEF OneSideLeft
    <3> QED
      BY <1>3, <3>1, <3>2, <3>3
  <2> QED
    BY <2>3, <2>4, <2>5 DEF SenderIInv, Sender!ChannelIsSafe
<1> QED
  BY <1>1, <1>2, <1>3 DEF Sender!Next, Sender!Step

\* No goroutine is blocked sending on the channel when it is closed, nor starts to: a send
\* on a closed channel would panic.  closedMu has one holder, the one in the select.
THEOREM NoSendPanics == ASSUME SenderConstants PROVE Sender!Spec => []Sender!ChannelIsSafe
<1>1. Sender!Init => SenderIInv
  BY SenderInit
<1>2. SenderIInv /\ [Sender!Next]_(Sender!vars) => SenderIInv'
  BY SenderNext
<1>3. SenderIInv => Sender!ChannelIsSafe
  BY DEF SenderIInv
<1> QED
  BY <1>1, <1>2, <1>3, PTL DEF Sender!Spec

\* Send drops a value only after the receiver has left or Close has been called.
THEOREM DroppedOnlyWhenLeft ==
  ASSUME SenderConstants
  PROVE  Sender!Spec => [][\A s \in Senders : Sender!SendLeft(s) => receiver = "left" \/ closing]_(Sender!vars)
<1>1. Sender!Init => SenderIInv
  BY SenderInit
<1>2. SenderIInv /\ [Sender!Next]_(Sender!vars) => SenderIInv'
  BY SenderNext
<1>3. SenderIInv =>
        [\A s \in Senders : Sender!SendLeft(s) => receiver = "left" \/ closing]_(Sender!vars)
  BY DEF SenderIInv, OneSideLeft, Sender!SendLeft
<1> QED
  BY <1>1, <1>2, <1>3, PTL DEF Sender!Spec
=============================================================================
