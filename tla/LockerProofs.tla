---------------------------- MODULE LockerProofs -----------------------------
(***************************************************************************)
(* Proofs about PartitionLocker and PartitionRWLocker for any sets of       *)
(* callers, ids and addresses.  Mutual exclusion is not inductive: that     *)
(* nobody enters while a caller is inside rests on the entry of the id      *)
(* still being the one that caller locked, which rests on the entry not     *)
(* having been deleted, which rests on refs counting every caller that      *)
(* waits or holds.  The part about entries and references is the same for   *)
(* both; what differs is who may be inside: a writer owns the mutex of its  *)
(* entry and finds no reader there, a reader is among its readers.          *)
(***************************************************************************)
EXTENDS PartitionLocker, FiniteSetTheorems, TLAPS

VARIABLES lRW, sRW, writer, readers, refsRW, pcRW, argRW, liRW, mode

RW == INSTANCE PartitionRWLocker WITH
        l <- lRW, s <- sRW, refs <- refsRW, pc <- pcRW, arg <- argRW, li <- liRW

-----------------------------------------------------------------------------
(* The partition locker. *)

\* The labels at which a caller owns p.l.
InL == {"lock_ref", "unlock_mu", "unlock_ref"}

\* The labels at which a caller is counted by refs.
Counted == {"lock_mu", "holding", "unlock_l", "unlock_mu", "unlock_ref"}

\* p.l is owned by the one caller that is in a section it protects.
LOwner == \A t \in Threads : pc[t] \in InL <=> l = t

\* A caller has a pointer exactly while it uses one, and it is the map's.
Pointers == \A t \in Threads :
              /\ li[t] # NoInfo <=> pc[t] \in InL \cup {"lock_mu"}
              /\ li[t] # NoInfo => s[arg[t]] = li[t]

\* The entry of a caller that is counted is there.
Entries == \A t \in Threads : pc[t] \in Counted => s[arg[t]] # NoInfo

\* Two ids never share a lockInfo.
Injective == \A i, j \in Ids : s[i] = s[j] /\ s[i] # NoInfo => i = j

\* A caller that is inside owns the mutex of the map's entry.
Owner == \A t \in Inside : mu[s[arg[t]]] = t

\* refs is exact in every state, also while p.l is held.
RefCount == \A id \in Ids : s[id] # NoInfo => refs[s[id]] = Cardinality(Users(id))

\* An entry without a counted caller is one that Lock has just created.
NoIdleEntry == \A id \in Ids : s[id] # NoInfo =>
                 \E t \in Threads : pc[t] \in Counted \cup {"lock_ref"} /\ arg[t] = id

IInv == /\ TypeOK /\ LOwner /\ Pointers /\ Entries
        /\ Injective /\ Owner /\ RefCount /\ NoIdleEntry

-----------------------------------------------------------------------------
USE ConstantsAssumption

\* The callers of an id are finitely many.
LEMMA UsersFinite ==
  ASSUME NEW id
  PROVE  IsFiniteSet(Users(id)) /\ Cardinality(Users(id)) \in Nat
<1>1. Users(id) \in SUBSET Threads
  BY DEF Users
<1>2. IsFiniteSet(Users(id))
  BY <1>1, FS_Subset
<1> QED
  BY <1>2, FS_CardinalityType

\* The inductive invariant holds when the locker is created.
LEMMA InitIInv == Init => IInv
<1> SUFFICES ASSUME Init PROVE IInv
  OBVIOUS
<1>1. TypeOK
  BY DEF Init, TypeOK, Labels
<1>2. LOwner /\ Pointers /\ Entries /\ Injective /\ Owner /\ RefCount /\ NoIdleEntry
  BY <1>1 DEF Init, TypeOK, LOwner, Pointers, Entries, Injective, Owner, RefCount,
              NoIdleEntry, Inside, InL, Counted
<1> QED
  BY <1>1, <1>2 DEF IInv

\* lockInfo returns the map's entry and leaves the other entries, and what the
\* callers of the other ids rely on, alone.
LEMMA LockInfoStep ==
  ASSUME TypeOK, Pointers, Injective, NEW t \in Threads, LockInfo(t)
  PROVE  /\ s' \in [Ids -> Infos \cup {NoInfo}]
         /\ mu' \in [Infos -> Threads \cup {NoThread}]
         /\ refs' \in [Infos -> Nat]
         /\ s'[arg[t]] \in Infos
         /\ li' = [li EXCEPT ![t] = s'[arg[t]]]
         /\ \A i \in Ids : s[i] # NoInfo =>
              s'[i] = s[i] /\ mu'[s[i]] = mu[s[i]] /\ refs'[s[i]] = refs[s[i]]
         /\ \A i \in Ids : i # arg[t] => s'[i] = s[i]
         /\ s[arg[t]] = NoInfo => refs'[s'[arg[t]]] = 0
         /\ \A i, j \in Ids : s'[i] = s'[j] /\ s'[i] # NoInfo => i = j
<1>0. arg[t] \in Ids
  BY DEF TypeOK
<1>1. CASE s[arg[t]] # NoInfo /\ li' = [li EXCEPT ![t] = s[arg[t]]] /\ UNCHANGED <<s, mu, refs>>
  BY <1>0, <1>1 DEF TypeOK, Injective
<1>2. CASE /\ s[arg[t]] = NoInfo
           /\ \E o \in Infos : /\ Unreachable(o)
                               /\ s' = [s EXCEPT ![arg[t]] = o]
                               /\ mu' = [mu EXCEPT ![o] = NoThread]
                               /\ refs' = [refs EXCEPT ![o] = 0]
                               /\ li' = [li EXCEPT ![t] = o]
  <2>1. PICK o \in Infos : /\ Unreachable(o)
                           /\ s' = [s EXCEPT ![arg[t]] = o]
                           /\ mu' = [mu EXCEPT ![o] = NoThread]
                           /\ refs' = [refs EXCEPT ![o] = 0]
                           /\ li' = [li EXCEPT ![t] = o]
    BY <1>2
  <2>2. \A i \in Ids : s[i] # o
    BY <2>1 DEF Unreachable
  <2>3. s'[arg[t]] = o /\ \A i \in Ids : i # arg[t] => s'[i] = s[i]
    BY <1>0, <2>1 DEF TypeOK
  <2>4. \A i \in Ids : s[i] # NoInfo => i # arg[t] /\ s[i] \in Infos
    BY <1>2 DEF TypeOK
  <2>5. \A i \in Ids : s[i] # NoInfo => mu'[s[i]] = mu[s[i]] /\ refs'[s[i]] = refs[s[i]]
    BY <2>1, <2>2, <2>4 DEF TypeOK
  <2>6. \A i, j \in Ids : s'[i] = s'[j] /\ s'[i] # NoInfo => i = j
    BY <2>2, <2>3 DEF Injective
  <2>7. refs'[o] = 0
    BY <2>1 DEF TypeOK
  <2>8. /\ s' \in [Ids -> Infos \cup {NoInfo}]
        /\ mu' \in [Infos -> Threads \cup {NoThread}]
        /\ refs' \in [Infos -> Nat]
    BY <2>1 DEF TypeOK
  <2> QED
    BY <2>1, <2>3, <2>4, <2>5, <2>6, <2>7, <2>8
<1> QED
  BY <1>1, <1>2 DEF LockInfo

\* A step that looks an entry up preserves the inductive invariant.
LEMMA LockInfoPreserves ==
  ASSUME IInv, NEW t \in Threads, LockL(t) \/ UnlockL(t)
  PROVE  IInv'
<1> USE DEF IInv
<1>1. /\ pc[t] \in {"lock_l", "unlock_l"} /\ l = NoThread /\ l' = t /\ UNCHANGED arg
      /\ \/ pc[t] = "lock_l" /\ pc' = [pc EXCEPT ![t] = "lock_ref"]
         \/ pc[t] = "unlock_l" /\ pc' = [pc EXCEPT ![t] = "unlock_mu"]
      /\ LockInfo(t)
  BY DEF LockL, UnlockL
<1>2. pc' \in [Threads -> Labels] /\ pc'[t] \in {"lock_ref", "unlock_mu"}
      /\ \A u \in Threads : u # t => pc'[u] = pc[u]
  BY <1>1 DEF TypeOK, Labels
<1>3. /\ s' \in [Ids -> Infos \cup {NoInfo}]
      /\ mu' \in [Infos -> Threads \cup {NoThread}]
      /\ refs' \in [Infos -> Nat]
      /\ s'[arg[t]] \in Infos
      /\ li' = [li EXCEPT ![t] = s'[arg[t]]]
      /\ \A i \in Ids : s[i] # NoInfo =>
           s'[i] = s[i] /\ mu'[s[i]] = mu[s[i]] /\ refs'[s[i]] = refs[s[i]]
      /\ \A i \in Ids : i # arg[t] => s'[i] = s[i]
      /\ s[arg[t]] = NoInfo => refs'[s'[arg[t]]] = 0
      /\ \A i, j \in Ids : s'[i] = s'[j] /\ s'[i] # NoInfo => i = j
  BY <1>1, LockInfoStep
<1>4. /\ arg[t] \in Ids
      /\ li'[t] = s'[arg[t]]
      /\ \A u \in Threads : u # t => li'[u] = li[u]
      /\ li' \in [Threads -> Infos \cup {NoInfo}]
  BY <1>3 DEF TypeOK
<1>5. TypeOK'
  BY <1>1, <1>2, <1>3, <1>4 DEF TypeOK
<1>6. LOwner'
  BY <1>1, <1>2 DEF LOwner, InL, TypeOK
<1>7. \A u \in Threads : u # t /\ li[u] # NoInfo => s'[arg[u]] = s[arg[u]]
  BY <1>3 DEF Pointers, TypeOK
<1>8. Pointers'
  BY <1>1, <1>2, <1>3, <1>4, <1>7 DEF Pointers, InL
<1>9. Entries'
  BY <1>1, <1>2, <1>3, <1>4 DEF Entries, Counted, TypeOK
<1>10. Injective'
  BY <1>3 DEF Injective
<1>11. Inside' = Inside
  BY <1>1, <1>2 DEF Inside, TypeOK
<1>12. Owner'
  <2> SUFFICES ASSUME NEW u \in Inside PROVE mu'[s'[arg[u]]] = u
    BY <1>1, <1>11 DEF Owner
  <2>1. u \in Threads /\ pc[u] \in Counted /\ arg[u] \in Ids
    BY DEF Inside, Counted, TypeOK
  <2>2. s[arg[u]] # NoInfo /\ mu[s[arg[u]]] = u
    BY <2>1 DEF Entries, Owner
  <2> QED
    BY <1>3, <2>1, <2>2
<1>13. \A id \in Ids : Users(id)' = Users(id)
  BY <1>1, <1>2 DEF Users, TypeOK
<1>14. RefCount'
  <2> SUFFICES ASSUME NEW id \in Ids, s'[id] # NoInfo
               PROVE  refs'[s'[id]] = Cardinality(Users(id))
    BY <1>13 DEF RefCount
  <2>1. CASE s[id] # NoInfo
    BY <2>1, <1>3 DEF RefCount
  <2>2. CASE s[id] = NoInfo
    <3>1. id = arg[t] /\ refs'[s'[id]] = 0
      BY <2>2, <1>3
    <3>2. Users(id) = {}
      BY <2>2 DEF Users, Entries, Counted
    <3> QED
      BY <3>1, <3>2, FS_EmptySet
  <2> QED
    BY <2>1, <2>2
<1>15. NoIdleEntry'
  <2> SUFFICES ASSUME NEW id \in Ids, s'[id] # NoInfo
               PROVE  \E u \in Threads : pc'[u] \in Counted \cup {"lock_ref"} /\ arg[u] = id
    BY <1>1 DEF NoIdleEntry
  <2>1. CASE id = arg[t]
    BY <2>1, <1>2 DEF Counted
  <2>2. CASE id # arg[t]
    BY <2>2, <1>1, <1>2, <1>3 DEF NoIdleEntry, Counted
  <2> QED
    BY <2>1, <2>2
<1> QED
  BY <1>5, <1>6, <1>8, <1>9, <1>10, <1>12, <1>14, <1>15

\* The call of Lock or Unlock only moves its caller.
LEMMA CallPreserves ==
  ASSUME IInv, NEW t \in Threads,
         (\E id \in Ids : LockCall(t, id)) \/ UnlockCall(t)
  PROVE  IInv'
<1> USE DEF IInv
<1>1. CASE UnlockCall(t)
  <2> USE <1>1 DEF UnlockCall
  <2>1. TypeOK' /\ LOwner' /\ Pointers' /\ Entries' /\ Injective'
    BY DEF TypeOK, LOwner, Pointers, Entries, Injective, Labels, InL, Counted
  <2>2. Inside' = Inside /\ \A id : Users(id)' = Users(id)
    BY DEF Inside, Users, TypeOK
  <2>3. Owner' /\ RefCount' /\ NoIdleEntry'
    BY <2>2 DEF Owner, RefCount, NoIdleEntry, Inside, Counted, TypeOK
  <2> QED
    BY <2>1, <2>3
<1>2. ASSUME NEW id \in Ids, LockCall(t, id)
      PROVE  IInv'
  <2> USE <1>2 DEF LockCall
  <2>1. TypeOK' /\ LOwner' /\ Pointers' /\ Entries' /\ Injective'
    BY DEF TypeOK, LOwner, Pointers, Entries, Injective, Labels, InL, Counted
  <2>2. Inside' = Inside /\ \A i : Users(i)' = Users(i)
    BY DEF Inside, Users, TypeOK
  <2>3. t \notin Inside /\ \A u \in Threads : u # t => arg'[u] = arg[u] /\ pc'[u] = pc[u]
    BY DEF Inside, TypeOK
  <2>4. Owner' /\ RefCount'
    BY <2>2, <2>3 DEF Owner, RefCount, Inside
  <2>5. NoIdleEntry'
    BY <2>3 DEF NoIdleEntry, Counted
  <2> QED
    BY <2>1, <2>4, <2>5
<1> QED
  BY <1>1, <1>2

\* li.refs++ adds its caller to the ones counted.
LEMMA LockRefPreserves ==
  ASSUME IInv, NEW t \in Threads, LockRef(t)
  PROVE  IInv'
<1> USE DEF IInv, LockRef
<1>1. arg[t] \in Ids /\ li[t] \in Infos /\ s[arg[t]] = li[t]
  BY DEF TypeOK, Pointers, InL
<1>2. TypeOK'
  BY <1>1 DEF TypeOK, Labels
<1>3. LOwner' /\ Pointers' /\ Injective'
  BY DEF LOwner, Pointers, Injective, InL, TypeOK
<1>4. Entries'
  BY <1>1 DEF Entries, Counted, TypeOK
<1>5. Inside' = Inside
  BY DEF Inside, TypeOK
<1>6. Owner'
  BY <1>5 DEF Owner
<1>7. t \notin Users(arg[t]) /\ Users(arg[t])' = Users(arg[t]) \cup {t}
  BY DEF Users, TypeOK
<1>8. \A i \in Ids : i # arg[t] => Users(i)' = Users(i)
  BY DEF Users, TypeOK
<1>9. RefCount'
  <2> SUFFICES ASSUME NEW i \in Ids, s[i] # NoInfo
               PROVE  refs'[s[i]] = Cardinality(Users(i)')
    BY DEF RefCount
  <2>1. s[i] \in Infos /\ refs[s[i]] = Cardinality(Users(i))
    BY DEF RefCount, TypeOK
  <2>2. CASE i = arg[t]
    <3>1. Cardinality(Users(i)') = Cardinality(Users(i)) + 1
      BY <1>7, <2>2, UsersFinite, FS_AddElement
    <3>2. refs'[s[i]] = refs[s[i]] + 1
      BY <1>1, <2>2 DEF TypeOK
    <3> QED
      BY <2>1, <3>1, <3>2
  <2>3. CASE i # arg[t]
    <3>1. s[i] # li[t]
      BY <1>1, <2>3 DEF Injective
    <3>2. refs'[s[i]] = refs[s[i]]
      BY <2>1, <3>1 DEF TypeOK
    <3> QED
      BY <1>8, <2>1, <2>3, <3>2
  <2> QED
    BY <2>2, <2>3
<1>10. NoIdleEntry'
  BY DEF NoIdleEntry, Counted, TypeOK
<1> QED
  BY <1>2, <1>3, <1>4, <1>6, <1>9, <1>10

\* li.mu.Lock() and li.mu.Unlock() change one mutex, which is that of their id.
LEMMA MuPreserves ==
  ASSUME IInv, NEW t \in Threads, LockMu(t) \/ UnlockMu(t)
  PROVE  IInv'
<1> USE DEF IInv
<1>1. arg[t] \in Ids /\ li[t] \in Infos /\ s[arg[t]] = li[t]
  BY DEF TypeOK, Pointers, InL, LockMu, UnlockMu
<1>2. TypeOK'
  BY <1>1 DEF TypeOK, Labels, LockMu, UnlockMu
<1>3. LOwner' /\ Entries' /\ Injective' /\ NoIdleEntry'
  BY DEF LOwner, Entries, Injective, NoIdleEntry, InL, Counted, TypeOK, LockMu, UnlockMu
<1>4. Pointers'
  BY DEF Pointers, InL, TypeOK, LockMu, UnlockMu
<1>5. \A i : Users(i)' = Users(i)
  BY DEF Users, TypeOK, LockMu, UnlockMu
<1>6. RefCount'
  BY <1>5 DEF RefCount, LockMu, UnlockMu
<1>7. \A u \in Inside : mu[s[arg[u]]] = u /\ s[arg[u]] \in Infos /\ u \in Threads
  BY DEF Owner, Inside, Entries, Counted, TypeOK
<1>8. CASE LockMu(t)
  <2>1. Inside' = Inside \cup {t}
    BY <1>8 DEF Inside, LockMu, TypeOK
  <2>2. mu[li[t]] = NoThread /\ mu' = [mu EXCEPT ![li[t]] = t] /\ UNCHANGED <<s, arg>>
    BY <1>8 DEF LockMu
  <2>3. \A u \in Inside : s[arg[u]] # li[t]
    BY <1>7, <2>2
  <2> QED
    BY <1>1, <1>2, <1>3, <1>4, <1>6, <1>7, <2>1, <2>2, <2>3 DEF Owner, TypeOK
<1>9. CASE UnlockMu(t)
  <2>1. t \in Inside /\ Inside' = Inside \ {t}
    BY <1>9 DEF Inside, UnlockMu, TypeOK
  <2>2. mu' = [mu EXCEPT ![li[t]] = NoThread] /\ UNCHANGED <<s, arg>>
    BY <1>9 DEF UnlockMu
  <2>3. \A u \in Inside : u # t => s[arg[u]] # li[t]
    BY <1>1, <1>7, <2>1
  <2> QED
    BY <1>1, <1>2, <1>3, <1>4, <1>6, <1>7, <2>1, <2>2, <2>3 DEF Owner, TypeOK
<1> QED
  BY <1>8, <1>9

\* li.refs-- removes its caller from the ones counted; the entry goes only when
\* no caller is left that waits for the mutex or holds it.
LEMMA UnlockRefPreserves ==
  ASSUME IInv, NEW t \in Threads, UnlockRef(t)
  PROVE  IInv'
<1> USE DEF IInv
<1>1. /\ pc[t] = "unlock_ref" /\ l' = NoThread /\ UNCHANGED <<mu, arg>>
      /\ refs' = [refs EXCEPT ![li[t]] = @ - 1]
      /\ s' = IF refs[li[t]] = 1 THEN [s EXCEPT ![arg[t]] = NoInfo] ELSE s
      /\ li' = [li EXCEPT ![t] = NoInfo]
      /\ pc' = [pc EXCEPT ![t] = "idle"]
  BY DEF UnlockRef, LastUser
<1>2. arg[t] \in Ids /\ li[t] \in Infos /\ s[arg[t]] = li[t] /\ li[t] # NoInfo
  BY <1>1 DEF TypeOK, Pointers, InL
<1>3. t \in Users(arg[t]) /\ Users(arg[t])' = Users(arg[t]) \ {t}
  BY <1>1 DEF Users, TypeOK
<1>4. \A i \in Ids : i # arg[t] => Users(i)' = Users(i)
  BY <1>1 DEF Users, TypeOK
<1>5. refs[li[t]] = Cardinality(Users(arg[t])) /\ refs[li[t]] \in Nat
  BY <1>2 DEF RefCount, TypeOK
<1>6. Cardinality(Users(arg[t])') = refs[li[t]] - 1
      /\ Cardinality(Users(arg[t])') \in Nat
  BY <1>3, <1>5, UsersFinite, FS_RemoveElement, FS_CardinalityType
<1>7. refs[li[t]] = 1 <=> Users(arg[t])' = {}
  BY <1>3, <1>5, <1>6, UsersFinite, FS_RemoveElement, FS_EmptySet
<1>8. \A u \in Threads : pc[u] \in Counted /\ u # t /\ arg[u] = arg[t] => refs[li[t]] # 1
  BY <1>1, <1>3, <1>7 DEF Users, Counted
<1>9. \A u \in Threads : pc[u] = "lock_ref" => u = t
  BY <1>1 DEF LOwner, InL
<1>10. TypeOK'
  BY <1>1, <1>2, <1>5, <1>6 DEF TypeOK, Labels
<1>11. LOwner'
  BY <1>1 DEF LOwner, InL, TypeOK
<1>12. \A u \in Threads : u # t => pc'[u] = pc[u] /\ li'[u] = li[u]
  BY <1>1 DEF TypeOK
<1>13. pc'[t] = "idle" /\ li'[t] = NoInfo
  BY <1>1 DEF TypeOK
<1>14. \A u \in Threads : u # t /\ pc[u] \in Counted => s'[arg[u]] = s[arg[u]]
  BY <1>1, <1>8 DEF TypeOK
<1>15. Pointers'
  BY <1>1, <1>9, <1>12, <1>13, <1>14 DEF Pointers, InL, Counted, LOwner
<1>16. Entries'
  BY <1>1, <1>12, <1>13, <1>14 DEF Entries, Counted
<1>17. \A i \in Ids : s'[i] # NoInfo => s'[i] = s[i]
  BY <1>1 DEF TypeOK
<1>18. Injective'
  BY <1>17 DEF Injective
<1>19. Owner'
  <2> SUFFICES ASSUME NEW u \in Inside' PROVE mu[s'[arg[u]]] = u
    BY <1>1 DEF Owner
  <2>1. u \in Threads /\ u # t /\ pc[u] \in Counted /\ u \in Inside
    BY <1>1, <1>12, <1>13 DEF Inside, Counted
  <2> QED
    BY <1>14, <2>1 DEF Owner
<1>20. RefCount'
  <2> SUFFICES ASSUME NEW i \in Ids, s'[i] # NoInfo
               PROVE  refs'[s'[i]] = Cardinality(Users(i)')
    BY DEF RefCount
  <2>1. s'[i] = s[i] /\ s[i] \in Infos
    BY <1>17 DEF TypeOK
  <2>2. CASE i = arg[t]
    BY <1>1, <1>2, <1>6, <2>1, <2>2 DEF TypeOK
  <2>3. CASE i # arg[t]
    <3>1. s[i] # li[t]
      BY <1>2, <2>1, <2>3 DEF Injective
    <3>2. refs'[s[i]] = refs[s[i]]
      BY <1>1, <2>1, <3>1 DEF TypeOK
    <3> QED
      BY <1>4, <2>1, <2>3, <3>2 DEF RefCount
  <2> QED
    BY <2>2, <2>3
<1>21. NoIdleEntry'
  <2> SUFFICES ASSUME NEW i \in Ids, s'[i] # NoInfo
               PROVE  \E u \in Threads : pc'[u] \in Counted \cup {"lock_ref"} /\ arg[u] = i
    BY <1>1 DEF NoIdleEntry
  <2>1. CASE i = arg[t]
    <3>1. Users(i)' # {}
      BY <1>1, <1>2, <1>7, <2>1 DEF TypeOK
    <3> QED
      BY <1>1, <3>1 DEF Users, Counted
  <2>2. CASE i # arg[t]
    <3>1. PICK u \in Threads : pc[u] \in Counted \cup {"lock_ref"} /\ arg[u] = i
      BY <1>17 DEF NoIdleEntry
    <3> QED
      BY <1>12, <2>2, <3>1
  <2> QED
    BY <2>1, <2>2
<1> QED
  BY <1>10, <1>11, <1>15, <1>16, <1>18, <1>19, <1>20, <1>21

\* The inductive invariant is one.
LEMMA NextIInv == IInv /\ [Next]_vars => IInv'
<1> SUFFICES ASSUME IInv, [Next]_vars PROVE IInv'
  OBVIOUS
<1>1. CASE UNCHANGED vars
  BY <1>1 DEF IInv, vars, TypeOK, LOwner, Pointers, Entries, Injective, Owner, RefCount,
              NoIdleEntry, Inside, Users
<1>2. ASSUME NEW t \in Threads, (\E id \in Ids : LockCall(t, id)) \/ UnlockCall(t)
      PROVE  IInv'
  BY <1>2, CallPreserves
<1>3. ASSUME NEW t \in Threads, LockL(t) \/ UnlockL(t)
      PROVE  IInv'
  BY <1>3, LockInfoPreserves
<1>4. ASSUME NEW t \in Threads, LockRef(t)
      PROVE  IInv'
  BY <1>4, LockRefPreserves
<1>5. ASSUME NEW t \in Threads, LockMu(t) \/ UnlockMu(t)
      PROVE  IInv'
  BY <1>5, MuPreserves
<1>6. ASSUME NEW t \in Threads, UnlockRef(t)
      PROVE  IInv'
  BY <1>6, UnlockRefPreserves
<1> QED
  BY <1>1, <1>2, <1>3, <1>4, <1>5, <1>6 DEF Next, Step

\* Every reachable state satisfies the inductive invariant.
LEMMA Inductive == Spec => []IInv
<1> QED
  BY InitIInv, NextIInv, PTL DEF Spec

-----------------------------------------------------------------------------
\* What the locker keeps, and every caller's local state, has its type.
THEOREM TypeCorrect == Spec => []TypeOK
<1>1. IInv => TypeOK
  BY DEF IInv
<1> QED
  BY <1>1, Inductive, PTL

\* Two callers between Lock(id) and Unlock(id) with the same id are the same
\* caller, however many callers and ids there are.
THEOREM MutexHolds == Spec => []MutualExclusion
<1>1. IInv => MutualExclusion
  BY DEF IInv, MutualExclusion, Owner, Inside
<1> QED
  BY <1>1, Inductive, PTL

\* No caller is left with a lockInfo that the map has forgotten.
THEOREM PointersFresh == Spec => []NoStalePointer
<1>1. IInv => NoStalePointer
  BY DEF IInv, NoStalePointer, Pointers
<1> QED
  BY <1>1, Inductive, PTL

\* Between two critical sections of p.l the map has an entry for exactly the ids
\* somebody waits for or holds, with their number in refs: nothing leaks.
THEOREM RefsExact == Spec => []RefsCountUsers
<1>1. IInv => RefsCountUsers
  <2> SUFFICES ASSUME IInv, l = NoThread, NEW id \in Ids
               PROVE  /\ s[id] = NoInfo <=> Users(id) = {}
                      /\ s[id] # NoInfo => refs[s[id]] = Cardinality(Users(id))
    BY DEF RefsCountUsers
  <2>1. \A t \in Threads : pc[t] \notin InL
    BY DEF IInv, LOwner
  <2>2. s[id] # NoInfo => Users(id) # {}
    BY <2>1 DEF IInv, NoIdleEntry, Users, Counted, InL
  <2>3. s[id] = NoInfo => Users(id) = {}
    BY DEF IInv, Entries, Users, Counted
  <2> QED
    BY <2>2, <2>3 DEF IInv, RefCount
<1> QED
  BY <1>1, Inductive, PTL

\* Unlock finds the mutex its caller locked, so it is never a fatal error.
THEOREM UnlockSafe == Spec => []UnlockFindsOwnLock
<1>1. IInv => UnlockFindsOwnLock
  BY DEF IInv, UnlockFindsOwnLock, Owner, Inside, Pointers, InL
<1> QED
  BY <1>1, Inductive, PTL

-----------------------------------------------------------------------------
\* A step of the locker is a step of one mutex per id, or none.
LEMMA StepRefines == IInv /\ [Next]_vars => [Abstract!Next]_(Abstract!vars)
<1> SUFFICES ASSUME IInv, [Next]_vars PROVE [Abstract!Next]_(Abstract!vars)
  OBVIOUS
<1> USE DEF Abstract!vars, Phase
<1>1. CASE UNCHANGED vars
  BY <1>1 DEF vars
<1>2. ASSUME NEW t \in Threads, NEW id \in Ids, LockCall(t, id)
      PROVE  Abstract!Request(t, id)
  BY <1>2 DEF LockCall, Abstract!Request, IInv, TypeOK
<1>3. ASSUME NEW t \in Threads, LockMu(t)
      PROVE  Abstract!Grant(t)
  <2>1. pc[t] = "lock_mu" /\ mu[li[t]] = NoThread /\ s[arg[t]] = li[t]
    BY <1>3 DEF LockMu, IInv, Pointers, InL
  <2>2. \A u \in Threads : u \in Inside => arg[u] # arg[t]
    BY <2>1 DEF IInv, Owner
  <2> QED
    BY <1>3, <2>1, <2>2 DEF LockMu, Abstract!Grant, Inside, IInv, TypeOK
<1>4. ASSUME NEW t \in Threads, UnlockMu(t)
      PROVE  Abstract!Release(t)
  BY <1>4 DEF UnlockMu, Abstract!Release, IInv, TypeOK
<1>5. ASSUME NEW t \in Threads,
             LockL(t) \/ LockRef(t) \/ UnlockCall(t) \/ UnlockL(t) \/ UnlockRef(t)
      PROVE  UNCHANGED Abstract!vars
  BY <1>5 DEF LockL, LockRef, UnlockCall, UnlockL, UnlockRef, IInv, TypeOK
<1> QED
  BY <1>1, <1>2, <1>3, <1>4, <1>5 DEF Next, Step, Abstract!Next

\* The partition locker implements one mutual-exclusion lock per id.
THEOREM Refines == Spec => ImplementsKeyedMutex
<1>1. Init => Abstract!Init
  BY DEF Init, Abstract!Init, Phase
<1> QED
  BY <1>1, StepRefines, Inductive, PTL DEF Spec, ImplementsKeyedMutex, Abstract!Spec

\* What a lock per id promises, whoever asks and in whatever order locks are granted
\* and given back: an id has at most one holder.
LEMMA AbstractExcludes == Abstract!Spec => [](Abstract!TypeOK /\ Abstract!Exclusion)
<1> DEFINE AInv == Abstract!TypeOK /\ Abstract!Exclusion
<1> USE DEF Abstract!TypeOK, Abstract!Exclusion
<1>1. Abstract!Init => AInv
  BY DEF Abstract!Init
<1>2. AInv /\ [Abstract!Next]_(Abstract!vars) => AInv'
  <2> SUFFICES ASSUME AInv, [Abstract!Next]_(Abstract!vars) PROVE AInv'
    OBVIOUS
  <2>1. CASE UNCHANGED Abstract!vars
    BY <2>1 DEF Abstract!vars
  <2>2. ASSUME NEW t \in Threads, NEW id \in Ids, Abstract!Request(t, id) PROVE AInv'
    <3>1. Phase(t)' = "waiting" /\ \A u \in Threads \ {t} : Phase(u)' = Phase(u) /\ arg'[u] = arg[u]
      BY <2>2 DEF Abstract!Request
    <3>2. arg' \in [Threads -> Ids]
      BY <2>2 DEF Abstract!Request
    <3>3. \A u \in Threads : Phase(u)' \in {"out", "waiting", "in"}
      BY <3>1
    <3>4. ASSUME NEW u \in Threads, NEW v \in Threads, Phase(u)' = "in", Phase(v)' = "in",
                 arg'[u] = arg'[v]
          PROVE  u = v
      BY <3>1, <3>4
    <3>5. Abstract!TypeOK'
      BY <3>2, <3>3
    <3>6. Abstract!Exclusion'
      BY <3>4
    <3> QED
      BY <3>5, <3>6
  <2>3. ASSUME NEW t \in Threads, Abstract!Grant(t) PROVE AInv'
    <3>1. Phase(t)' = "in" /\ \A u \in Threads \ {t} : Phase(u)' = Phase(u)
      BY <2>3 DEF Abstract!Grant
    <3>2. arg' = arg /\ \A u \in Threads : Phase(u) = "in" => arg[u] # arg[t]
      BY <2>3 DEF Abstract!Grant
    <3>3. Abstract!TypeOK'
      BY <3>1, <3>2
    <3>4. Abstract!Exclusion'
      BY <3>1, <3>2
    <3> QED
      BY <3>3, <3>4
  <2>4. ASSUME NEW t \in Threads, Abstract!Release(t) PROVE AInv'
    BY <2>4 DEF Abstract!Release
  <2> QED
    BY <2>1, <2>2, <2>3, <2>4 DEF Abstract!Next
<1> QED
  BY <1>1, <1>2, PTL DEF Abstract!Spec

\* The locker has what it implements: in every reachable state of the code an id has
\* at most one caller inside.
THEOREM Excludes == Spec => []Abstract!Exclusion
<1> QED
  BY AbstractExcludes, Refines, PTL DEF ImplementsKeyedMutex

-----------------------------------------------------------------------------
(* The locker with readers and writers. *)

\* The labels at which a caller owns p.l.
RWInL == {"lock_ref", "unlock_mu", "unlock_ref"}

\* The labels at which a caller is counted by refs.
RWCounted == {"lock_mu", "announced", "holding", "unlock_l", "unlock_mu", "unlock_ref"}

\* p.l is owned by the one caller that is in a section it protects.
RWLOwner == \A t \in Threads : pcRW[t] \in RWInL <=> lRW = t

\* A caller has a pointer exactly while it uses one, and it is the map's.
RWPointers == \A t \in Threads :
              /\ liRW[t] # NoInfo <=> pcRW[t] \in RWInL \cup {"lock_mu", "announced"}
              /\ liRW[t] # NoInfo => sRW[argRW[t]] = liRW[t]

\* The entry of a caller that is counted is there.
RWEntries == \A t \in Threads : pcRW[t] \in RWCounted => sRW[argRW[t]] # NoInfo

\* Two ids never share a lockInfo.
RWInjective == \A i, j \in Ids : sRW[i] = sRW[j] /\ sRW[i] # NoInfo => i = j

\* Who has announced itself is a writer.
RWAnnounced == \A t \in Threads : pcRW[t] = "announced" => mode[t] = "write"

\* A writer that has announced itself or is inside owns the mutex of the map's entry.
RWWriters == \A t \in Threads :
             (t \in RW!Inside /\ mode[t] = "write") \/ pcRW[t] = "announced" => writer[sRW[argRW[t]]] = t

\* A reader that is inside is one of the readers of the map's entry.
RWReaders == \A t \in RW!Inside : mode[t] = "read" => t \in readers[sRW[argRW[t]]]

\* Where a writer is inside there are no readers.
RWAlone == \A t \in RW!Inside : mode[t] = "write" => readers[sRW[argRW[t]]] = {}

\* refs is exact in every state, also while p.l is held.
RWRefCount == \A id \in Ids : sRW[id] # NoInfo => refsRW[sRW[id]] = Cardinality(RW!Users(id))

\* An entry without a counted caller is one that Lock or RLock has just created.
RWNoIdleEntry == \A id \in Ids : sRW[id] # NoInfo =>
                 \E t \in Threads : pcRW[t] \in RWCounted \cup {"lock_ref"} /\ argRW[t] = id

\* The locks themselves.
RWHeld == RWAnnounced /\ RWWriters /\ RWReaders /\ RWAlone

RWIInv == /\ RW!TypeOK /\ RWLOwner /\ RWPointers /\ RWEntries
        /\ RWInjective /\ RWHeld /\ RWRefCount /\ RWNoIdleEntry

-----------------------------------------------------------------------------
\* The module counts with the same operator.
LEMMA RWCardinality == \A S : RW!Cardinality(S) = Cardinality(S)
BY DEF RW!Cardinality, Cardinality

\* The callers of an id are finitely many.
LEMMA RWUsersFinite ==
  ASSUME NEW id
  PROVE  IsFiniteSet(RW!Users(id)) /\ Cardinality(RW!Users(id)) \in Nat
<1>1. RW!Users(id) \in SUBSET Threads
  BY DEF RW!Users
<1>2. IsFiniteSet(RW!Users(id))
  BY <1>1, FS_Subset, ConstantsAssumption
<1> QED
  BY <1>2, FS_CardinalityType

\* Users, by the labels at which a caller is counted.
LEMMA RWUsersCounted ==
  ASSUME RW!TypeOK, NEW id
  PROVE  RW!Users(id) = {t \in Threads : argRW[t] = id /\ pcRW[t] \in RWCounted}
  BY DEF RW!Users, RWCounted, RW!TypeOK, RW!Labels

\* The inductive invariant holds when the locker is created.
LEMMA RWInitIInv == ASSUME RW!Init PROVE RWIInv
<1> USE ConstantsAssumption
<1>1. RW!TypeOK
  BY DEF RW!Init, RW!TypeOK, RW!Labels, RW!Modes
<1>2. RWLOwner /\ RWPointers /\ RWEntries /\ RWInjective /\ RWRefCount /\ RWNoIdleEntry
  BY <1>1 DEF RW!Init, RW!TypeOK, RWLOwner, RWPointers, RWEntries, RWInjective, RWRefCount,
              RWNoIdleEntry, RWInL, RWCounted
<1>3. RWHeld
  BY DEF RW!Init, RWHeld, RWAnnounced, RWWriters, RWReaders, RWAlone, RW!Inside
<1> QED
  BY <1>1, <1>2, <1>3 DEF RWIInv

\* lockInfo returns the map's entry and leaves the other entries, and what the
\* callers of the other ids rely on, alone.
LEMMA RWLockInfoStep ==
  ASSUME RW!TypeOK, RWPointers, RWInjective, NEW t \in Threads, RW!LockInfo(t)
  PROVE  /\ sRW' \in [Ids -> Infos \cup {NoInfo}]
         /\ writer' \in [Infos -> Threads \cup {NoThread}] /\ readers' \in [Infos -> SUBSET Threads]
         /\ refsRW' \in [Infos -> Nat]
         /\ sRW'[argRW[t]] \in Infos
         /\ liRW' = [liRW EXCEPT ![t] = sRW'[argRW[t]]]
         /\ \A i \in Ids : sRW[i] # NoInfo =>
              sRW'[i] = sRW[i] /\ writer'[sRW[i]] = writer[sRW[i]]
              /\ readers'[sRW[i]] = readers[sRW[i]] /\ refsRW'[sRW[i]] = refsRW[sRW[i]]
         /\ \A i \in Ids : i # argRW[t] => sRW'[i] = sRW[i]
         /\ sRW[argRW[t]] = NoInfo => refsRW'[sRW'[argRW[t]]] = 0
         /\ \A i, j \in Ids : sRW'[i] = sRW'[j] /\ sRW'[i] # NoInfo => i = j
<1> USE ConstantsAssumption
<1>0. argRW[t] \in Ids
  BY DEF RW!TypeOK
<1>1. CASE sRW[argRW[t]] # NoInfo /\ liRW' = [liRW EXCEPT ![t] = sRW[argRW[t]]] /\ UNCHANGED <<sRW, writer, readers, refsRW>>
  BY <1>0, <1>1 DEF RW!TypeOK, RWInjective
<1>2. CASE /\ sRW[argRW[t]] = NoInfo
           /\ \E o \in Infos : /\ RW!Unreachable(o)
                               /\ sRW' = [sRW EXCEPT ![argRW[t]] = o]
                               /\ writer' = [writer EXCEPT ![o] = NoThread]
                               /\ readers' = [readers EXCEPT ![o] = {}]
                               /\ refsRW' = [refsRW EXCEPT ![o] = 0]
                               /\ liRW' = [liRW EXCEPT ![t] = o]
  <2>1. PICK o \in Infos : /\ RW!Unreachable(o)
                           /\ sRW' = [sRW EXCEPT ![argRW[t]] = o]
                           /\ writer' = [writer EXCEPT ![o] = NoThread]
                           /\ readers' = [readers EXCEPT ![o] = {}]
                           /\ refsRW' = [refsRW EXCEPT ![o] = 0]
                           /\ liRW' = [liRW EXCEPT ![t] = o]
    BY <1>2
  <2>2. \A i \in Ids : sRW[i] # o
    BY <2>1 DEF RW!Unreachable
  <2>3. sRW'[argRW[t]] = o /\ \A i \in Ids : i # argRW[t] => sRW'[i] = sRW[i]
    BY <1>0, <2>1 DEF RW!TypeOK
  <2>4. \A i \in Ids : sRW[i] # NoInfo => i # argRW[t] /\ sRW[i] \in Infos
    BY <1>2 DEF RW!TypeOK
  <2>5. \A i \in Ids : sRW[i] # NoInfo => writer'[sRW[i]] = writer[sRW[i]]
              /\ readers'[sRW[i]] = readers[sRW[i]] /\ refsRW'[sRW[i]] = refsRW[sRW[i]]
    BY <2>1, <2>2, <2>4 DEF RW!TypeOK
  <2>6. \A i, j \in Ids : sRW'[i] = sRW'[j] /\ sRW'[i] # NoInfo => i = j
    BY <2>2, <2>3 DEF RWInjective
  <2>7. refsRW'[o] = 0
    BY <2>1 DEF RW!TypeOK
  <2>8. /\ sRW' \in [Ids -> Infos \cup {NoInfo}]
        /\ writer' \in [Infos -> Threads \cup {NoThread}] /\ readers' \in [Infos -> SUBSET Threads]
        /\ refsRW' \in [Infos -> Nat]
    BY <2>1 DEF RW!TypeOK
  <2> QED
    BY <2>1, <2>3, <2>4, <2>5, <2>6, <2>7, <2>8
<1> QED
  BY <1>1, <1>2 DEF RW!LockInfo

\* A step that looks an entry up preserves the inductive invariant.
LEMMA RWLockInfoPreserves ==
  ASSUME RWIInv, NEW t \in Threads, RW!LockL(t) \/ RW!UnlockL(t)
  PROVE  RWIInv'
<1> USE DEF RWIInv
<1>1. /\ pcRW[t] \in {"lock_l", "unlock_l"} /\ lRW = NoThread /\ lRW' = t /\ UNCHANGED <<argRW, mode>>
      /\ \/ pcRW[t] = "lock_l" /\ pcRW' = [pcRW EXCEPT ![t] = "lock_ref"]
         \/ pcRW[t] = "unlock_l" /\ pcRW' = [pcRW EXCEPT ![t] = "unlock_mu"]
      /\ RW!LockInfo(t)
  BY DEF RW!LockL, RW!UnlockL, RW!TakeL, RW!Goto
<1>2. pcRW' \in [Threads -> RW!Labels] /\ pcRW'[t] \in {"lock_ref", "unlock_mu"}
      /\ \A u \in Threads : u # t => pcRW'[u] = pcRW[u]
  BY <1>1 DEF RW!TypeOK, RW!Labels
<1>3. /\ sRW' \in [Ids -> Infos \cup {NoInfo}]
      /\ writer' \in [Infos -> Threads \cup {NoThread}] /\ readers' \in [Infos -> SUBSET Threads]
      /\ refsRW' \in [Infos -> Nat]
      /\ sRW'[argRW[t]] \in Infos
      /\ liRW' = [liRW EXCEPT ![t] = sRW'[argRW[t]]]
      /\ \A i \in Ids : sRW[i] # NoInfo =>
           sRW'[i] = sRW[i] /\ writer'[sRW[i]] = writer[sRW[i]]
           /\ readers'[sRW[i]] = readers[sRW[i]] /\ refsRW'[sRW[i]] = refsRW[sRW[i]]
      /\ \A i \in Ids : i # argRW[t] => sRW'[i] = sRW[i]
      /\ sRW[argRW[t]] = NoInfo => refsRW'[sRW'[argRW[t]]] = 0
      /\ \A i, j \in Ids : sRW'[i] = sRW'[j] /\ sRW'[i] # NoInfo => i = j
  BY <1>1, RWLockInfoStep
<1>4. /\ argRW[t] \in Ids
      /\ liRW'[t] = sRW'[argRW[t]]
      /\ \A u \in Threads : u # t => liRW'[u] = liRW[u]
      /\ liRW' \in [Threads -> Infos \cup {NoInfo}]
  BY <1>3 DEF RW!TypeOK
<1>5. RW!TypeOK'
  BY <1>1, <1>2, <1>3, <1>4, ConstantsAssumption DEF RW!TypeOK
<1>6. RWLOwner'
  BY <1>1, <1>2, ConstantsAssumption DEF RWLOwner, RWInL, RW!TypeOK
<1>7. \A u \in Threads : u # t /\ liRW[u] # NoInfo => sRW'[argRW[u]] = sRW[argRW[u]]
  BY <1>3 DEF RWPointers, RW!TypeOK
<1>8. RWPointers'
  BY <1>1, <1>2, <1>3, <1>4, <1>7, ConstantsAssumption DEF RWPointers, RWInL
<1>9. RWEntries'
  BY <1>1, <1>2, <1>3, <1>4, ConstantsAssumption DEF RWEntries, RWCounted, RW!TypeOK
<1>10. RWInjective'
  BY <1>3 DEF RWInjective
<1>11. RW!Inside' = RW!Inside /\ \A u \in Threads : pcRW'[u] = "announced" <=> pcRW[u] = "announced"
  BY <1>1, <1>2 DEF RW!Inside, RW!TypeOK
<1>12. RWHeld'
  <2>1. \A u \in Threads : u \in RW!Inside \/ pcRW[u] = "announced" =>
          /\ sRW'[argRW[u]] = sRW[argRW[u]]
          /\ writer'[sRW[argRW[u]]] = writer[sRW[argRW[u]]] /\ readers'[sRW[argRW[u]]] = readers[sRW[argRW[u]]]
    BY <1>3 DEF RWEntries, RWCounted, RW!Inside, RW!TypeOK
  <2>2. RW!Inside \subseteq Threads
    BY DEF RW!Inside
  <2> QED
    BY <1>1, <1>11, <2>1, <2>2 DEF RWHeld, RWAnnounced, RWWriters, RWReaders, RWAlone
<1>13. \A id \in Ids : RW!Users(id)' = RW!Users(id)
  BY <1>1, <1>2 DEF RW!Users, RW!TypeOK
<1>14. RWRefCount'
  <2> SUFFICES ASSUME NEW id \in Ids, sRW'[id] # NoInfo
               PROVE  refsRW'[sRW'[id]] = Cardinality(RW!Users(id))
    BY <1>13 DEF RWRefCount
  <2>1. CASE sRW[id] # NoInfo
    BY <2>1, <1>3 DEF RWRefCount
  <2>2. CASE sRW[id] = NoInfo
    <3>1. id = argRW[t] /\ refsRW'[sRW'[id]] = 0
      BY <2>2, <1>3
    <3>2. RW!Users(id) = {}
      BY <2>2, RWUsersCounted DEF RWEntries
    <3> QED
      BY <3>1, <3>2, FS_EmptySet
  <2> QED
    BY <2>1, <2>2
<1>15. RWNoIdleEntry'
  <2> SUFFICES ASSUME NEW id \in Ids, sRW'[id] # NoInfo
               PROVE  \E u \in Threads : pcRW'[u] \in RWCounted \cup {"lock_ref"} /\ argRW[u] = id
    BY <1>1 DEF RWNoIdleEntry
  <2>1. CASE id = argRW[t]
    BY <2>1, <1>2 DEF RWCounted
  <2>2. CASE id # argRW[t]
    BY <2>2, <1>1, <1>2, <1>3 DEF RWNoIdleEntry, RWCounted
  <2> QED
    BY <2>1, <2>2
<1> QED
  BY <1>5, <1>6, <1>8, <1>9, <1>10, <1>12, <1>14, <1>15

\* A call only moves its caller, which is not inside yet or stays inside.
LEMMA RWCallPreserves ==
  ASSUME RWIInv, NEW t \in Threads,
         (\E id \in Ids, m \in RW!Modes : RW!Call(t, id, m)) \/ RW!UnlockCall(t)
  PROVE  RWIInv'
<1> USE DEF RWIInv
<1>1. CASE RW!UnlockCall(t)
  <2> USE <1>1 DEF RW!UnlockCall, RW!Goto
  <2>1. RW!TypeOK' /\ RWLOwner' /\ RWPointers' /\ RWEntries' /\ RWInjective'
    BY DEF RW!TypeOK, RWLOwner, RWPointers, RWEntries, RWInjective, RW!Labels, RWInL, RWCounted
  <2>2. RW!Inside' = RW!Inside /\ (\A id : RW!Users(id)' = RW!Users(id))
        /\ \A u \in Threads : pcRW'[u] = "announced" <=> pcRW[u] = "announced"
    BY DEF RW!Inside, RW!Users, RW!TypeOK
  <2>3. RWRefCount' /\ RWNoIdleEntry'
    BY <2>2 DEF RWRefCount, RWNoIdleEntry, RWCounted, RW!TypeOK
  <2>4. RWHeld'
    BY <2>2 DEF RWHeld, RWAnnounced, RWWriters, RWReaders, RWAlone
  <2> QED
    BY <2>1, <2>3, <2>4
<1>2. ASSUME NEW id \in Ids, NEW m \in RW!Modes, RW!Call(t, id, m)
      PROVE  RWIInv'
  <2> USE <1>2 DEF RW!Call, RW!Goto
  <2>1. RW!TypeOK' /\ RWLOwner' /\ RWPointers' /\ RWEntries' /\ RWInjective'
    BY DEF RW!TypeOK, RWLOwner, RWPointers, RWEntries, RWInjective, RW!Labels, RWInL, RWCounted
  <2>2. RW!Inside' = RW!Inside /\ (\A i : RW!Users(i)' = RW!Users(i))
        /\ \A u \in Threads : pcRW'[u] = "announced" <=> pcRW[u] = "announced"
    BY DEF RW!Inside, RW!Users, RW!TypeOK
  <2>3. t \notin RW!Inside /\ pcRW[t] # "announced"
        /\ \A u \in Threads : u # t => argRW'[u] = argRW[u] /\ mode'[u] = mode[u] /\ pcRW'[u] = pcRW[u]
    BY DEF RW!Inside, RW!TypeOK
  <2>4. RWRefCount'
    BY <2>2 DEF RWRefCount
  <2>5. RWHeld'
    BY <2>2, <2>3 DEF RWHeld, RWAnnounced, RWWriters, RWReaders, RWAlone, RW!Inside
  <2>6. RWNoIdleEntry'
    BY <2>3 DEF RWNoIdleEntry, RWCounted
  <2> QED
    BY <2>1, <2>4, <2>5, <2>6
<1> QED
  BY <1>1, <1>2

\* li.refs++ adds its caller to the ones counted.
LEMMA RWLockRefPreserves ==
  ASSUME RWIInv, NEW t \in Threads, RW!LockRef(t)
  PROVE  RWIInv'
<1> USE DEF RWIInv, RW!LockRef, RW!Goto
<1>1. argRW[t] \in Ids /\ liRW[t] \in Infos /\ sRW[argRW[t]] = liRW[t]
  BY DEF RW!TypeOK, RWPointers, RWInL
<1>2. RW!TypeOK'
  BY <1>1 DEF RW!TypeOK, RW!Labels
<1>3. RWLOwner' /\ RWPointers' /\ RWInjective'
  BY ConstantsAssumption DEF RWLOwner, RWPointers, RWInjective, RWInL, RW!TypeOK
<1>4. RWEntries'
  BY <1>1, ConstantsAssumption DEF RWEntries, RWCounted, RW!TypeOK
<1>5. RW!Inside' = RW!Inside /\ \A u \in Threads : pcRW'[u] = "announced" <=> pcRW[u] = "announced"
  BY DEF RW!Inside, RW!TypeOK
<1>6. RWHeld'
  BY <1>5 DEF RWHeld, RWAnnounced, RWWriters, RWReaders, RWAlone
<1>7. t \notin RW!Users(argRW[t]) /\ RW!Users(argRW[t])' = RW!Users(argRW[t]) \cup {t}
  BY DEF RW!Users, RW!TypeOK
<1>8. \A i \in Ids : i # argRW[t] => RW!Users(i)' = RW!Users(i)
  BY DEF RW!Users, RW!TypeOK
<1>9. RWRefCount'
  <2> SUFFICES ASSUME NEW i \in Ids, sRW[i] # NoInfo
               PROVE  refsRW'[sRW[i]] = Cardinality(RW!Users(i)')
    BY DEF RWRefCount
  <2>1. sRW[i] \in Infos /\ refsRW[sRW[i]] = Cardinality(RW!Users(i))
    BY DEF RWRefCount, RW!TypeOK
  <2>2. CASE i = argRW[t]
    <3>1. Cardinality(RW!Users(i)') = Cardinality(RW!Users(i)) + 1
      BY <1>7, <2>2, RWUsersFinite, FS_AddElement
    <3>2. refsRW'[sRW[i]] = refsRW[sRW[i]] + 1
      BY <1>1, <2>2 DEF RW!TypeOK
    <3> QED
      BY <2>1, <3>1, <3>2
  <2>3. CASE i # argRW[t]
    <3>1. sRW[i] # liRW[t]
      BY <1>1, <2>3 DEF RWInjective
    <3>2. refsRW'[sRW[i]] = refsRW[sRW[i]]
      BY <2>1, <3>1 DEF RW!TypeOK
    <3> QED
      BY <1>8, <2>1, <2>3, <3>2
  <2> QED
    BY <2>2, <2>3
<1>10. RWNoIdleEntry'
  BY DEF RWNoIdleEntry, RWCounted, RW!TypeOK
<1> QED
  BY <1>2, <1>3, <1>4, <1>6, <1>9, <1>10

\* A step that takes or leaves the partition lock disturbs nothing but the locks.
LEMMA RWMuKeepsRecords ==
  ASSUME RWIInv, NEW t \in Threads,
         RW!RLockMu(t) \/ RW!Announce(t) \/ RW!LockMu(t) \/ RW!UnlockMu(t)
  PROVE  /\ RW!TypeOK' /\ RWLOwner' /\ RWPointers' /\ RWEntries' /\ RWInjective' /\ RWRefCount' /\ RWNoIdleEntry'
         /\ argRW[t] \in Ids /\ liRW[t] \in Infos /\ sRW[argRW[t]] = liRW[t]
<1> USE DEF RWIInv, RW!RLockMu, RW!Announce, RW!LockMu, RW!UnlockMu, RW!Goto
<1>1. argRW[t] \in Ids /\ liRW[t] \in Infos /\ sRW[argRW[t]] = liRW[t]
  BY DEF RW!TypeOK, RWPointers, RWInL
<1>2. RW!TypeOK'
  BY <1>1 DEF RW!TypeOK, RW!Labels
<1>3. RWLOwner' /\ RWEntries' /\ RWInjective' /\ RWNoIdleEntry'
  BY DEF RWLOwner, RWEntries, RWInjective, RWNoIdleEntry, RWInL, RWCounted, RW!TypeOK
<1>4. RWPointers'
  BY DEF RWPointers, RWInL, RW!TypeOK
<1>5. \A i : RW!Users(i)' = RW!Users(i)
  BY DEF RW!Users, RW!TypeOK
<1>6. RWRefCount'
  BY <1>5 DEF RWRefCount
<1> QED
  BY <1>1, <1>2, <1>3, <1>4, <1>6

\* The partition lock is taken and left as a read-write mutex has to be.
LEMMA RWMuPreserves ==
  ASSUME RWIInv, NEW t \in Threads,
         RW!RLockMu(t) \/ RW!Announce(t) \/ RW!LockMu(t) \/ RW!UnlockMu(t)
  PROVE  RWIInv'
<1> USE DEF RWIInv, RWHeld
<1>1. /\ RW!TypeOK' /\ RWLOwner' /\ RWPointers' /\ RWEntries' /\ RWInjective' /\ RWRefCount' /\ RWNoIdleEntry'
      /\ argRW[t] \in Ids /\ liRW[t] \in Infos /\ sRW[argRW[t]] = liRW[t]
  BY RWMuKeepsRecords
<1>2. \A u \in Threads : u \in RW!Inside \/ pcRW[u] = "announced" => sRW[argRW[u]] \in Infos
  BY DEF RW!Inside, RWEntries, RWCounted, RW!TypeOK
<1>3. RW!Inside \subseteq Threads /\ t \in Threads /\ t # NoThread
  BY ConstantsAssumption DEF RW!Inside
<1>4. CASE RW!RLockMu(t)
  <2>1. /\ mode[t] = "read" /\ writer[liRW[t]] = NoThread /\ pcRW[t] = "lock_mu"
        /\ readers' = [readers EXCEPT ![liRW[t]] = @ \cup {t}]
        /\ UNCHANGED <<sRW, writer, argRW, mode>>
    BY <1>4 DEF RW!RLockMu
  <2>2. RW!Inside' = RW!Inside \cup {t} /\ \A u \in Threads : pcRW'[u] = "announced" => pcRW[u] = "announced"
    BY <1>4 DEF RW!RLockMu, RW!Goto, RW!Inside, RW!TypeOK
  <2>3. \A u \in RW!Inside : mode[u] = "write" => sRW[argRW[u]] # liRW[t]
    BY <1>3, <2>1, ConstantsAssumption DEF RWWriters
  <2>4. \A o \in Infos : readers[o] \subseteq readers'[o] /\ t \in readers'[liRW[t]]
                         /\ (o # liRW[t] => readers'[o] = readers[o])
    BY <1>1, <2>1 DEF RW!TypeOK
  <2>5. RWAnnounced' /\ RWWriters'
    BY <1>3, <2>1, <2>2 DEF RWAnnounced, RWWriters
  <2>6. RWReaders'
    BY <1>1, <1>2, <1>3, <2>1, <2>2, <2>4 DEF RWReaders
  <2>7. RWAlone'
    BY <1>2, <1>3, <2>1, <2>2, <2>3, <2>4 DEF RWAlone
  <2> QED
    BY <1>1, <2>5, <2>6, <2>7
<1>5. CASE RW!Announce(t)
  <2>1. /\ mode[t] = "write" /\ writer[liRW[t]] = NoThread /\ pcRW[t] = "lock_mu"
        /\ writer' = [writer EXCEPT ![liRW[t]] = t]
        /\ UNCHANGED <<sRW, readers, argRW, mode>>
    BY <1>5 DEF RW!Announce
  <2>2. RW!Inside' = RW!Inside /\ pcRW'[t] = "announced" /\ t \notin RW!Inside
        /\ \A u \in Threads : u # t => pcRW'[u] = pcRW[u]
    BY <1>5 DEF RW!Announce, RW!Goto, RW!Inside, RW!TypeOK
  <2>3. \A u \in Threads : (u \in RW!Inside /\ mode[u] = "write") \/ pcRW[u] = "announced" => sRW[argRW[u]] # liRW[t]
    BY <2>1, ConstantsAssumption DEF RWWriters
  <2>4. writer'[liRW[t]] = t /\ \A o \in Infos : o # liRW[t] => writer'[o] = writer[o]
    BY <1>1, <2>1 DEF RW!TypeOK
  <2>5. RWAnnounced' /\ RWReaders' /\ RWAlone'
    BY <1>3, <2>1, <2>2 DEF RWAnnounced, RWReaders, RWAlone
  <2>6. RWWriters'
    <3> SUFFICES ASSUME NEW u \in Threads,
                        (u \in RW!Inside /\ mode[u] = "write") \/ pcRW'[u] = "announced"
                 PROVE  writer'[sRW[argRW[u]]] = u
      BY <2>1, <2>2 DEF RWWriters
    <3>1. CASE u = t
      BY <1>1, <2>4, <3>1
    <3>2. CASE u # t
      BY <1>2, <2>2, <2>3, <2>4, <3>2 DEF RWWriters
    <3> QED
      BY <3>1, <3>2
  <2> QED
    BY <1>1, <2>5, <2>6
<1>6. CASE RW!LockMu(t)
  <2>1. pcRW[t] = "announced" /\ readers[liRW[t]] = {} /\ UNCHANGED <<sRW, writer, readers, argRW, mode>>
    BY <1>6 DEF RW!LockMu
  <2>2. RW!Inside' = RW!Inside \cup {t} /\ \A u \in Threads : pcRW'[u] = "announced" => pcRW[u] = "announced"
    BY <1>6 DEF RW!LockMu, RW!Goto, RW!Inside, RW!TypeOK
  <2>3. mode[t] = "write"
    BY <2>1 DEF RWAnnounced
  <2> QED
    BY <1>1, <1>3, <2>1, <2>2, <2>3 DEF RWAnnounced, RWWriters, RWReaders, RWAlone
<1>7. CASE RW!UnlockMu(t)
  <2>1. /\ pcRW[t] = "unlock_mu" /\ UNCHANGED <<sRW, argRW, mode>>
        /\ \/ /\ mode[t] = "write"
              /\ writer' = [writer EXCEPT ![liRW[t]] = NoThread] /\ UNCHANGED readers
           \/ /\ mode[t] = "read"
              /\ readers' = [readers EXCEPT ![liRW[t]] = @ \ {t}] /\ UNCHANGED writer
    BY <1>7 DEF RW!UnlockMu
  <2>2. RW!Inside' = RW!Inside \ {t} /\ t \in RW!Inside
        /\ \A u \in Threads : pcRW'[u] = "announced" => u # t /\ pcRW[u] = "announced"
    BY <1>7 DEF RW!UnlockMu, RW!Goto, RW!Inside, RW!TypeOK
  <2>3. RWAnnounced'
    BY <2>1, <2>2 DEF RWAnnounced
  <2>4. RWWriters'
    <3> SUFFICES ASSUME NEW u \in Threads,
                        (u \in RW!Inside /\ mode[u] = "write") \/ pcRW[u] = "announced", u # t
                 PROVE  writer'[sRW[argRW[u]]] = u
      BY <2>1, <2>2 DEF RWWriters
    <3>1. writer[sRW[argRW[u]]] = u /\ sRW[argRW[u]] \in Infos
      BY <1>2 DEF RWWriters
    <3>2. mode[t] = "write" => sRW[argRW[u]] # liRW[t]
      BY <1>1, <2>2, <3>1 DEF RWWriters
    <3> QED
      BY <1>1, <2>1, <3>1, <3>2 DEF RW!TypeOK
  <2>5. RWReaders'
    <3> SUFFICES ASSUME NEW u \in RW!Inside, u # t, mode[u] = "read"
                 PROVE  u \in readers'[sRW[argRW[u]]]
      BY <2>1, <2>2 DEF RWReaders
    <3>1. u \in readers[sRW[argRW[u]]] /\ sRW[argRW[u]] \in Infos
      BY <1>2, <1>3 DEF RWReaders
    <3> QED
      BY <1>1, <2>1, <3>1 DEF RW!TypeOK
  <2>6. RWAlone'
    <3> SUFFICES ASSUME NEW u \in RW!Inside, u # t, mode[u] = "write"
                 PROVE  readers'[sRW[argRW[u]]] = {}
      BY <2>1, <2>2 DEF RWAlone
    <3>1. readers[sRW[argRW[u]]] = {} /\ sRW[argRW[u]] \in Infos
      BY <1>2, <1>3 DEF RWAlone
    <3> QED
      BY <1>1, <2>1, <3>1 DEF RW!TypeOK
  <2> QED
    BY <1>1, <2>3, <2>4, <2>5, <2>6
<1> QED
  BY <1>4, <1>5, <1>6, <1>7

\* li.refs-- removes its caller from the ones counted; the entry goes only when
\* no caller is left that waits for the lock or holds it.
LEMMA RWUnlockRefPreserves ==
  ASSUME RWIInv, NEW t \in Threads, RW!UnlockRef(t)
  PROVE  RWIInv'
<1> USE DEF RWIInv
<1>1. /\ pcRW[t] = "unlock_ref" /\ lRW' = NoThread /\ UNCHANGED <<writer, readers, argRW, mode>>
      /\ refsRW' = [refsRW EXCEPT ![liRW[t]] = @ - 1]
      /\ sRW' = IF refsRW[liRW[t]] = 1 THEN [sRW EXCEPT ![argRW[t]] = NoInfo] ELSE sRW
      /\ liRW' = [liRW EXCEPT ![t] = NoInfo]
      /\ pcRW' = [pcRW EXCEPT ![t] = "idle"]
  BY DEF RW!UnlockRef, RW!LastUser, RW!Goto
<1>2. argRW[t] \in Ids /\ liRW[t] \in Infos /\ sRW[argRW[t]] = liRW[t] /\ liRW[t] # NoInfo
  BY <1>1 DEF RW!TypeOK, RWPointers, RWInL
<1>3. t \in RW!Users(argRW[t]) /\ RW!Users(argRW[t])' = RW!Users(argRW[t]) \ {t}
  BY <1>1 DEF RW!Users, RW!TypeOK
<1>4. \A i \in Ids : i # argRW[t] => RW!Users(i)' = RW!Users(i)
  BY <1>1 DEF RW!Users, RW!TypeOK
<1>5. refsRW[liRW[t]] = Cardinality(RW!Users(argRW[t])) /\ refsRW[liRW[t]] \in Nat
  BY <1>2 DEF RWRefCount, RW!TypeOK
<1>6. Cardinality(RW!Users(argRW[t])') = refsRW[liRW[t]] - 1
      /\ Cardinality(RW!Users(argRW[t])') \in Nat
  BY <1>3, <1>5, RWUsersFinite, FS_RemoveElement, FS_CardinalityType
<1>7. refsRW[liRW[t]] = 1 <=> RW!Users(argRW[t])' = {}
  BY <1>3, <1>5, <1>6, RWUsersFinite, FS_RemoveElement, FS_EmptySet
<1>8. \A u \in Threads : pcRW[u] \in RWCounted /\ u # t /\ argRW[u] = argRW[t] => refsRW[liRW[t]] # 1
  BY <1>1, <1>3, <1>7, RWUsersCounted
<1>9. \A u \in Threads : pcRW[u] = "lock_ref" => u = t
  BY <1>1 DEF RWLOwner, RWInL
<1>10. RW!TypeOK'
  BY <1>1, <1>2, <1>5, <1>6 DEF RW!TypeOK, RW!Labels
<1>11. RWLOwner'
  BY <1>1, ConstantsAssumption DEF RWLOwner, RWInL, RW!TypeOK
<1>12. \A u \in Threads : u # t => pcRW'[u] = pcRW[u] /\ liRW'[u] = liRW[u]
  BY <1>1 DEF RW!TypeOK
<1>13. pcRW'[t] = "idle" /\ liRW'[t] = NoInfo
  BY <1>1 DEF RW!TypeOK
<1>14. \A u \in Threads : u # t /\ pcRW[u] \in RWCounted => sRW'[argRW[u]] = sRW[argRW[u]]
  BY <1>1, <1>8 DEF RW!TypeOK
<1>15. RWPointers'
  BY <1>1, <1>9, <1>12, <1>13, <1>14 DEF RWPointers, RWInL, RWCounted, RWLOwner
<1>16. RWEntries'
  BY <1>1, <1>12, <1>13, <1>14 DEF RWEntries, RWCounted
<1>17. \A i \in Ids : sRW'[i] # NoInfo => sRW'[i] = sRW[i]
  BY <1>1 DEF RW!TypeOK
<1>18. RWInjective'
  BY <1>17 DEF RWInjective
<1>19. RWHeld'
  <2>1. RW!Inside' = RW!Inside /\ t \notin RW!Inside /\ RW!Inside \subseteq Threads
    BY <1>1, <1>12, <1>13 DEF RW!Inside
  <2>2. \A u \in Threads : u \in RW!Inside \/ pcRW[u] = "announced" => pcRW[u] \in RWCounted /\ u # t
    BY <1>1 DEF RW!Inside, RWCounted
  <2>3. \A u \in Threads : u \in RW!Inside \/ pcRW[u] = "announced" => sRW'[argRW[u]] = sRW[argRW[u]]
    BY <1>14, <2>2
  <2>4. \A u \in Threads : pcRW'[u] = "announced" <=> pcRW[u] = "announced"
    BY <1>1, <1>12, <1>13
  <2> QED
    BY <1>1, <2>1, <2>3, <2>4 DEF RWHeld, RWAnnounced, RWWriters, RWReaders, RWAlone
<1>20. RWRefCount'
  <2> SUFFICES ASSUME NEW i \in Ids, sRW'[i] # NoInfo
               PROVE  refsRW'[sRW'[i]] = Cardinality(RW!Users(i)')
    BY DEF RWRefCount
  <2>1. sRW'[i] = sRW[i] /\ sRW[i] \in Infos
    BY <1>17 DEF RW!TypeOK
  <2>2. CASE i = argRW[t]
    BY <1>1, <1>2, <1>6, <2>1, <2>2 DEF RW!TypeOK
  <2>3. CASE i # argRW[t]
    <3>1. sRW[i] # liRW[t]
      BY <1>2, <2>1, <2>3 DEF RWInjective
    <3>2. refsRW'[sRW[i]] = refsRW[sRW[i]]
      BY <1>1, <2>1, <3>1 DEF RW!TypeOK
    <3> QED
      BY <1>4, <2>1, <2>3, <3>2 DEF RWRefCount
  <2> QED
    BY <2>2, <2>3
<1>21. RWNoIdleEntry'
  <2> SUFFICES ASSUME NEW i \in Ids, sRW'[i] # NoInfo
               PROVE  \E u \in Threads : pcRW'[u] \in RWCounted \cup {"lock_ref"} /\ argRW[u] = i
    BY <1>1 DEF RWNoIdleEntry
  <2>1. CASE i = argRW[t]
    <3>1. RW!Users(i)' # {}
      BY <1>1, <1>2, <1>7, <2>1 DEF RW!TypeOK
    <3>2. RW!Users(i)' = {u \in Threads : argRW[u] = i /\ pcRW'[u] \in RWCounted}
      BY <1>1, <1>10 DEF RW!Users, RWCounted, RW!TypeOK, RW!Labels
    <3> QED
      BY <3>1, <3>2
  <2>2. CASE i # argRW[t]
    <3>1. PICK u \in Threads : pcRW[u] \in RWCounted \cup {"lock_ref"} /\ argRW[u] = i
      BY <1>17 DEF RWNoIdleEntry
    <3> QED
      BY <1>12, <2>2, <3>1
  <2> QED
    BY <2>1, <2>2
<1> QED
  BY <1>10, <1>11, <1>15, <1>16, <1>18, <1>19, <1>20, <1>21

\* The inductive invariant is one.
LEMMA RWNextIInv == ASSUME RWIInv, [RW!Next]_(RW!vars) PROVE RWIInv'
<1>1. CASE UNCHANGED RW!vars
  BY <1>1 DEF RWIInv, RW!vars, RW!TypeOK, RWLOwner, RWPointers, RWEntries, RWInjective, RWHeld, RWAnnounced,
              RWWriters, RWReaders, RWAlone, RWRefCount, RWNoIdleEntry, RW!Inside, RW!Users
<1>2. ASSUME NEW t \in Threads, (\E id \in Ids, m \in RW!Modes : RW!Call(t, id, m)) \/ RW!UnlockCall(t)
      PROVE  RWIInv'
  BY <1>2, RWCallPreserves
<1>3. ASSUME NEW t \in Threads, RW!LockL(t) \/ RW!UnlockL(t)
      PROVE  RWIInv'
  BY <1>3, RWLockInfoPreserves
<1>4. ASSUME NEW t \in Threads, RW!LockRef(t)
      PROVE  RWIInv'
  BY <1>4, RWLockRefPreserves
<1>5. ASSUME NEW t \in Threads, RW!RLockMu(t) \/ RW!Announce(t) \/ RW!LockMu(t) \/ RW!UnlockMu(t)
      PROVE  RWIInv'
  BY <1>5, RWMuPreserves
<1>6. ASSUME NEW t \in Threads, RW!UnlockRef(t)
      PROVE  RWIInv'
  BY <1>6, RWUnlockRefPreserves
<1> QED
  BY <1>1, <1>2, <1>3, <1>4, <1>5, <1>6 DEF RW!Next, RW!Step

\* Every reachable state satisfies the inductive invariant.
LEMMA RWInductive == RW!Spec => []RWIInv
<1>1. RW!Init => RWIInv
  BY RWInitIInv
<1>2. RWIInv /\ [RW!Next]_(RW!vars) => RWIInv'
  BY RWNextIInv
<1> QED
  BY <1>1, <1>2, PTL DEF RW!Spec

-----------------------------------------------------------------------------
\* Of two callers inside for one id both are readers, however many callers, ids and
\* deleted entries there are.
THEOREM RWHolds == RW!Spec => []RW!RWExclusion
<1>1. RWIInv => RW!RWExclusion
  <2> SUFFICES ASSUME RWIInv, NEW t \in RW!Inside, NEW u \in RW!Inside, t # u, argRW[t] = argRW[u]
               PROVE  mode[t] = "read" /\ mode[u] = "read"
    BY DEF RW!RWExclusion
  <2>1. t \in Threads /\ u \in Threads /\ mode[t] \in RW!Modes /\ mode[u] \in RW!Modes
    BY DEF RW!Inside, RWIInv, RW!TypeOK
  <2> QED
    BY <2>1 DEF RWIInv, RWHeld, RWWriters, RWReaders, RWAlone, RW!Modes
<1>2. RW!Spec => []RWIInv
  BY RWInductive
<1> QED
  BY <1>1, <1>2, PTL

\* The records of the locker are exact: no entry leaks and none is early gone, and Unlock
\* and RUnlock find what their caller locked, so they are never a fatal error.
THEOREM RWRecords == RW!Spec => []RW!RecordsExact
<1>1. ASSUME RWIInv PROVE RW!RefsCountUsers
  <2>1. ASSUME lRW = NoThread, NEW id \in Ids
        PROVE  /\ sRW[id] = NoInfo <=> RW!Users(id) = {}
               /\ sRW[id] # NoInfo => refsRW[sRW[id]] = Cardinality(RW!Users(id))
    <3>1. \A t \in Threads : pcRW[t] \notin RWInL
      BY <1>1, <2>1, ConstantsAssumption DEF RWIInv, RWLOwner
    <3>2. RW!Users(id) = {t \in Threads : argRW[t] = id /\ pcRW[t] \in RWCounted}
      BY <1>1, RWUsersCounted DEF RWIInv
    <3>3. sRW[id] # NoInfo => RW!Users(id) # {}
      BY <1>1, <3>1, <3>2 DEF RWIInv, RWNoIdleEntry, RWInL
    <3>4. sRW[id] = NoInfo => RW!Users(id) = {}
      BY <1>1, <3>2 DEF RWIInv, RWEntries
    <3> QED
      BY <1>1, <3>3, <3>4 DEF RWIInv, RWRefCount
  <2> QED
    BY <2>1, RWCardinality DEF RW!RefsCountUsers
<1>2. ASSUME RWIInv PROVE RW!UnlockFindsOwnLock
  BY <1>2 DEF RWIInv, RW!UnlockFindsOwnLock, RWHeld, RWWriters, RWReaders, RW!Inside, RWPointers, RWInL, RW!TypeOK, RW!Modes
<1>3. RWIInv => RW!RecordsExact
  BY <1>1, <1>2 DEF RW!RecordsExact, RWIInv
<1>4. RW!Spec => []RWIInv
  BY RWInductive
<1> QED
  BY <1>3, <1>4, PTL
=============================================================================
