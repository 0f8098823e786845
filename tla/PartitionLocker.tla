--------------------------- MODULE PartitionLocker ---------------------------
(***************************************************************************)
(* sync/plocker.go: a mutex per id, created when the first caller asks for *)
(* it and forgotten when the last one has left.  The map from id to        *)
(* lockInfo and the reference counts are protected by p.l; the partition   *)
(* lock li.mu is taken after p.l has been released, so a caller waits on a *)
(* pointer it read inside a critical section that is over.  What has to be *)
(* right is that nobody can be left waiting on, or holding, a lockInfo     *)
(* that the map has forgotten.                                             *)
(*                                                                         *)
(* lockInfo values are heap objects: members of Infos, allocated from the  *)
(* ones nothing points to any more (the garbage collector's view).  A      *)
(* member of Threads is one caller, that is one Lock(id) ... Unlock(id)    *)
(* pair at a time; a goroutine that holds several ids is several of them.  *)
(***************************************************************************)
EXTENDS Naturals, FiniteSets

CONSTANTS Threads,    \* callers of Lock and Unlock
          Ids,        \* partition ids
          Infos,      \* addresses a lockInfo can have
          NoThread,   \* the owner of a free mutex
          NoInfo      \* the nil pointer

ASSUME ConstantsAssumption ==
         /\ NoThread \notin Threads
         /\ NoInfo \notin Infos
         /\ Ids # {}
         /\ IsFiniteSet(Threads)

VARIABLES l,      \* owner of PartitionLocker.l
          s,      \* PartitionLocker.s: the lockInfo of each id, or NoInfo
          mu,     \* owner of each lockInfo.mu
          refs,   \* each lockInfo.refs
          pc,     \* where each caller is
          arg,    \* the id a caller passed
          li      \* the caller's local variable li

vars == <<l, s, mu, refs, pc, arg, li>>

Labels == {"idle", "lock_l", "lock_ref", "lock_mu", "holding",
           "unlock_l", "unlock_mu", "unlock_ref"}

TypeOK == /\ l \in Threads \cup {NoThread}
          /\ s \in [Ids -> Infos \cup {NoInfo}]
          /\ mu \in [Infos -> Threads \cup {NoThread}]
          /\ refs \in [Infos -> Nat]
          /\ pc \in [Threads -> Labels]
          /\ arg \in [Threads -> Ids]
          /\ li \in [Threads -> Infos \cup {NoInfo}]

\* NewPartitionLocker: an empty map, every mutex its zero value.
Init == /\ l = NoThread
        /\ s = [id \in Ids |-> NoInfo]
        /\ mu = [o \in Infos |-> NoThread]
        /\ refs = [o \in Infos |-> 0]
        /\ pc = [t \in Threads |-> "idle"]
        /\ arg \in [Threads -> Ids]
        /\ li = [t \in Threads |-> NoInfo]

-----------------------------------------------------------------------------
\* An address that neither the map nor a caller's li points to.
Unreachable(o) == /\ \A id \in Ids : s[id] # o
                  /\ \A t \in Threads : li[t] # o

\* li := p.lockInfo(id): the entry of the map or, if there is none, a new zero
\* lockInfo that is added to the map.
LockInfo(t) ==
  \/ /\ s[arg[t]] # NoInfo
     /\ li' = [li EXCEPT ![t] = s[arg[t]]]
     /\ UNCHANGED <<s, mu, refs>>
  \/ /\ s[arg[t]] = NoInfo
     /\ \E o \in Infos : /\ Unreachable(o)
                         /\ s' = [s EXCEPT ![arg[t]] = o]
                         /\ mu' = [mu EXCEPT ![o] = NoThread]
                         /\ refs' = [refs EXCEPT ![o] = 0]
                         /\ li' = [li EXCEPT ![t] = o]

-----------------------------------------------------------------------------
\* Lock(id) is called.
LockCall(t, id) ==
  /\ pc[t] = "idle"
  /\ pc' = [pc EXCEPT ![t] = "lock_l"]
  /\ arg' = [arg EXCEPT ![t] = id]
  /\ UNCHANGED <<l, s, mu, refs, li>>

\* p.l.Lock(); li := p.lockInfo(id).
LockL(t) ==
  /\ pc[t] = "lock_l"
  /\ l = NoThread
  /\ l' = t
  /\ LockInfo(t)
  /\ pc' = [pc EXCEPT ![t] = "lock_ref"]
  /\ UNCHANGED arg

\* li.refs++; p.l.Unlock().
LockRef(t) ==
  /\ pc[t] = "lock_ref"
  /\ refs' = [refs EXCEPT ![li[t]] = @ + 1]
  /\ l' = NoThread
  /\ pc' = [pc EXCEPT ![t] = "lock_mu"]
  /\ UNCHANGED <<s, mu, arg, li>>

\* Fault: the partition lock is taken without waiting.
LockMu_Barges(t) ==
  /\ pc[t] = "lock_mu"
  /\ mu' = [mu EXCEPT ![li[t]] = t]
  /\ li' = [li EXCEPT ![t] = NoInfo]
  /\ pc' = [pc EXCEPT ![t] = "holding"]
  /\ UNCHANGED <<l, s, refs, arg>>

\* li.mu.Lock().
LockMu(t) ==
  /\ pc[t] = "lock_mu"
  /\ mu[li[t]] = NoThread
  /\ mu' = [mu EXCEPT ![li[t]] = t]
  /\ li' = [li EXCEPT ![t] = NoInfo]
  /\ pc' = [pc EXCEPT ![t] = "holding"]
  /\ UNCHANGED <<l, s, refs, arg>>

\* Unlock(id) is called, with the id of the Lock.
UnlockCall(t) ==
  /\ pc[t] = "holding"
  /\ pc' = [pc EXCEPT ![t] = "unlock_l"]
  /\ UNCHANGED <<l, s, mu, refs, arg, li>>

\* p.l.Lock(); li := p.lockInfo(id), which creates an entry if it finds none.
UnlockL(t) ==
  /\ pc[t] = "unlock_l"
  /\ l = NoThread
  /\ l' = t
  /\ LockInfo(t)
  /\ pc' = [pc EXCEPT ![t] = "unlock_mu"]
  /\ UNCHANGED arg

\* li.mu.Unlock(), still inside p.l.  Another caller may take li.mu at once.
\* Unlocking a mutex that is free is a fatal error: the process does not go on.
UnlockMu(t) ==
  /\ pc[t] = "unlock_mu"
  /\ mu[li[t]] # NoThread
  /\ mu' = [mu EXCEPT ![li[t]] = NoThread]
  /\ pc' = [pc EXCEPT ![t] = "unlock_ref"]
  /\ UNCHANGED <<l, s, refs, arg, li>>

\* Fault: the entry is deleted while there is still a reference.
LastUser_TooEarly(o) == refs[o] <= 2

\* li.refs == 0 after the decrement.
LastUser(o) == refs[o] = 1

\* Fault: p.l is not released.
UnlockRef_KeepsL(t) ==
  /\ pc[t] = "unlock_ref"
  /\ refs' = [refs EXCEPT ![li[t]] = @ - 1]
  /\ s' = IF LastUser(li[t]) THEN [s EXCEPT ![arg[t]] = NoInfo] ELSE s
  /\ li' = [li EXCEPT ![t] = NoInfo]
  /\ pc' = [pc EXCEPT ![t] = "idle"]
  /\ UNCHANGED <<l, mu, arg>>

\* li.refs--, the entry is deleted at zero, and p.l is released.
UnlockRef(t) ==
  /\ pc[t] = "unlock_ref"
  /\ refs' = [refs EXCEPT ![li[t]] = @ - 1]
  /\ s' = IF LastUser(li[t]) THEN [s EXCEPT ![arg[t]] = NoInfo] ELSE s
  /\ l' = NoThread
  /\ li' = [li EXCEPT ![t] = NoInfo]
  /\ pc' = [pc EXCEPT ![t] = "idle"]
  /\ UNCHANGED <<mu, arg>>

Step(t) == LockL(t) \/ LockRef(t) \/ LockMu(t) \/ UnlockL(t) \/ UnlockMu(t) \/ UnlockRef(t)

Next == \E t \in Threads : \/ \E id \in Ids : LockCall(t, id)
                           \/ UnlockCall(t)
                           \/ Step(t)

Spec == Init /\ [][Next]_vars

-----------------------------------------------------------------------------
(***************************************************************************)
(* Fairness.  The Go scheduler runs every goroutine that can run, so every *)
(* step that is not a wait is weakly fair.  A sync.Mutex goes into         *)
(* starvation mode after a millisecond and then hands over in FIFO order,  *)
(* so a caller for whom the mutex is free again and again gets it: strong  *)
(* fairness for the two waits.  A caller gives back what it holds (the     *)
(* callers in this repository defer the Unlock).  Nobody has to call Lock. *)
(***************************************************************************)
Fairness == \A t \in Threads : SF_vars(Step(t)) /\ WF_vars(UnlockCall(t))

FairSpec == Spec /\ Fairness

-----------------------------------------------------------------------------
\* The callers that count in the refs of the lockInfo of id: from refs++ until refs--.
Users(id) == {t \in Threads : /\ arg[t] = id
                              /\ pc[t] \in {"lock_mu", "holding", "unlock_l",
                                            "unlock_mu", "unlock_ref"}}

\* The callers between the return of li.mu.Lock() and li.mu.Unlock().
Inside == {t \in Threads : pc[t] \in {"holding", "unlock_l", "unlock_mu"}}

\* The lock works: two callers that both returned from Lock(id) and have not
\* yet unlocked are the same caller.  It could fail if an entry were deleted
\* while somebody still waits on its mutex and a second lockInfo were created.
MutualExclusion == \A t, u \in Inside : arg[t] = arg[u] => t = u

\* The lockInfo a caller waits on or unlocks is the one the map has for its id:
\* nobody is left with a pointer to a lockInfo the map has forgotten.
NoStalePointer == \A t \in Threads : li[t] # NoInfo => s[arg[t]] = li[t]

\* refs counts the callers that wait for or hold the lock, and the map has an
\* entry for exactly the ids with such a caller: no entry leaks, none is early gone.
RefsCountUsers ==
  l = NoThread => \A id \in Ids :
                    /\ s[id] = NoInfo <=> Users(id) = {}
                    /\ s[id] # NoInfo => refs[s[id]] = Cardinality(Users(id))

\* Unlock finds the mutex that its caller locked (doc of Unlock: it panics
\* otherwise): the entry it looks up is held by the caller that unlocks.
UnlockFindsOwnLock == \A t \in Threads : pc[t] = "unlock_mu" => mu[li[t]] = t

\* Nobody who calls Lock waits forever, whatever the other ids' callers do.
EveryLockIsGranted == \A t \in Threads : pc[t] = "lock_l" ~> pc[t] = "holding"

-----------------------------------------------------------------------------
\* The refinement: a caller is "in" from li.mu.Lock() to li.mu.Unlock().
Phase(t) == CASE pc[t] \in {"lock_l", "lock_ref", "lock_mu"} -> "waiting"
              [] pc[t] \in {"holding", "unlock_l", "unlock_mu"} -> "in"
              [] OTHER -> "out"

Abstract == INSTANCE KeyedMutex WITH phase <- [t \in Threads |-> Phase(t)], key <- arg

\* The partition locker implements one mutex per id.
ImplementsKeyedMutex == Abstract!Spec
=============================================================================
