-------------------------- MODULE PartitionRWLocker --------------------------
(***************************************************************************)
(* sync/prwlocker.go: a read-write mutex per id, kept like the mutexes of   *)
(* PartitionLocker.  What differs is the partition lock: several readers    *)
(* leave one by one, and a writer announces itself before it waits for      *)
(* them (sync.RWMutex), so entries have users of both kinds at once.        *)
(*                                                                         *)
(* A member of Threads is one caller: one RLock/RUnlock or Lock/Unlock pair *)
(* of an id at a time.  RWMutexFor's RWMutex only passes its id on.         *)
(***************************************************************************)
EXTENDS Naturals, FiniteSets

CONSTANTS Threads, Ids, Infos, NoThread, NoInfo

Modes == {"read", "write"}

VARIABLES l,        \* owner of PartitionRWLocker.l
          s,        \* the rwLockInfo of each id, or NoInfo
          writer,   \* of each rwLockInfo.mu: the writer that holds it or waits for readers
          readers,  \* of each rwLockInfo.mu: who holds it for reading
          refs,     \* each rwLockInfo.refs
          pc, arg, li,
          mode      \* which pair of methods the caller uses

vars == <<l, s, writer, readers, refs, pc, arg, li, mode>>

Labels == {"idle", "lock_l", "lock_ref", "lock_mu", "announced", "holding",
           "unlock_l", "unlock_mu", "unlock_ref"}

TypeOK == /\ l \in Threads \cup {NoThread}
          /\ s \in [Ids -> Infos \cup {NoInfo}]
          /\ writer \in [Infos -> Threads \cup {NoThread}]
          /\ readers \in [Infos -> SUBSET Threads]
          /\ refs \in [Infos -> Nat]
          /\ pc \in [Threads -> Labels]
          /\ arg \in [Threads -> Ids]
          /\ li \in [Threads -> Infos \cup {NoInfo}]
          /\ mode \in [Threads -> Modes]

\* NewPartitionRWLocker.
Init == /\ l = NoThread
        /\ s = [id \in Ids |-> NoInfo]
        /\ writer = [o \in Infos |-> NoThread]
        /\ readers = [o \in Infos |-> {}]
        /\ refs = [o \in Infos |-> 0]
        /\ pc = [t \in Threads |-> "idle"]
        /\ arg \in [Threads -> Ids]
        /\ li = [t \in Threads |-> NoInfo]
        /\ mode = [t \in Threads |-> "read"]

Goto(t, label) == pc' = [pc EXCEPT ![t] = label]

-----------------------------------------------------------------------------
\* An address nothing points to.
Unreachable(o) == (\A id \in Ids : s[id] # o) /\ (\A t \in Threads : li[t] # o)

\* li := p.lockInfo(id): found, or created and added to the map.
LockInfo(t) ==
  \/ /\ s[arg[t]] # NoInfo
     /\ li' = [li EXCEPT ![t] = s[arg[t]]]
     /\ UNCHANGED <<s, writer, readers, refs>>
  \/ /\ s[arg[t]] = NoInfo
     /\ \E o \in Infos : /\ Unreachable(o)
                         /\ s' = [s EXCEPT ![arg[t]] = o]
                         /\ writer' = [writer EXCEPT ![o] = NoThread]
                         /\ readers' = [readers EXCEPT ![o] = {}]
                         /\ refs' = [refs EXCEPT ![o] = 0]
                         /\ li' = [li EXCEPT ![t] = o]

\* Lock(id) or RLock(id) is called.
Call(t, id, m) ==
  /\ pc[t] = "idle"
  /\ arg' = [arg EXCEPT ![t] = id]
  /\ mode' = [mode EXCEPT ![t] = m]
  /\ Goto(t, "lock_l")
  /\ UNCHANGED <<l, s, writer, readers, refs, li>>

\* p.l.Lock(); li := p.lockInfo(id), of all four methods.
TakeL(t, here, there) ==
  /\ pc[t] = here
  /\ l = NoThread /\ l' = t
  /\ LockInfo(t)
  /\ Goto(t, there)
  /\ UNCHANGED <<arg, mode>>

LockL(t) == TakeL(t, "lock_l", "lock_ref")

UnlockL(t) == TakeL(t, "unlock_l", "unlock_mu")

\* li.refs++; p.l.Unlock().
LockRef(t) ==
  /\ pc[t] = "lock_ref"
  /\ refs' = [refs EXCEPT ![li[t]] = @ + 1]
  /\ l' = NoThread
  /\ Goto(t, "lock_mu")
  /\ UNCHANGED <<s, writer, readers, arg, li, mode>>

\* Fault: readers do not wait for a writer.
RLockMu_Barges(t) ==
  /\ pc[t] = "lock_mu" /\ mode[t] = "read"
  /\ readers' = [readers EXCEPT ![li[t]] = @ \cup {t}]
  /\ li' = [li EXCEPT ![t] = NoInfo]
  /\ Goto(t, "holding")
  /\ UNCHANGED <<l, s, writer, refs, arg, mode>>

\* li.mu.RLock(): no writer holds it or has announced itself.
RLockMu(t) ==
  /\ pc[t] = "lock_mu" /\ mode[t] = "read"
  /\ writer[li[t]] = NoThread
  /\ readers' = [readers EXCEPT ![li[t]] = @ \cup {t}]
  /\ li' = [li EXCEPT ![t] = NoInfo]
  /\ Goto(t, "holding")
  /\ UNCHANGED <<l, s, writer, refs, arg, mode>>

\* li.mu.Lock(): the writer gets in front of the writers to come, then waits for the readers.
Announce(t) ==
  /\ pc[t] = "lock_mu" /\ mode[t] = "write"
  /\ writer[li[t]] = NoThread
  /\ writer' = [writer EXCEPT ![li[t]] = t]
  /\ Goto(t, "announced")
  /\ UNCHANGED <<l, s, readers, refs, arg, li, mode>>

LockMu(t) ==
  /\ pc[t] = "announced"
  /\ readers[li[t]] = {}
  /\ li' = [li EXCEPT ![t] = NoInfo]
  /\ Goto(t, "holding")
  /\ UNCHANGED <<l, s, writer, readers, refs, arg, mode>>

\* Unlock(id) or RUnlock(id) is called, with the id and the mode of the lock.
UnlockCall(t) ==
  /\ pc[t] = "holding"
  /\ Goto(t, "unlock_l")
  /\ UNCHANGED <<l, s, writer, readers, refs, arg, li, mode>>

\* li.mu.Unlock() or li.mu.RUnlock().  Unlocking what is not locked is fatal: the
\* process does not go on.
UnlockMu(t) ==
  /\ pc[t] = "unlock_mu"
  /\ \/ /\ mode[t] = "write" /\ writer[li[t]] # NoThread
        /\ writer' = [writer EXCEPT ![li[t]] = NoThread]
        /\ UNCHANGED readers
     \/ /\ mode[t] = "read" /\ readers[li[t]] # {}
        /\ readers' = [readers EXCEPT ![li[t]] = @ \ {t}]
        /\ UNCHANGED writer
  /\ Goto(t, "unlock_ref")
  /\ UNCHANGED <<l, s, refs, arg, li, mode>>

\* li.refs == 0 after the decrement.
LastUser(o) == refs[o] = 1

\* li.refs--, the entry is deleted at zero, and p.l is released.
UnlockRef(t) ==
  /\ pc[t] = "unlock_ref"
  /\ refs' = [refs EXCEPT ![li[t]] = @ - 1]
  /\ s' = IF LastUser(li[t]) THEN [s EXCEPT ![arg[t]] = NoInfo] ELSE s
  /\ l' = NoThread
  /\ li' = [li EXCEPT ![t] = NoInfo]
  /\ Goto(t, "idle")
  /\ UNCHANGED <<writer, readers, arg, mode>>

Step(t) == \/ LockL(t) \/ LockRef(t) \/ RLockMu(t) \/ Announce(t) \/ LockMu(t)
           \/ UnlockL(t) \/ UnlockMu(t) \/ UnlockRef(t)

Next == \E t \in Threads : \/ \E id \in Ids, m \in Modes : Call(t, id, m)
                           \/ UnlockCall(t)
                           \/ Step(t)

Spec == Init /\ [][Next]_vars

\* As in PartitionLocker: goroutines run, the mutexes of package sync do not starve
\* a caller, and who holds a lock unlocks it.
Fairness == \A t \in Threads : SF_vars(Step(t)) /\ WF_vars(UnlockCall(t))

FairSpec == Spec /\ Fairness

-----------------------------------------------------------------------------
\* The callers between refs++ and refs-- for an id.
Users(id) == {t \in Threads : arg[t] = id /\ pc[t] \notin {"idle", "lock_l", "lock_ref"}}

\* The callers between the return of Lock or RLock and the release of li.mu.
Inside == {t \in Threads : pc[t] \in {"holding", "unlock_l", "unlock_mu"}}

\* Doc of Lock and RLock: two callers that are inside for one id are both readers.
\* A reader that left an entry too early deleted would let a writer in.
RWExclusion == \A t, u \in Inside :
                 t # u /\ arg[t] = arg[u] => mode[t] = "read" /\ mode[u] = "read"

\* refs counts readers and writers, waiting or holding, and an id has an entry
\* exactly while it has one of them.
RefsCountUsers ==
  l = NoThread => \A id \in Ids :
                    /\ s[id] = NoInfo <=> Users(id) = {}
                    /\ s[id] # NoInfo => refs[s[id]] = Cardinality(Users(id))

\* Unlock and RUnlock release what their caller locked (doc: they panic otherwise).
UnlockFindsOwnLock ==
  \A t \in Threads : pc[t] = "unlock_mu" => IF mode[t] = "write" THEN writer[li[t]] = t
                                            ELSE t \in readers[li[t]]

\* The locker's records are exact: the callers are where they can be, each entry
\* lives as long as its users, and who unlocks finds the lock it took.
RecordsExact == TypeOK /\ RefsCountUsers /\ UnlockFindsOwnLock

\* Readers and writers of an id do not starve each other.
EveryCallIsGranted == \A t \in Threads : pc[t] = "lock_l" ~> pc[t] = "holding"
=============================================================================
