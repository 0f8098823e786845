----------------------------- MODULE KeyedMutex -----------------------------
(***************************************************************************)
(* What a partition locker promises to its callers: one mutual-exclusion   *)
(* lock per id, held by at most one caller, independent of the locks of    *)
(* the other ids.  A caller is one Lock(id) ... Unlock(id) pair; a         *)
(* goroutine that holds several ids at once counts as several callers.     *)
(***************************************************************************)
CONSTANTS Threads,   \* the callers
          Ids        \* the partitions

VARIABLES phase,     \* where a caller stands: "out", "waiting" or "in"
          key        \* the id of the caller's current (or last) lock

vars == <<phase, key>>

TypeOK == /\ phase \in [Threads -> {"out", "waiting", "in"}]
          /\ key \in [Threads -> Ids]

Init == /\ phase = [t \in Threads |-> "out"]
        /\ key \in [Threads -> Ids]

\* The caller asks for the lock of id.
Request(t, id) == /\ phase[t] = "out"
                  /\ phase' = [phase EXCEPT ![t] = "waiting"]
                  /\ key' = [key EXCEPT ![t] = id]

\* The lock is granted: nobody else is inside with the same id.
Grant(t) == /\ phase[t] = "waiting"
            /\ \A u \in Threads : phase[u] = "in" => key[u] # key[t]
            /\ phase' = [phase EXCEPT ![t] = "in"]
            /\ UNCHANGED key

\* The lock is given back.
Release(t) == /\ phase[t] = "in"
              /\ phase' = [phase EXCEPT ![t] = "out"]
              /\ UNCHANGED key

Next == \E t \in Threads : \/ \E id \in Ids : Request(t, id)
                           \/ Grant(t)
                           \/ Release(t)

Spec == Init /\ [][Next]_vars

\* Two callers that are inside at the same time are inside with different ids.
Exclusion == \A t, u \in Threads :
               phase[t] = "in" /\ phase[u] = "in" /\ key[t] = key[u] => t = u
=============================================================================
