--------------------------- MODULE MetricRegistry ---------------------------
(***************************************************************************)
(* stats/metric/registry.go: goroutines that get metrics by key.  The store *)
(* and the index by name are two maps, each atomic by itself; the values    *)
(* come from pools, which may hand out a value again once it was put back.  *)
(***************************************************************************)
EXTENDS Naturals

CONSTANTS Threads, Keys,
          Objs,               \* the values that can be allocated
          None

Kinds == {"counter", "gauge", "simple", "var10", "var20"}

VARIABLES store,      \* the metrics by key
          index,      \* the metrics by name, and under a name by key
          kind,       \* what a value is; an average of some age; None: not allocated
          pool,       \* values the pools hold
          pc, call,   \* where each goroutine is, and the key and kind it asks for
          new, res    \* the value from the pool, the value found

vars == <<store, index, kind, pool, pc, call, new, res>>

Init == /\ store = [k \in Keys |-> None]
        /\ index = [k \in Keys |-> None]
        /\ kind = [o \in Objs |-> None]
        /\ pool = {}
        /\ pc = [t \in Threads |-> "load"]
        /\ call \in [Threads -> [key : Keys, kind : Kinds]]
        /\ new = [t \in Threads |-> None]
        /\ res = [t \in Threads |-> None]

\* The averages of all ages share a pool.
PoolOf(k) == IF k \in {"var10", "var20"} THEN "var" ELSE k

\* sync.Pool.Get, and the age given to an average.
FromPool(t) == \E o \in Objs :
    /\ kind[o] = None \/ (o \in pool /\ PoolOf(kind[o]) = PoolOf(call[t].kind))
    /\ new' = [new EXCEPT ![t] = o]
    /\ pool' = pool \ {o}
    /\ kind' = [kind EXCEPT ![o] = call[t].kind]

\* GetVarMovingAvg takes a value from its pool before it looks, get after.
Load(t) == LET found == store[call[t].key] IN
    /\ pc[t] = "load"
    /\ res' = [res EXCEPT ![t] = found]
    /\ pc' = [pc EXCEPT ![t] = IF found = None THEN "store" ELSE "check"]
    /\ IF found = None \/ PoolOf(call[t].kind) = "var" THEN FromPool(t)
       ELSE UNCHANGED <<kind, pool, new>>
    /\ UNCHANGED <<store, index, call>>

\* Fault: the value that came second is used.
Lost_KeepsOwn(t) == [ store |-> store, res |-> new[t], pool |-> pool, pc |-> "check" ]
\* The value of a goroutine that comes second goes back to the pool.
Lost(t) == [ store |-> store, res |-> store[call[t].key], pool |-> pool \cup {new[t]},
             pc |-> "check" ]
Won(t) == [ store |-> [store EXCEPT ![call[t].key] = new[t]], res |-> new[t],
            pool |-> pool, pc |-> "index" ]

LoadOrStore(t) ==
    /\ pc[t] = "store"
    /\ LET r == IF store[call[t].key] # None THEN Lost(t) ELSE Won(t)
       IN /\ store' = r.store /\ pool' = r.pool
          /\ res' = [res EXCEPT ![t] = r.res]
          /\ pc' = [pc EXCEPT ![t] = r.pc]
    /\ UNCHANGED <<index, kind, call, new>>

\* The set made for a new name is empty, so making it and filling it are one step.
UpdateIndex(t) == /\ pc[t] = "index"
                  /\ index' = [index EXCEPT ![call[t].key] = res[t]]
                  /\ pc' = [pc EXCEPT ![t] = "check"]
                  /\ UNCHANGED <<store, kind, pool, call, new, res>>

\* The kinds a type assertion accepts: a gauge has the methods of a counter and
\* of a moving average, and so has the average of an age those of the simple one.
Accepts(k) == CASE k = "counter" -> {"counter", "gauge"}
                [] k = "simple" -> {"simple", "gauge", "var10", "var20"}
                [] OTHER -> {k}

Check(t) == /\ pc[t] = "check"
            /\ pc' = [pc EXCEPT ![t] =
                        IF kind[res[t]] \in Accepts(call[t].kind) THEN "got" ELSE "error"]
            /\ UNCHANGED <<store, index, kind, pool, call, new, res>>

Next == \E t \in Threads : Load(t) \/ LoadOrStore(t) \/ UpdateIndex(t) \/ Check(t)

Spec == Init /\ [][Next]_vars

-----------------------------------------------------------------------------
\* The goroutines that get a metric by one key get one and the same value, which
\* nobody else has under another key and no pool will hand out again, and a metric
\* is found by its name once the goroutine that created it goes on.
OneValuePerKey ==
    /\ \A t \in Threads : pc[t] \in {"index", "check", "got", "error"} =>
                             res[t] = store[call[t].key] /\ res[t] # None
    /\ \A k \in Keys : store[k] # None =>
         /\ store[k] \notin pool
         /\ \A j \in Keys \ {k} : store[j] # store[k]
         /\ \A t \in Threads : pc[t] = "store" => new[t] # store[k]
         /\ index[k] \in {store[k], None}
         /\ index[k] = None => \E t \in Threads : pc[t] = "index" /\ call[t].key = k
=============================================================================
