---------------------------- MODULE MetricProofs ----------------------------
(***************************************************************************)
(* Proofs about the metrics that goroutines share, for any goroutines, keys *)
(* and values.  That the registry finds a value under one key only rests on *)
(* a value being in one place at a time: in the store, in a pool, or with   *)
(* one goroutine that is about to store it.  What a counter's Value has     *)
(* read of the first word is at most what it holds, since the words only    *)
(* grow; with that the sum of two readings lies between what the counter    *)
(* held at the first and what it holds at the second.                       *)
(***************************************************************************)
EXTENDS MetricRegistry, Integers, Sequences, FiniteSetTheorems, TLAPS

CONSTANT Values                  \* what may be added to the counter, or set
VARIABLES bits, int, gauge, op, old, total, level, low,
          at                     \* where a goroutine is in its operation of the counter

Counter == INSTANCE MetricCounter WITH pc <- at

\* None is neither a value nor a kind.
Constants == None \notin Objs /\ None \notin Kinds

TypeOK == /\ store \in [Keys -> Objs \cup {None}]
          /\ index \in [Keys -> Objs \cup {None}]
          /\ kind \in [Objs -> Kinds \cup {None}]
          /\ pool \subseteq Objs
          /\ pc \in [Threads -> {"load", "store", "index", "check", "got", "error"}]
          /\ call \in [Threads -> [key : Keys, kind : Kinds]]
          /\ new \in [Threads -> Objs \cup {None}]
          /\ res \in [Threads -> Objs \cup {None}]

Storing(t) == pc[t] = "store"

\* What is in the store, in a pool or with a goroutine was allocated.
Allocated == /\ \A k \in Keys : store[k] # None => kind[store[k]] # None
             /\ \A o \in pool : kind[o] # None
             /\ \A t \in Threads : Storing(t) => new[t] # None /\ kind[new[t]] # None

\* A value is in one place.
InStoreOnce == \A k \in Keys : store[k] # None =>
                 /\ store[k] \notin pool
                 /\ \A j \in Keys : j # k => store[j] # store[k]
HeldOnce == \A t \in Threads : Storing(t) =>
              /\ new[t] \notin pool
              /\ \A k \in Keys : store[k] # new[t]
              /\ \A u \in Threads : u # t /\ Storing(u) => new[u] # new[t]

\* What a goroutine has found is what is stored.
Found == \A t \in Threads : pc[t] \in {"index", "check", "got", "error"} =>
           res[t] = store[call[t].key] /\ res[t] # None

\* The index has nothing that is not stored, and what it lacks is being added.
Indexed == \A k \in Keys :
             /\ index[k] \in {store[k], None}
             /\ store[k] # None /\ index[k] = None =>
                  \E t \in Threads : pc[t] = "index" /\ call[t].key = k

IInv == TypeOK /\ Allocated /\ InStoreOnce /\ HeldOnce /\ Found /\ Indexed

-----------------------------------------------------------------------------
\* The invariant holds of a new registry.
LEMMA InitIInv == Init => IInv
<1> SUFFICES ASSUME Init PROVE IInv
  OBVIOUS
<1>1. TypeOK
  BY DEF Init, TypeOK
<1>2. Allocated /\ InStoreOnce /\ HeldOnce
  BY DEF Init, Allocated, InStoreOnce, HeldOnce, Storing
<1>3. Found /\ Indexed
  BY DEF Init, Found, Indexed
<1> QED
  BY <1>1, <1>2, <1>3 DEF IInv

\* A value from a pool, or a new one, is nowhere else.
LEMMA PoolGives ==
  ASSUME Constants, IInv, NEW t \in Threads, pc[t] = "load", FromPool(t)
  PROVE  \E o \in Objs :
           /\ new' = [new EXCEPT ![t] = o] /\ pool' = pool \ {o}
           /\ kind' = [kind EXCEPT ![o] = call[t].kind] /\ call[t].kind \in Kinds
           /\ \A k \in Keys : store[k] # o
           /\ \A u \in Threads : Storing(u) => new[u] # o
<1>1. PICK o \in Objs : /\ kind[o] = None \/ o \in pool
                        /\ new' = [new EXCEPT ![t] = o] /\ pool' = pool \ {o}
                        /\ kind' = [kind EXCEPT ![o] = call[t].kind]
  BY DEF FromPool
<1>2. call[t].kind \in Kinds
  BY DEF IInv, TypeOK
<1>3. \A k \in Keys : store[k] # o
  BY <1>1 DEF IInv, Allocated, InStoreOnce, Constants
<1>4. \A u \in Threads : Storing(u) => new[u] # o
  BY <1>1 DEF IInv, Allocated, HeldOnce
<1> QED
  BY <1>1, <1>2, <1>3, <1>4

\* A goroutine looks its key up.
LEMMA LoadPreserves ==
  ASSUME Constants, IInv, NEW t \in Threads, Load(t)
  PROVE  IInv'
<1> USE DEF IInv
<1> DEFINE found == store[call[t].key]
           next == IF found = None THEN "store" ELSE "check"
<1>1. /\ pc[t] = "load" /\ res' = [res EXCEPT ![t] = found] /\ pc' = [pc EXCEPT ![t] = next]
      /\ UNCHANGED <<store, index, call>>
  BY DEF Load
<1>2. call[t].key \in Keys /\ found \in Objs \cup {None}
  BY DEF TypeOK
<1>3. /\ pc'[t] = next /\ res'[t] = found
      /\ \A u \in Threads : u # t => pc'[u] = pc[u] /\ res'[u] = res[u]
      /\ pc' \in [Threads -> {"load", "store", "index", "check", "got", "error"}]
      /\ res' \in [Threads -> Objs \cup {None}]
  BY <1>1, <1>2 DEF TypeOK
<1>4. Found'
  BY <1>1, <1>3 DEF Found
<1>5. Indexed'
  BY <1>1, <1>3 DEF Indexed
<1>6. CASE FromPool(t)
  <2>1. PICK o \in Objs :
           /\ new' = [new EXCEPT ![t] = o] /\ pool' = pool \ {o}
           /\ kind' = [kind EXCEPT ![o] = call[t].kind] /\ call[t].kind \in Kinds
           /\ \A k \in Keys : store[k] # o
           /\ \A u \in Threads : Storing(u) => new[u] # o
    BY <1>1, <1>6, PoolGives
  <2>2. /\ new' \in [Threads -> Objs \cup {None}] /\ new'[t] = o
        /\ \A u \in Threads : u # t => new'[u] = new[u]
        /\ kind' \in [Objs -> Kinds \cup {None}] /\ kind'[o] \in Kinds
        /\ \A p \in Objs : p # o => kind'[p] = kind[p]
        /\ pool' \subseteq pool /\ o \notin pool'
    BY <2>1 DEF TypeOK
  <2>3. TypeOK'
    BY <1>1, <1>3, <2>2 DEF TypeOK
  <2>4. Allocated'
    <3>1. \A k \in Keys : store'[k] # None => kind'[store'[k]] # None
      BY <1>1, <2>1, <2>2 DEF Allocated, TypeOK
    <3>2. \A p \in pool' : kind'[p] # None
      BY <2>2 DEF Allocated, TypeOK
    <3>3. ASSUME NEW u \in Threads, Storing(u)' PROVE new'[u] # None /\ kind'[new'[u]] # None
      <4>1. CASE u = t
        BY <2>2, <4>1 DEF Constants
      <4>2. CASE u # t
        BY <1>3, <2>1, <2>2, <3>3, <4>2 DEF Allocated, TypeOK, Storing
      <4> QED
        BY <4>1, <4>2
    <3> QED
      BY <3>1, <3>2, <3>3 DEF Allocated
  <2>5. InStoreOnce'
    BY <1>1, <2>2 DEF InStoreOnce
  <2>6. HeldOnce'
    BY <1>1, <1>3, <2>1, <2>2 DEF HeldOnce, Storing
  <2> QED
    BY <1>4, <1>5, <2>3, <2>4, <2>5, <2>6
<1>7. CASE ~FromPool(t)
  <2>1. found # None /\ UNCHANGED <<kind, pool, new>>
    BY <1>7 DEF Load
  <2>2. TypeOK'
    BY <1>1, <1>3, <2>1 DEF TypeOK
  <2>3. Allocated' /\ InStoreOnce' /\ HeldOnce'
    BY <1>1, <1>3, <2>1 DEF Allocated, InStoreOnce, HeldOnce, Storing
  <2> QED
    BY <1>4, <1>5, <2>2, <2>3
<1> QED
  BY <1>6, <1>7

\* A goroutine stores its value, or finds one.
LEMMA StorePreserves ==
  ASSUME Constants, IInv, NEW t \in Threads, LoadOrStore(t)
  PROVE  IInv'
<1> USE DEF IInv
<1> DEFINE key == call[t].key
<1>1. pc[t] = "store" /\ UNCHANGED <<index, kind, call, new>> /\ key \in Keys
      /\ new[t] \in Objs /\ new[t] # None
  BY DEF LoadOrStore, Allocated, Storing, TypeOK
<1>2. CASE store[key] # None
  <2>1. /\ UNCHANGED store /\ pool' = pool \cup {new[t]}
        /\ res' = [res EXCEPT ![t] = store[key]] /\ pc' = [pc EXCEPT ![t] = "check"]
    BY <1>2 DEF LoadOrStore, Lost
  <2>2. /\ pc'[t] = "check" /\ res'[t] = store[key]
        /\ \A u \in Threads : u # t => pc'[u] = pc[u] /\ res'[u] = res[u]
    BY <2>1 DEF TypeOK
  <2>3. TypeOK'
    BY <1>1, <2>1 DEF TypeOK
  <2>4. Allocated'
    BY <1>1, <2>1, <2>2 DEF Allocated, Storing
  <2>5. InStoreOnce'
    BY <1>1, <2>1 DEF InStoreOnce, HeldOnce, Storing
  <2>6. HeldOnce'
    BY <1>1, <2>1, <2>2 DEF HeldOnce, Storing
  <2>7. Found' /\ Indexed'
    BY <1>1, <1>2, <2>1, <2>2 DEF Found, Indexed
  <2> QED
    BY <2>3, <2>4, <2>5, <2>6, <2>7
<1>3. CASE store[key] = None
  <2>1. /\ store' = [store EXCEPT ![key] = new[t]] /\ UNCHANGED pool
        /\ res' = [res EXCEPT ![t] = new[t]] /\ pc' = [pc EXCEPT ![t] = "index"]
    BY <1>3 DEF LoadOrStore, Won
  <2>2. /\ pc'[t] = "index" /\ res'[t] = new[t]
        /\ \A u \in Threads : u # t => pc'[u] = pc[u] /\ res'[u] = res[u]
        /\ store'[key] = new[t] /\ \A k \in Keys : k # key => store'[k] = store[k]
    BY <1>1, <2>1 DEF TypeOK
  <2>3. TypeOK'
    BY <1>1, <2>1 DEF TypeOK
  <2>4. Allocated'
    BY <1>1, <2>1, <2>2 DEF Allocated, Storing
  <2>5. InStoreOnce'
    BY <1>1, <2>1, <2>2 DEF InStoreOnce, HeldOnce, Storing
  <2>6. HeldOnce'
    BY <1>1, <2>1, <2>2 DEF HeldOnce, Storing
  <2>7. Found'
    BY <1>1, <1>3, <2>2 DEF Found, TypeOK
  <2>8. Indexed'
    BY <1>1, <1>3, <2>2 DEF Indexed
  <2> QED
    BY <2>3, <2>4, <2>5, <2>6, <2>7, <2>8
<1> QED
  BY <1>2, <1>3

\* The goroutine that stored a value adds it to the index, or a kind is checked.
LEMMA RestPreserves ==
  ASSUME Constants, IInv, NEW t \in Threads, UpdateIndex(t) \/ Check(t)
  PROVE  IInv'
<1> USE DEF IInv
<1>1. /\ UNCHANGED <<store, kind, pool, call, new, res>> /\ pc[t] \in {"index", "check"}
      /\ pc'[t] \in {"check", "got", "error"}
      /\ pc' \in [Threads -> {"load", "store", "index", "check", "got", "error"}]
      /\ \A u \in Threads : u # t => pc'[u] = pc[u]
  BY DEF UpdateIndex, Check, TypeOK
<1>2. res[t] = store[call[t].key] /\ res[t] # None /\ call[t].key \in Keys
  BY <1>1 DEF Found, TypeOK
<1>3. /\ index' \in [Keys -> Objs \cup {None}]
      /\ pc[t] = "index" => index'[call[t].key] = res[t]
      /\ \A k \in Keys : index'[k] = index[k] \/ (k = call[t].key /\ index'[k] = res[t])
  BY <1>2 DEF UpdateIndex, Check, TypeOK
<1>4. TypeOK'
  BY <1>1, <1>3 DEF TypeOK
<1>5. Allocated' /\ InStoreOnce' /\ HeldOnce'
  BY <1>1 DEF Allocated, InStoreOnce, HeldOnce, Storing
<1>6. Found'
  BY <1>1 DEF Found
<1>7. Indexed'
  <2> SUFFICES ASSUME NEW k \in Keys
               PROVE  /\ index'[k] \in {store[k], None}
                      /\ store[k] # None /\ index'[k] = None =>
                           \E u \in Threads : pc'[u] = "index" /\ call[u].key = k
    BY <1>1 DEF Indexed
  <2>1. CASE index'[k] = res[t] /\ k = call[t].key
    BY <1>2, <2>1
  <2>2. CASE index'[k] = index[k] /\ ~(pc[t] = "index" /\ k = call[t].key)
    BY <1>1, <2>2 DEF Indexed
  <2> QED
    BY <1>3, <2>1, <2>2
<1> QED
  BY <1>4, <1>5, <1>6, <1>7

\* Every step keeps the invariant.
LEMMA NextIInv == ASSUME Constants, IInv, [Next]_vars PROVE IInv'
<1>1. CASE UNCHANGED vars
  BY <1>1 DEF vars, IInv, TypeOK, Allocated, InStoreOnce, HeldOnce, Found, Indexed, Storing
<1>2. ASSUME NEW t \in Threads, Load(t) \/ LoadOrStore(t) \/ UpdateIndex(t) \/ Check(t)
      PROVE  IInv'
  BY <1>2, LoadPreserves, StorePreserves, RestPreserves
<1> QED
  BY <1>1, <1>2 DEF Next

\* Goroutines that get a metric by one key get the same value, which is nowhere else, and
\* find it by its name: for any number of goroutines, keys and values.
THEOREM RegistryHolds == ASSUME Constants PROVE Spec => []OneValuePerKey
<1>1. Init => IInv
  BY InitIInv
<1>2. IInv /\ [Next]_vars => IInv'
  BY NextIInv
<1>3. IInv => OneValuePerKey
  BY DEF IInv, Found, InStoreOnce, HeldOnce, Indexed, Storing, OneValuePerKey
<1> QED
  BY <1>1, <1>2, <1>3, PTL DEF Spec

-----------------------------------------------------------------------------
\* The words and what goroutines keep of them are numbers.
CounterTypeOK == /\ bits \in Int /\ int \in Int /\ gauge \in Int /\ total \in Int /\ level \in Int
                 /\ op \in [Threads -> Counter!Ops]
                 /\ at \in [Threads -> {"call", "loaded", "done"}]
                 /\ old \in [Threads -> Int] /\ low \in [Threads -> Int]

\* Nothing added is lost, and the gauge is what it was made.
Sums == bits + int = total /\ gauge = level

\* What a Value has read is not more than is there, and with the other word not less than
\* was there.
HalfRead == \A t \in Threads : Counter!Is(t, "loaded", "Value") =>
                                 old[t] <= bits /\ low[t] <= old[t] + int

\* What a Value returns.
Returned == \A t \in Threads : Counter!Is(t, "done", "Value") => low[t] <= old[t] /\ old[t] <= total

CounterIInv == CounterTypeOK /\ Sums /\ HalfRead /\ Returned

-----------------------------------------------------------------------------
\* The values of operations are numbers, those of additions not negative ones.
LEMMA OpsTyped ==
  ASSUME Values \subseteq Int, NEW o \in Counter!Ops
  PROVE  o.v \in Int /\ (o.name = "Add" => o.v >= 0)
<1>1. CASE o \in [name : {"Add"}, v : {x \in Values : x >= 0}]
  BY <1>1
<1>2. CASE o \in [name : {"Value"}, v : {0}]
  BY <1>2
<1>3. CASE o \in [name : {"GaugeAdd", "GaugeSet"}, v : Values]
  BY <1>3
<1> QED
  BY <1>1, <1>2, <1>3 DEF Counter!Ops

\* The invariant holds of a new counter.
LEMMA CounterInit == ASSUME Values \subseteq Int, Counter!Init PROVE CounterIInv
  BY DEF Counter!Init, CounterIInv, CounterTypeOK, Sums, HalfRead, Returned, Counter!Is

\* An operation that adds to a word of the counter, and to the total.
LEMMA AddPreserves ==
  ASSUME Values \subseteq Int, CounterIInv, NEW t \in Threads, Counter!AddWhole(t) \/ Counter!SwapBits(t)
  PROVE  CounterIInv'
<1> USE DEF CounterIInv
<1>1. op[t] \in Counter!Ops /\ op[t].v \in Int /\ op[t].v >= 0 /\ op[t].name = "Add"
      /\ op' = op /\ old' = old /\ low' = low /\ gauge' = gauge /\ level' = level
  <2>1. op[t] \in Counter!Ops /\ op[t].name = "Add"
    BY DEF CounterTypeOK, Counter!AddWhole, Counter!SwapBits, Counter!Is
  <2> QED
    BY <2>1, OpsTyped DEF Counter!AddWhole, Counter!SwapBits
<1>2. /\ bits' \in Int /\ int' \in Int /\ total' \in Int
      /\ bits' >= bits /\ int' >= int /\ total' >= total
      /\ bits' + int' = total'
  <2>1. CASE Counter!AddWhole(t)
    BY <1>1, <2>1 DEF Counter!AddWhole, CounterTypeOK, Sums
  <2>2. CASE Counter!SwapBits(t)
    BY <1>1, <2>2 DEF Counter!SwapBits, Counter!Swaps, CounterTypeOK, Sums
  <2> QED
    BY <2>1, <2>2
<1>3. at' \in [Threads -> {"call", "loaded", "done"}] /\ \A u \in Threads : u # t => at'[u] = at[u]
  BY DEF Counter!AddWhole, Counter!SwapBits, Counter!Goto, CounterTypeOK
<1>4. CounterTypeOK' /\ Sums'
  BY <1>1, <1>2, <1>3 DEF CounterTypeOK, Sums
<1>5. ASSUME NEW u \in Threads, op[u].name = "Value"
      PROVE  /\ at'[u] = "loaded" => old[u] <= bits' /\ low[u] <= old[u] + int'
             /\ at'[u] = "done" => low[u] <= old[u] /\ old[u] <= total'
  <2>1. u # t /\ at'[u] = at[u]
    BY <1>1, <1>3, <1>5
  <2>2. /\ at[u] = "loaded" => old[u] <= bits /\ low[u] <= old[u] + int
        /\ at[u] = "done" => low[u] <= old[u] /\ old[u] <= total
    BY <1>5 DEF HalfRead, Returned, Counter!Is
  <2>3. old[u] \in Int /\ low[u] \in Int /\ bits \in Int /\ int \in Int /\ total \in Int
    BY DEF CounterTypeOK
  <2> QED
    BY <1>2, <2>1, <2>2, <2>3
<1> QED
  BY <1>1, <1>4, <1>5 DEF HalfRead, Returned, Counter!Is

\* A first reading.
LEMMA CounterLoad ==
  ASSUME Values \subseteq Int, CounterIInv, NEW t \in Threads, Counter!LoadBits(t) \/ Counter!LoadGauge(t)
  PROVE  CounterIInv'
<1> USE DEF CounterIInv
<1>1. /\ UNCHANGED <<bits, int, gauge, op, total, level>> /\ at' = [at EXCEPT ![t] = "loaded"]
      /\ \A u \in Threads : u # t => old'[u] = old[u] /\ low'[u] = low[u]
      /\ old' \in [Threads -> Int] /\ low' \in [Threads -> Int]
  BY DEF Counter!LoadBits, Counter!LoadGauge, Counter!Goto, CounterTypeOK
<1>2. CounterTypeOK' /\ Sums'
  BY <1>1 DEF CounterTypeOK, Sums
<1>3. op[t].name = "Value" => old'[t] = bits /\ low'[t] = total
  BY DEF Counter!LoadBits, Counter!LoadGauge, Counter!Is, CounterTypeOK
<1>4. at'[t] = "loaded" /\ \A u \in Threads : u # t => at'[u] = at[u]
  BY <1>1 DEF CounterTypeOK
<1>5. HalfRead'
  <2> SUFFICES ASSUME NEW u \in Threads, at'[u] = "loaded", op[u].name = "Value"
               PROVE  old'[u] <= bits /\ low'[u] <= old'[u] + int
    BY <1>1 DEF HalfRead, Counter!Is
  <2>1. CASE u = t
    BY <1>3, <2>1 DEF CounterTypeOK, Sums
  <2>2. CASE u # t
    BY <1>1, <1>4, <2>2 DEF HalfRead, Counter!Is
  <2> QED
    BY <2>1, <2>2
<1>6. Returned'
  BY <1>1, <1>4 DEF Returned, Counter!Is
<1> QED
  BY <1>2, <1>5, <1>6

\* The second reading of a Value.
LEMMA LoadIntPreserves ==
  ASSUME Values \subseteq Int, CounterIInv, NEW t \in Threads, Counter!LoadInt(t)
  PROVE  CounterIInv'
<1> USE DEF CounterIInv
<1>1. UNCHANGED <<bits, int, gauge, op, total, level, low>> /\ at' = [at EXCEPT ![t] = "done"]
      /\ old' = [old EXCEPT ![t] = @ + int]
  BY DEF Counter!LoadInt, Counter!Goto
<1>2. CounterTypeOK' /\ Sums'
  BY <1>1 DEF CounterTypeOK, Sums
<1>3. low[t] <= old'[t] /\ old'[t] <= total
  BY <1>1 DEF Counter!LoadInt, HalfRead, CounterTypeOK, Sums
<1>4. \A u \in Threads : u # t => at'[u] = at[u] /\ old'[u] = old[u]
  BY <1>1 DEF CounterTypeOK
<1>5. at'[t] = "done"
  BY <1>1 DEF CounterTypeOK
<1> QED
  BY <1>1, <1>2, <1>3, <1>4, <1>5 DEF HalfRead, Returned, Counter!Is

\* The gauge's operations.
LEMMA GaugePreserves ==
  ASSUME Values \subseteq Int, CounterIInv, NEW t \in Threads, Counter!SwapGauge(t) \/ Counter!SetGauge(t)
  PROVE  CounterIInv'
<1> USE DEF CounterIInv
<1>1. op[t] \in Counter!Ops /\ op[t].v \in Int /\ op[t].name # "Value"
  <2>1. op[t] \in Counter!Ops /\ op[t].name # "Value"
    BY DEF Counter!SwapGauge, Counter!SetGauge, Counter!Is, CounterTypeOK
  <2> QED
    BY <2>1, OpsTyped
<1>2. UNCHANGED <<bits, int, op, old, total, low>> /\ gauge' \in Int /\ gauge' = level' /\ level' \in Int
  <2>1. CASE Counter!SwapGauge(t)
    BY <1>1, <2>1 DEF Counter!SwapGauge, Counter!Swaps, CounterTypeOK, Sums
  <2>2. CASE Counter!SetGauge(t)
    BY <1>1, <2>2 DEF Counter!SetGauge
  <2> QED
    BY <2>1, <2>2
<1>3. at' \in [Threads -> {"call", "loaded", "done"}] /\ \A u \in Threads : u # t => at'[u] = at[u]
  BY DEF Counter!SwapGauge, Counter!SetGauge, Counter!Goto, CounterTypeOK
<1> QED
  BY <1>1, <1>2, <1>3 DEF CounterTypeOK, Sums, HalfRead, Returned, Counter!Is

\* The inductive invariant is one.
LEMMA CounterNext == ASSUME Values \subseteq Int, CounterIInv, [Counter!Next]_(Counter!vars) PROVE CounterIInv'
<1>1. CASE UNCHANGED Counter!vars
  BY <1>1 DEF Counter!vars, CounterIInv, CounterTypeOK, Sums, HalfRead, Returned, Counter!Is
<1>2. ASSUME NEW t \in Threads, Counter!AddWhole(t) \/ Counter!SwapBits(t) PROVE CounterIInv'
  BY <1>2, AddPreserves
<1>3. ASSUME NEW t \in Threads, Counter!LoadBits(t) \/ Counter!LoadGauge(t) PROVE CounterIInv'
  BY <1>3, CounterLoad
<1>4. ASSUME NEW t \in Threads, Counter!LoadInt(t) PROVE CounterIInv'
  BY <1>4, LoadIntPreserves
<1>5. ASSUME NEW t \in Threads, Counter!SwapGauge(t) \/ Counter!SetGauge(t) PROVE CounterIInv'
  BY <1>5, GaugePreserves
<1> QED
  BY <1>1, <1>2, <1>3, <1>4, <1>5 DEF Counter!Next

\* No addition is lost however many goroutines add, the gauge is what its operations make
\* of it, and Value returns something between what was there at its start and at its end.
THEOREM CounterExact == ASSUME Values \subseteq Int PROVE Counter!Spec => []Counter!NothingLost
<1>1. Counter!Init => CounterIInv
  BY CounterInit
<1>2. CounterIInv /\ [Counter!Next]_(Counter!vars) => CounterIInv'
  BY CounterNext
<1>3. CounterIInv => Counter!NothingLost
  BY DEF CounterIInv, Counter!NothingLost, Sums, Returned
<1> QED
  BY <1>1, <1>2, <1>3, PTL DEF Counter!Spec

-----------------------------------------------------------------------------
(***************************************************************************)
(* StatsdStats: the clients. Who holds a client has that of its tags, and a *)
(* client has a connection just if it is not among those that wait.         *)
(***************************************************************************)
CONSTANTS Callers, KeyOf, Periodic
VARIABLES enabled, connEstablished, clients, pendingClients, ready, got, on, bg, stop, ctxDone,
          cancelled, coll

Statsd == INSTANCE StatsdStats

\* Where a caller is, what it has, and what it sent and by whom.
StatsdTypes == /\ clients \in [Statsd!Keys -> Callers \cup {None}]
               /\ pc \in [Callers -> {"start", "create", "found", "made", "sent"}]
               /\ got \in [Callers -> Callers \cup {None}]
               /\ on \in [Callers -> BOOLEAN] /\ enabled \in BOOLEAN

\* A client is of the tags its maker asked for; who waits to make one has none.
ClientsOf == /\ \A k \in Statsd!Keys : clients[k] # None =>
                   KeyOf[clients[k]] = k /\ got[clients[k]] = clients[k]
             /\ \A t \in Callers : pc[t] = "create" => got[t] = None

\* Who got past the creation has the client of its tags, if it has one.
Sharing == \A t \in Callers : got[t] # None => got[t] = clients[KeyOf[t]]

\* A client has a connection exactly if it does not wait for one; until there is one they
\* all wait.
Connections == /\ pendingClients \subseteq Statsd!Keys /\ None \notin ready
               /\ \A k \in Statsd!Keys : clients[k] # None =>
                     (clients[k] \in ready <=> k \notin pendingClients)
               /\ \A t \in Callers : t \in ready => clients[KeyOf[t]] = t
               /\ \A k \in pendingClients : clients[k] # None
               /\ \A t \in Callers : pc[t] = "sent" => got[t] \in ready

StatsdInv == StatsdTypes /\ ClientsOf /\ Sharing /\ Connections

\* A caller's own steps.
LEMMA StatsdCall ==
  ASSUME None \notin Callers, StatsdInv, NEW t \in Callers, Statsd!Call(t)
  PROVE  StatsdInv'
<1>1. StatsdTypes /\ ClientsOf /\ Sharing /\ Connections /\ KeyOf[t] \in Statsd!Keys /\ enabled' = enabled
  BY DEF StatsdInv, Statsd!Keys, Statsd!Call, Statsd!Disabled, Statsd!Lookup, Statsd!Create,
         Statsd!NewMeasurement, Statsd!Measure
<1> DEFINE k == KeyOf[t]
<1>2. CASE Statsd!Disabled(t)
  <2>1. UNCHANGED <<clients, pendingClients, ready, got, on>> /\ pc' = [pc EXCEPT ![t] = "made"]
    BY <1>2 DEF Statsd!Disabled, Statsd!Goto
  <2> QED
    BY <1>1, <2>1 DEF StatsdInv, StatsdTypes, ClientsOf, Sharing, Connections
<1>3. CASE Statsd!Lookup(t)
  <2>1. /\ UNCHANGED <<clients, pendingClients, ready, on>> /\ pc[t] = "start"
        /\ got' = [got EXCEPT ![t] = clients[k]]
        /\ pc' = [pc EXCEPT ![t] = IF clients[k] = None THEN "create" ELSE "found"]
    BY <1>3 DEF Statsd!Lookup, Statsd!Goto
  <2>2. StatsdTypes'
    BY <1>1, <2>1 DEF StatsdTypes
  <2>3. ClientsOf'
    BY <1>1, <2>1 DEF StatsdTypes, ClientsOf
  <2>4. Sharing'
    BY <1>1, <2>1 DEF StatsdTypes, Sharing
  <2>5. Connections'
    BY <1>1, <2>1 DEF StatsdTypes, Connections
  <2> QED
    BY <2>2, <2>3, <2>4, <2>5 DEF StatsdInv
<1>4. CASE Statsd!Create(t)
  <2>1. /\ pc[t] = "create" /\ UNCHANGED on /\ pc' = [pc EXCEPT ![t] = "found"] /\ got[t] = None
    BY <1>1, <1>4 DEF Statsd!Create, Statsd!Goto, ClientsOf
  <2>2. CASE clients[k] = None
    <3>1. /\ clients' = [clients EXCEPT ![k] = t] /\ got' = [got EXCEPT ![t] = t]
          /\ \/ ready' = ready \cup {t} /\ pendingClients' = pendingClients
             \/ ready' = ready /\ pendingClients' = pendingClients \cup {k}
      BY <1>4, <2>2 DEF Statsd!Create, Statsd!Missing
    <3>2. StatsdTypes'
      BY <1>1, <2>1, <3>1 DEF StatsdTypes
    <3>3. ClientsOf'
      BY <1>1, <2>1, <2>2, <3>1 DEF StatsdTypes, ClientsOf
    <3>4. Sharing'
      BY <1>1, <2>1, <2>2, <3>1 DEF StatsdTypes, ClientsOf, Sharing
    <3>5. t \notin ready /\ k \notin pendingClients
      BY <1>1, <2>2 DEF Connections
    <3>6. Connections'
      BY <1>1, <2>1, <2>2, <3>1, <3>5 DEF StatsdTypes, ClientsOf, Connections
    <3> QED
      BY <3>2, <3>3, <3>4, <3>6 DEF StatsdInv
  <2>3. CASE clients[k] # None
    <3>1. got' = [got EXCEPT ![t] = clients[k]] /\ UNCHANGED <<clients, ready, pendingClients>>
      BY <1>4, <2>3 DEF Statsd!Create, Statsd!Missing
    <3>2. StatsdTypes'
      BY <1>1, <2>1, <3>1 DEF StatsdTypes
    <3>3. ClientsOf' /\ Sharing'
      BY <1>1, <2>1, <2>3, <3>1 DEF StatsdTypes, ClientsOf, Sharing
    <3>4. Connections'
      BY <1>1, <2>1, <2>3, <3>1 DEF StatsdTypes, Connections
    <3> QED
      BY <3>2, <3>3, <3>4 DEF StatsdInv
  <2> QED
    BY <2>2, <2>3
<1>5. CASE Statsd!NewMeasurement(t)
  <2>1. /\ UNCHANGED <<clients, pendingClients, ready, got>>
        /\ pc[t] = "found" /\ pc' = [pc EXCEPT ![t] = "made"]
        /\ on' = [on EXCEPT ![t] = enabled]
    BY <1>5 DEF Statsd!NewMeasurement, Statsd!Goto
  <2> QED
    BY <1>1, <2>1 DEF StatsdInv, StatsdTypes, ClientsOf, Sharing, Connections
<1>6. CASE Statsd!Measure(t)
  <2>1. /\ UNCHANGED <<clients, pendingClients, ready, got, on>> /\ got[t] \in ready
        /\ pc' = [pc EXCEPT ![t] = "sent"]
    BY <1>6 DEF Statsd!Measure, Statsd!Skip, Statsd!Goto
  <2> QED
    BY <1>1, <2>1 DEF StatsdInv, StatsdTypes, ClientsOf, Sharing, Connections
<1> QED
  BY <1>2, <1>3, <1>4, <1>5, <1>6 DEF Statsd!Call

\* Start, the goroutine it leaves behind and Stop.
LEMMA StatsdRest ==
  ASSUME None \notin Callers, StatsdInv,
         \/ Statsd!Background \/ \E c \in Statsd!Collectors : Statsd!Run(c)
         \/ Statsd!Stop \/ Statsd!StopWaits \/ Statsd!CtxEnds \/ UNCHANGED Statsd!vars
  PROVE  StatsdInv'
<1>1. StatsdTypes /\ ClientsOf /\ Sharing /\ Connections
  BY DEF StatsdInv
<1>2. CASE Statsd!RetrySucceeds
  <2>1. /\ ready' = ready \cup Statsd!Pending /\ pendingClients' = {}
        /\ UNCHANGED <<enabled, clients, pc, got, on>>
    BY <1>2 DEF Statsd!RetrySucceeds
  <2>2. ASSUME NEW t \in Statsd!Pending
        PROVE  t \in Callers /\ clients[KeyOf[t]] = t /\ t # None
    BY <1>1, <2>2 DEF Statsd!Pending, StatsdTypes, ClientsOf, Connections
  <2>3. ASSUME NEW k \in Statsd!Keys, clients[k] # None PROVE clients[k] \in ready'
    BY <1>1, <2>1, <2>3 DEF Statsd!Pending, Connections
  <2>4. Connections'
    BY <1>1, <2>1, <2>2, <2>3 DEF Connections
  <2> QED
    BY <1>1, <2>1, <2>4 DEF StatsdInv, StatsdTypes, ClientsOf, Sharing
<1>3. CASE ~Statsd!RetrySucceeds
  <2>1. /\ UNCHANGED <<clients, pendingClients, ready, pc, got, on>>
        /\ enabled' \in {enabled, FALSE}
    BY <1>3 DEF Statsd!Background, Statsd!Start, Statsd!FirstConnection, Statsd!GiveUp, Statsd!Collect,
                Statsd!CollectRest, Statsd!CollectStarts, Statsd!CollectEnds, Statsd!Run, Statsd!Output,
                Statsd!RunEnds, Statsd!Stop, Statsd!StopWaits, Statsd!CtxEnds, Statsd!vars,
                Statsd!callers, Statsd!running
  <2>2. enabled' \in BOOLEAN
    BY <1>1, <2>1 DEF StatsdTypes
  <2> QED
    BY <1>1, <2>1, <2>2 DEF StatsdInv, StatsdTypes, ClientsOf, Sharing, Connections
<1> QED
  BY <1>2, <1>3

\* Measurements with the same tags have one client, however the callers that ask for it
\* interleave with each other and with the connection; a client is without a connection
\* exactly while it waits for one, and sends only with one.
THEOREM OneClientPerTags == ASSUME None \notin Callers PROVE Statsd!Spec => []Statsd!ClientsExact
<1>1. Statsd!Init => StatsdInv
  BY DEF Statsd!Init, StatsdInv, StatsdTypes, ClientsOf, Sharing, Connections
<1>2. StatsdInv /\ [Statsd!Next]_(Statsd!vars) => StatsdInv'
  BY StatsdCall, StatsdRest DEF Statsd!Next
<1>3. StatsdInv => Statsd!ClientsExact
  <2> SUFFICES ASSUME StatsdInv PROVE Statsd!ClientsExact
    OBVIOUS
  <2>1. StatsdTypes /\ Sharing /\ Connections
    BY DEF StatsdInv
  <2>2. ASSUME NEW t \in Callers, pc[t] = "sent" PROVE clients[KeyOf[t]] \in ready
    BY <2>1, <2>2 DEF Sharing, Connections
  <2> QED
    BY <2>1, <2>2 DEF Sharing, Connections, Statsd!ClientsExact
<1> QED
  BY <1>1, <1>2, <1>3, PTL DEF Statsd!Spec

-----------------------------------------------------------------------------
(***************************************************************************)
(* OtelStats: the gauges. A cached gauge belongs to one series, and a       *)
(* caller has the gauge of a series its tags make.                          *)
(***************************************************************************)
CONSTANTS TagsOf, AttrsOf
VARIABLES meter, gauges, bound, start, provider, waiter

Otel == INSTANCE OtelStats

\* Each caller's tags make a finite number of attribute sets; None is no meter nor caller.
OtelConstants == /\ None \notin Callers \cup {"global", "real", "noop"}
                 /\ \A t \in Callers : IsFiniteSet(AttrsOf[TagsOf[t]])

OtelTypes == /\ gauges \in [Otel!Series -> Callers \cup {None}]
             /\ meter \in {"global", "real", "noop"}
             /\ bound \in [Callers -> {"global", "real", "noop", None}]
             /\ pc \in [Callers -> {"call", "got"}]
             /\ got \in [Callers -> Callers \cup {None}]

\* A gauge is of one series, which is one of its maker's, and its callback is registered.
Makers == \A s \in Otel!Series : gauges[s] # None =>
             /\ pc[gauges[s]] = "got" /\ bound[gauges[s]] # None
             /\ \A r \in Otel!Series : gauges[r] = gauges[s] => r = s

\* What a caller has is the gauge of a series its tags may mean.
Theirs == \A t \in Callers : got[t] # None => \E s \in AttrsOf[TagsOf[t]] : gauges[s] = got[t]

OtelInv == OtelTypes /\ Makers /\ Theirs

\* Asking for a gauge.
LEMMA AskPreserves ==
  ASSUME OtelConstants, OtelInv, NEW t \in Callers, Otel!GetGauge(t)
  PROVE  OtelInv'
<1>1. OtelTypes /\ Makers /\ Theirs
  BY DEF OtelInv
<1>2. PICK s \in AttrsOf[TagsOf[t]] :
        IF Otel!Cached(s)
        THEN got' = [got EXCEPT ![t] = gauges[s]] /\ UNCHANGED <<gauges, bound>>
        ELSE /\ gauges' = [gauges EXCEPT ![s] = t]
             /\ bound' = [bound EXCEPT ![t] = meter]
             /\ got' = [got EXCEPT ![t] = t]
  BY DEF Otel!GetGauge
<1>3. s \in Otel!Series /\ \A u \in Callers : AttrsOf[TagsOf[u]] \subseteq Otel!Series
  BY DEF Otel!Series
<1>4. pc[t] = "call" /\ pc' = [pc EXCEPT ![t] = "got"] /\ meter' = meter
  BY DEF Otel!GetGauge, Otel!service
<1>5. CASE gauges[s] # None
  <2>1. got' = [got EXCEPT ![t] = gauges[s]] /\ UNCHANGED <<gauges, bound>>
    BY <1>2, <1>5 DEF Otel!Cached
  <2>2. OtelTypes'
    BY <1>1, <1>3, <1>4, <2>1 DEF OtelTypes
  <2>3. Makers'
    BY <1>1, <1>4, <2>1 DEF OtelTypes, Makers
  <2>4. Theirs'
    BY <1>1, <1>2, <1>3, <2>1 DEF OtelTypes, Theirs
  <2> QED
    BY <2>2, <2>3, <2>4 DEF OtelInv
<1>6. CASE gauges[s] = None
  <2>1. /\ gauges' = [gauges EXCEPT ![s] = t] /\ bound' = [bound EXCEPT ![t] = meter]
        /\ got' = [got EXCEPT ![t] = t]
    BY <1>2, <1>6 DEF Otel!Cached
  <2>2. OtelTypes'
    BY <1>1, <1>3, <1>4, <2>1 DEF OtelTypes
  <2>3. \A r \in Otel!Series : gauges[r] # t
    BY <1>1, <1>4 DEF OtelTypes, Makers, OtelConstants
  <2>4. Makers'
    <3> SUFFICES ASSUME NEW r \in Otel!Series, gauges'[r] # None
                 PROVE  /\ pc'[gauges'[r]] = "got" /\ bound'[gauges'[r]] # None
                        /\ \A q \in Otel!Series : gauges'[q] = gauges'[r] => q = r
      BY DEF Makers
    <3>1. CASE r = s
      BY <1>1, <1>3, <1>4, <2>1, <2>3, <3>1 DEF OtelTypes, OtelConstants
    <3>2. CASE r # s
      BY <1>1, <1>3, <1>4, <2>1, <2>3, <3>2 DEF OtelTypes, Makers
    <3> QED
      BY <3>1, <3>2
  <2>5. Theirs'
    <3> SUFFICES ASSUME NEW u \in Callers, got'[u] # None
                 PROVE  \E r \in AttrsOf[TagsOf[u]] : gauges'[r] = got'[u]
      BY DEF Theirs
    <3>1. CASE u = t
      BY <1>1, <1>3, <2>1, <3>1 DEF OtelTypes
    <3>2. CASE u # t
      <4>1. PICK r \in AttrsOf[TagsOf[u]] : gauges[r] = got[u] /\ got[u] # None
        BY <1>1, <2>1, <3>2 DEF OtelTypes, Theirs
      <4> QED
        BY <1>1, <1>3, <1>6, <2>1, <3>2, <4>1 DEF OtelTypes
    <3> QED
      BY <3>1, <3>2
  <2> QED
    BY <2>2, <2>4, <2>5 DEF OtelInv
<1> QED
  BY <1>5, <1>6

\* The service's own steps.
LEMMA ServicePreserves ==
  ASSUME OtelInv,
         \/ Otel!Service \/ \E c \in Otel!Collectors : Otel!Collects(c) \/ Otel!CollectorEnds(c)
         \/ Otel!Stop \/ Otel!ProvidersShut \/ UNCHANGED Otel!vars
  PROVE  OtelInv'
<1>1. UNCHANGED <<gauges, bound, pc, got>> /\ meter' \in {meter, "real", "noop"}
  BY DEF Otel!Service, Otel!Setup, Otel!StartCollector, Otel!ShutdownReturns, Otel!Cancel,
         Otel!StopWaits, Otel!Collects, Otel!CollectorEnds, Otel!Stop, Otel!ProvidersShut,
         Otel!vars, Otel!callers
<1> QED
  BY <1>1 DEF OtelInv, OtelTypes, Makers, Theirs

\* The same tags, if they mean one series, give the same gauge, tags that have no series in
\* common give different ones, and each has its callback: whoever asks in whatever order,
\* also while the service starts or stops.
THEOREM OneGauge == ASSUME OtelConstants PROVE Otel!Spec => []Otel!OneGaugePerSeries
<1>1. Otel!Init => OtelInv
  BY DEF Otel!Init, OtelInv, OtelTypes, Makers, Theirs
<1>2. OtelInv /\ [Otel!Next]_(Otel!vars) => OtelInv'
  BY AskPreserves, ServicePreserves DEF Otel!Next
<1>3. OtelInv => Otel!OneGaugePerSeries
  <2> SUFFICES ASSUME OtelInv, NEW t \in Callers, NEW u \in Callers, got[t] # None, got[u] # None
               PROVE  /\ bound[got[t]] # None
                      /\ got[t] = got[u] => AttrsOf[TagsOf[t]] \cap AttrsOf[TagsOf[u]] # {}
                      /\ TagsOf[t] = TagsOf[u] /\ Otel!Cardinality(AttrsOf[TagsOf[t]]) = 1 =>
                           got[t] = got[u]
    BY DEF Otel!OneGaugePerSeries
  <2>1. OtelTypes /\ Makers /\ Theirs
    BY DEF OtelInv
  <2>2. PICK s \in AttrsOf[TagsOf[t]] : gauges[s] = got[t]
    BY <2>1 DEF Theirs
  <2>3. PICK r \in AttrsOf[TagsOf[u]] : gauges[r] = got[u]
    BY <2>1 DEF Theirs
  <2>4. s \in Otel!Series /\ r \in Otel!Series
    BY <2>2, <2>3 DEF Otel!Series
  <2>5. bound[got[t]] # None
    BY <2>1, <2>2, <2>4 DEF Makers
  <2>6. got[t] = got[u] => s = r
    BY <2>1, <2>2, <2>3, <2>4 DEF Makers
  <2>7. ASSUME TagsOf[t] = TagsOf[u], Otel!Cardinality(AttrsOf[TagsOf[t]]) = 1
        PROVE  got[t] = got[u]
    <3>1. Cardinality(AttrsOf[TagsOf[t]]) = 1
      BY <2>7 DEF Otel!Cardinality, Cardinality
    <3>2. PICK x : AttrsOf[TagsOf[t]] = {x}
      BY <3>1, FS_Singleton DEF OtelConstants
    <3> QED
      BY <2>2, <2>3, <2>7, <3>2
  <2> QED
    BY <2>2, <2>3, <2>5, <2>6, <2>7
<1> QED
  BY <1>1, <1>2, <1>3, PTL DEF Otel!Spec

-----------------------------------------------------------------------------
(***************************************************************************)
(* PromExporter. What was sent agrees with its family, which stays as it    *)
(* was first. A bucket of lower resolution sums up the buckets whose        *)
(* numbers give its own when they are divided, rounding down: these are the *)
(* ones it covers.                                                          *)
(***************************************************************************)
CONSTANTS Names, Helps, NoHelp, Points, SanitizeKey, ResourceKeys, MaxScale, MinScale
VARIABLES families, sent, point, out

Prom == INSTANCE PromExporter

\* A family is not None.
PromConstants == \A t, h : [type |-> t, help |-> h] # None

\* What was sent has the type of its family, and its help if that is not empty.
Sent == \A x \in sent : /\ x[1] \in Names /\ families[x[1]] # None
                        /\ x[2] = families[x[1]].type
                        /\ families[x[1]].help # NoHelp => x[3] = families[x[1]].help

PromInv == DOMAIN families = Names /\ Sent

\* A data point begins its family or fits it; what does not is not sent.
LEMMA ExportPreserves ==
  ASSUME PromConstants, PromInv, NEW n \in Names, NEW help \in Helps, NEW p \in Points,
         Prom!Add(n, help, p)
  PROVE  PromInv'
<1>1. families' = [families EXCEPT ![n] = IF families[n] = None THEN [type |-> Prom!TypeOf(p), help |-> help]
                                          ELSE families[n]]
  BY DEF Prom!Add, PromInv
<1>2. DOMAIN families' = Names
  BY <1>1 DEF PromInv
<1>3. \A m \in Names : families[m] # None => families'[m] = families[m]
  BY <1>1 DEF PromInv
<1>4. CASE sent' = sent
  BY <1>2, <1>3, <1>4 DEF PromInv, Sent
<1>5. CASE ~Prom!Dropped(n, p) /\ sent' = sent \cup {<<n, Prom!TypeOf(p), Prom!Help(n, help)>>}
  <2>1. PICK x : x = <<n, Prom!TypeOf(p), Prom!Help(n, help)>>
    OBVIOUS
  <2>2. CASE families[n] = None
    <3>1. families'[n] = [type |-> Prom!TypeOf(p), help |-> help] /\ families'[n] # None
      BY <1>1, <2>2 DEF PromInv, PromConstants
    <3>2. Prom!Help(n, help) = help
      BY <2>2 DEF Prom!Help
    <3> QED
      BY <1>2, <1>3, <1>5, <3>1, <3>2 DEF PromInv, Sent
  <2>3. CASE families[n] # None
    <3>1. families'[n] = families[n] /\ families[n].type = Prom!TypeOf(p)
      BY <1>3, <1>5, <2>3 DEF Prom!Dropped
    <3>2. families[n].help # NoHelp => Prom!Help(n, help) = families[n].help
      BY <2>3 DEF Prom!Help
    <3> QED
      BY <1>2, <1>3, <1>5, <2>3, <3>1, <3>2 DEF PromInv, Sent
  <2> QED
    BY <2>2, <2>3
<1> QED
  BY <1>4, <1>5 DEF Prom!Add

\* Whatever is collected in whatever order: what was sent under a name has one type, and
\* one help unless the first was empty.
THEOREM FamilyHasOneType == ASSUME PromConstants PROVE Prom!Spec => []Prom!OneTypePerName
<1>1. Prom!Init => PromInv
  BY DEF Prom!Init, PromInv, Sent
<1>2. ASSUME PromInv, [Prom!Next]_(Prom!vars) PROVE PromInv'
  <2>1. CASE UNCHANGED Prom!vars
    BY <1>2, <2>1 DEF PromInv, Sent, Prom!vars
  <2> QED
    BY <1>2, <2>1, ExportPreserves DEF Prom!Next
<1>3. PromInv => Prom!OneTypePerName
  BY DEF PromInv, Sent, Prom!OneTypePerName
<1> QED
  BY <1>1, <1>2, <1>3, PTL DEF Prom!Spec

\* What the provers do not know of powers of two, and the types of exponential histograms.
BucketConstants ==
  /\ \A d \in Nat : 2^d \in Nat \ {0}
  /\ MaxScale \in Int
  /\ \A p \in Points : p.kind = "exponential" => /\ p.scale \in Int /\ p.buckets.offset \in Int
                                                 /\ p.buckets.counts \in Seq(Nat)
  /\ None \notin Points

\* Division by a positive number rounds down, and keeps the order.
LEMMA DivisionIs ==
  ASSUME NEW x \in Int, NEW w \in Nat \ {0}, NEW q \in Int
  PROVE  x \div w = q <=> q * w <= x /\ x < (q + 1) * w
  OBVIOUS

LEMMA DivisionKeepsOrder ==
  ASSUME NEW x \in Int, NEW y \in Int, x <= y, NEW w \in Nat \ {0}
  PROVE  x \div w \in Int /\ y \div w \in Int /\ x \div w <= y \div w
<1> DEFINE q == x \div w
           r == y \div w
<1>1. q \in Int /\ r \in Int
  OBVIOUS
<1>2. q * w <= x /\ y < (r + 1) * w
  BY <1>1, DivisionIs
<1> HIDE DEF q, r
<1>3. q * w < (r + 1) * w
  <2>1. q * w \in Int /\ (r + 1) * w \in Int
    BY <1>1
  <2> QED
    BY <1>2, <2>1
<1>4. q < r + 1
  BY <1>1, <1>3
<1> QED
  BY <1>1, <1>4 DEF q, r

\* What a bucket covers, of width w: what divided by w gives its number, less one.
LEMMA CoversIs ==
  ASSUME NEW k \in Int, NEW w \in Nat \ {0}, NEW i \in Int
  PROVE  Prom!Covers(k, w, i) <=> i \div w = k - 1
<1>1. i \div w = k - 1 <=> (k - 1) * w <= i /\ i < ((k - 1) + 1) * w
  <2>1. k - 1 \in Int
    OBVIOUS
  <2> QED
    BY <2>1, DivisionIs
<1>2. (k - 1) + 1 = k
  OBVIOUS
<1>3. k * w \in Int /\ (i < k * w <=> i + 1 <= k * w)
  OBVIOUS
<1> QED
  BY <1>1, <1>2, <1>3 DEF Prom!Covers

\* Lowering the resolution keeps what each bucket counted.
LEMMA LoweringIsFaithful ==
  ASSUME BucketConstants, NEW b, b.offset \in Int, b.counts \in Seq(Nat),
         NEW scale \in Int, scale > MaxScale
  PROVE  Prom!Faithful(b, scale, Prom!Native(Prom!Scaled(b, scale)))
<1> DEFINE o == b.offset
           c == b.counts
           d == scale - MaxScale
           w == 2^d
           first == o \div w
           last == (o + Len(c) - 1) \div w
           Merged(j) == {i \in DOMAIN c : (o + i - 1) \div w = first + j - 1}
           down == Prom!Downscale(b, d)
           native == Prom!Native(down)
           Covered(k) == {i \in DOMAIN c : Prom!Covers(k, w, o + i - 1)}
<1>1. d \in Nat /\ w \in Nat \ {0} /\ Len(c) \in Nat /\ DOMAIN c = 1..Len(c)
  BY DEF BucketConstants
<1>2. Prom!Scaled(b, scale) = down
  BY DEF Prom!Scaled
<1>3. SUFFICES /\ \A i \in DOMAIN c : \E k \in DOMAIN native : Prom!Covers(k, w, o + i - 1)
               /\ \A k \in DOMAIN native : native[k] = Prom!MapThenSumSet(LAMBDA i : c[i], Covered(k))
  BY <1>2 DEF Prom!Faithful
<1>0. o \in Int /\ c \in Seq(Nat)
  OBVIOUS
<1>4. CASE c = <<>>
  <2>1. down.counts = <<>>
    BY <1>4 DEF Prom!Downscale
  <2>2. DOMAIN c = {} /\ DOMAIN down.counts = {}
    BY <1>4, <2>1
  <2>3. DOMAIN native = {}
    BY <2>2 DEF Prom!Native
  <2> QED
    BY <2>2, <2>3
<1>5. CASE c # <<>>
  <2>1. /\ down.offset = first /\ DOMAIN down.counts = 1..(last - first + 1)
        /\ \A j \in 1..(last - first + 1) :
             down.counts[j] = Prom!MapThenSumSet(LAMBDA i : c[i], Merged(j))
    BY <1>5 DEF Prom!Downscale, Prom!Shift
  <2>2. first \in Int /\ last \in Int
    <3>1. o + Len(c) - 1 \in Int
      BY <1>0, <1>1
    <3> HIDE DEF w
    <3> QED
      BY <1>0, <1>1, <3>1, DivisionKeepsOrder
  <2> HIDE DEF d, down, o, c
  <2>3. /\ DOMAIN native = {first + j : j \in 1..(last - first + 1)}
        /\ \A k \in DOMAIN native : native[k] = down.counts[k - first]
    BY <2>1 DEF Prom!Native
  <2> HIDE DEF native
  <2>4. ASSUME NEW i \in DOMAIN c PROVE \E k \in DOMAIN native : Prom!Covers(k, w, o + i - 1)
    <3> DEFINE q == (o + i - 1) \div w
    <3>1. i \in Int /\ o <= o + i - 1 /\ o + i - 1 <= o + Len(c) - 1 /\ o + i - 1 \in Int
          /\ o + Len(c) - 1 \in Int
      BY <1>0, <1>1
    <3>2. q \in Int /\ first <= q /\ q <= last
      <4> HIDE DEF w
      <4> QED
        BY <1>0, <1>1, <3>1, DivisionKeepsOrder
    <3> HIDE DEF q, first, last
    <3>2a. o \in Int /\ first \in Int /\ last \in Int
      BY <1>0, <2>2
    <3>3. q - first + 1 \in 1..(last - first + 1) /\ q + 1 = first + (q - first + 1)
      BY <2>2, <3>2
    <3>4. q + 1 \in DOMAIN native
      BY <2>3, <3>3
    <3>5. q + 1 \in Int /\ q = (q + 1) - 1
      BY <3>2
    <3>6. Prom!Covers(q + 1, w, o + i - 1)
      BY <1>1, <3>1, <3>5, CoversIs DEF q
    <3> QED
      BY <3>4, <3>6
  <2>5. ASSUME NEW k \in DOMAIN native PROVE native[k] = Prom!MapThenSumSet(LAMBDA i : c[i], Covered(k))
    <3> HIDE DEF first, last
    <3>1. PICK j \in 1..(last - first + 1) : k = first + j
      BY <2>3
    <3>2. k \in Int /\ k - first = j /\ first + j - 1 = k - 1
      BY <2>2, <3>1
    <3>3. native[k] = Prom!MapThenSumSet(LAMBDA i : c[i], Merged(j))
      BY <2>1, <2>3, <3>1, <3>2
    <3>4. Merged(j) = Covered(k)
      <4> SUFFICES ASSUME NEW i \in DOMAIN c
                   PROVE  (o + i - 1) \div w = first + j - 1 <=> Prom!Covers(k, w, o + i - 1)
        OBVIOUS
      <4>1. o + i - 1 \in Int
        BY <1>0, <1>1
      <4> HIDE DEF w
      <4> QED
        BY <1>1, <3>2, <4>1, CoversIs
    <3> QED
      BY <3>3, <3>4
  <2> QED
    BY <2>4, <2>5
<1> QED
  BY <1>4, <1>5

\* Without lowering it, each native bucket is one bucket.
LEMMA NativeIsFaithful ==
  ASSUME BucketConstants, NEW b, b.offset \in Int, b.counts \in Seq(Nat),
         NEW scale \in Int, ~(scale > MaxScale)
  PROVE  Prom!Faithful(b, scale, Prom!Native(Prom!Scaled(b, scale)))
<1> DEFINE o == b.offset
           c == b.counts
           native == Prom!Native(b)
           Covered(k) == {i \in DOMAIN c : Prom!Covers(k, 1, o + i - 1)}
<1>1. Prom!Scaled(b, scale) = b
  BY DEF Prom!Scaled
<1>2. SUFFICES /\ \A i \in DOMAIN c : \E k \in DOMAIN native : Prom!Covers(k, 1, o + i - 1)
               /\ \A k \in DOMAIN native : native[k] = Prom!MapThenSumSet(LAMBDA i : c[i], Covered(k))
  BY <1>1 DEF Prom!Faithful
<1>3. DOMAIN native = {o + i : i \in DOMAIN c} /\ \A k \in DOMAIN native : native[k] = c[k - o]
  BY DEF Prom!Native
<1>4. o \in Int /\ \A i \in DOMAIN c : i \in Int /\ c[i] \in Int
  OBVIOUS
<1> HIDE DEF o, c
<1>5. \A k, i \in Int : Prom!Covers(k, 1, o + i - 1) <=> k = o + i
  BY <1>4 DEF Prom!Covers
<1> HIDE DEF native
<1>6. ASSUME NEW k \in DOMAIN native
      PROVE  native[k] = Prom!MapThenSumSet(LAMBDA i : c[i], Covered(k))
  <2>1. PICK j \in DOMAIN c : k = o + j
    BY <1>3
  <2>2. k \in Int /\ k - o = j
    BY <1>4, <2>1
  <2>3. Covered(k) = {j}
    <3>1. ASSUME NEW i \in DOMAIN c PROVE Prom!Covers(k, 1, o + i - 1) <=> i = j
      <4>1. i \in Int /\ j \in Int
        BY <1>4
      <4>2. k = o + i <=> i = j
        BY <1>4, <2>1, <4>1
      <4> QED
        BY <1>5, <2>2, <4>1, <4>2
    <3> QED
      BY <3>1
  <2> HIDE DEF Covered
  <2>4. c[j] \in Int
    BY <1>4
  <2>5. Prom!MapThenSumSet(LAMBDA i : c[i], {j}) = c[j]
    <3> DEFINE f == [u \in SUBSET {j} |-> IF u = {} THEN 0 ELSE c[j]]
    <3>1. f = [u \in SUBSET {j} |-> IF u = {} THEN 0
                                    ELSE c[CHOOSE y \in u : TRUE] + f[u \ {CHOOSE y \in u : TRUE}]]
      <4>1. ASSUME NEW u \in SUBSET {j}, u # {}
            PROVE  c[j] = c[CHOOSE y \in u : TRUE] + f[u \ {CHOOSE y \in u : TRUE}]
        <5>1. u = {j} /\ (CHOOSE y \in u : TRUE) = j
          BY <4>1
        <5>2. u \ {j} = {} /\ {} \in SUBSET {j}
          BY <5>1
        <5> QED
          BY <2>4, <5>1, <5>2
      <4> QED
        BY <4>1
    <3> DEFINE g == CHOOSE h : h = [u \in SUBSET {j} |-> IF u = {} THEN 0
                                    ELSE c[CHOOSE y \in u : TRUE] + h[u \ {CHOOSE y \in u : TRUE}]]
    <3>2. g = [u \in SUBSET {j} |-> IF u = {} THEN 0
                                    ELSE c[CHOOSE y \in u : TRUE] + g[u \ {CHOOSE y \in u : TRUE}]]
      <4> HIDE DEF f
      <4> QED
        BY <3>1
    <3>3. g[{j}] = c[j] + g[{}] /\ g[{}] = 0
      <4>1. {j} \in SUBSET {j} /\ {} \in SUBSET {j} /\ {j} # {} /\ (CHOOSE y \in {j} : TRUE) = j
            /\ {j} \ {j} = {}
        OBVIOUS
      <4> HIDE DEF g
      <4> QED
        BY <3>2, <4>1
    <3>4. Prom!MapThenSumSet(LAMBDA i : c[i], {j}) = g[{j}]
      BY DEF Prom!MapThenSumSet, Prom!MapThenFoldSet
    <3> HIDE DEF g
    <3> QED
      BY <2>4, <3>3, <3>4
  <2> QED
    BY <1>3, <2>2, <2>3, <2>5
<1>7. ASSUME NEW i \in DOMAIN c PROVE \E k \in DOMAIN native : Prom!Covers(k, 1, o + i - 1)
  <2>1. o + i \in Int /\ i \in Int /\ o + i \in DOMAIN native
    BY <1>3, <1>4
  <2> QED
    BY <1>5, <2>1
<1> QED
  BY <1>6, <1>7

\* What was sent for the last data point is its data.
PointInv == out # None => point \in Points /\ out.data = Prom!Data(point)

\* Whatever the scale, offset and counts of an exponential histogram: the native buckets
\* count every observation, each in a bucket that covers the one it was in.
THEOREM BucketsKeepWhatTheyCount ==
  ASSUME BucketConstants PROVE Prom!Spec => []Prom!BucketsAreFaithful
<1>1. Prom!Init => PointInv
  BY DEF Prom!Init, PointInv
<1>2. ASSUME PointInv, [Prom!Next]_(Prom!vars) PROVE PointInv'
  <2>1. CASE UNCHANGED Prom!vars
    BY <1>2, <2>1 DEF PointInv, Prom!vars, Prom!Data
  <2>2. ASSUME NEW n \in Names, NEW help \in Helps, NEW p \in Points, Prom!Add(n, help, p)
        PROVE  PointInv'
    <3>1. point' = p /\ out' \in {None, [labels |-> Prom!Labels(p.attrs), data |-> Prom!Data(p)]}
      BY <2>2 DEF Prom!Add
    <3>2. Prom!Data(p)' = Prom!Data(p)
      BY DEF Prom!Data
    <3> QED
      BY <3>1, <3>2 DEF PointInv
  <2> QED
    BY <1>2, <2>1, <2>2 DEF Prom!Next
<1>3. ASSUME PointInv, BucketConstants PROVE Prom!BucketsAreFaithful
  <2> SUFFICES ASSUME out # None, point.kind = "exponential"
               PROVE  Prom!Faithful(point.buckets, point.scale, out.data)
    BY DEF Prom!BucketsAreFaithful
  <2>1. /\ point.scale \in Int /\ point.buckets.offset \in Int /\ point.buckets.counts \in Seq(Nat)
        /\ out.data = Prom!Native(Prom!Scaled(point.buckets, point.scale))
    BY <1>3 DEF PointInv, BucketConstants, Prom!Data
  <2> QED
    BY <1>3, <2>1, LoweringIsFaithful, NativeIsFaithful
<1> QED
  BY <1>1, <1>2, <1>3, PTL DEF Prom!Spec

-----------------------------------------------------------------------------
(***************************************************************************)
(* MetricWindows: the weighted averages. While it warms up the variable one *)
(* is a sum, which lies between as many times values it was given; the mean *)
(* of what lies between such values lies between them.                      *)
(***************************************************************************)
CONSTANTS Samples, Size, Warmup, MaxSamples, MaxTime
VARIABLES window, times, size, sum, simple, var, count, now, seen, given

Windows == INSTANCE MetricWindows

\* The samples are numbers, and there is a warmup.
WindowConstants == Samples \subseteq Int /\ Warmup \in Nat \ {0}

\* Some value given is not above, and some not below: e, or k times e.
Between(e) == (\E v \in given : v <= e) /\ (\E v \in given : v >= e)
SumBetween(k, e) == (\E v \in given : k * v <= e) /\ (\E v \in given : k * v >= e)

AverageInv == /\ given \subseteq Int /\ simple \in Int /\ var \in Int
              /\ count \in Nat /\ count <= Warmup + 1
              /\ simple # 0 => Between(simple)
              /\ count > Warmup => Between(var)
              /\ count = 0 => var = 0
              /\ count > 0 /\ count <= Warmup => SumBetween(count, var)

\* The mean of a value and of one that lies between others lies between all of them.
LEMMA MeanIsBetween ==
  ASSUME NEW v \in Int, NEW e \in Int, NEW S \in SUBSET Int, v \in S,
         \E l \in S : l <= e, \E h \in S : h >= e
  PROVE  /\ Windows!Weighted(v, e) \in Int
         /\ \E l \in S : l <= Windows!Weighted(v, e)
         /\ \E h \in S : h >= Windows!Weighted(v, e)
<1> DEFINE m == (v + e) \div 2
<1>1. m \in Int /\ 2 * m <= v + e /\ v + e < 2 * m + 2
  OBVIOUS
<1>2. PICK l \in S : l <= e
  OBVIOUS
<1>3. PICK h \in S : h >= e
  OBVIOUS
<1> HIDE DEF m
<1>4. l \in Int /\ h \in Int
  OBVIOUS
<1>5. (v <= m \/ l <= m) /\ (v >= m \/ h >= m)
  BY <1>1, <1>2, <1>3, <1>4
<1>6. (\E x \in S : x <= m) /\ (\E x \in S : x >= m)
  BY <1>5
<1> QED
  BY <1>1, <1>6 DEF m, Windows!Weighted

\* A sum of k values between two of S, with one more, is one of k + 1 such values.
LEMMA SumGrows ==
  ASSUME NEW S \in SUBSET Int, NEW v \in S, NEW k \in Nat, NEW e \in Int,
         \E l \in S : k * l <= e, \E h \in S : k * h >= e
  PROVE  (\E l \in S : (k + 1) * l <= e + v) /\ (\E h \in S : (k + 1) * h >= e + v)
<1>1. PICK l \in S : k * l <= e
  OBVIOUS
<1>2. PICK h \in S : k * h >= e
  OBVIOUS
<1>3. v \in Int /\ l \in Int /\ h \in Int /\ k * l \in Int /\ k * h \in Int /\ k * v \in Int
  OBVIOUS
<1>4. /\ (k + 1) * l = k * l + l /\ (k + 1) * h = k * h + h /\ (k + 1) * v = k * v + v
      /\ v <= l => k * v <= k * l
      /\ v >= h => k * v >= k * h
  BY <1>3
<1>5. \/ (k + 1) * l <= e + v
      \/ (k + 1) * v <= e + v
  <2>1. CASE v <= l
    BY <1>1, <1>3, <1>4, <2>1
  <2>2. CASE ~(v <= l)
    BY <1>1, <1>3, <1>4, <2>2
  <2> QED
    BY <2>1, <2>2
<1>6. \/ (k + 1) * h >= e + v
      \/ (k + 1) * v >= e + v
  <2>1. CASE v >= h
    BY <1>2, <1>3, <1>4, <2>1
  <2>2. CASE ~(v >= h)
    BY <1>2, <1>3, <1>4, <2>2
  <2> QED
    BY <2>1, <2>2
<1> QED
  BY <1>5, <1>6

\* The mean of k values lies between what they lie between.
LEMMA MeanOfSum ==
  ASSUME NEW S \in SUBSET Int, NEW k \in Nat \ {0}, NEW e \in Int,
         \E l \in S : k * l <= e, \E h \in S : k * h >= e
  PROVE  /\ e \div k \in Int
         /\ \E l \in S : l <= e \div k
         /\ \E h \in S : h >= e \div k
<1> DEFINE q == e \div k
<1>1. q \in Int /\ q * k <= e /\ e < (q + 1) * k
  OBVIOUS
<1> HIDE DEF q
<1>2. PICK l \in S : k * l <= e
  OBVIOUS
<1>3. PICK h \in S : k * h >= e
  OBVIOUS
<1>4. l <= q
  <2>1. l \in Int /\ k * l \in Int /\ (q + 1) * k \in Int
    BY <1>1
  <2>2. k * l < k * (q + 1)
    BY <1>1, <1>2, <2>1
  <2> QED
    BY <1>1, <2>1, <2>2
<1>5. h >= q
  <2>1. h \in Int /\ k * h \in Int /\ q * k \in Int
    BY <1>1
  <2>2. k * q <= k * h
    BY <1>1, <1>3, <2>1
  <2> QED
    BY <1>1, <2>1, <2>2
<1> QED
  BY <1>1, <1>4, <1>5 DEF q

\* A sample moves an average towards itself.
LEMMA ObservePreserves ==
  ASSUME WindowConstants, AverageInv, NEW v \in Samples, Windows!Observe(v)
  PROVE  AverageInv'
<1>1. /\ simple' = IF simple = 0 THEN v ELSE Windows!Weighted(v, simple)
      /\ var' = CASE count < Warmup -> var + v
                  [] count = Warmup -> Windows!Weighted(v, var \div Warmup)
                  [] OTHER -> Windows!Weighted(v, var)
      /\ count' = IF count <= Warmup THEN count + 1 ELSE count
      /\ given' = given \cup {v}
  BY DEF Windows!Observe, Windows!SimpleAdd, Windows!VariableAdd
<1>2. PICK S : S = given \cup {v}
  OBVIOUS
<1>3. /\ S \in SUBSET Int /\ v \in S /\ v \in Int /\ given \subseteq S /\ given' = S
      /\ Warmup \in Nat \ {0} /\ count \in Nat /\ count <= Warmup + 1 /\ var \in Int /\ simple \in Int
  BY <1>1, <1>2 DEF WindowConstants, AverageInv
<1>4. simple' \in Int /\ (simple' # 0 => Between(simple)')
  <2>1. CASE simple = 0
    BY <1>1, <1>3, <2>1 DEF Between
  <2>2. CASE simple # 0
    <3>1. (\E l \in S : l <= simple) /\ (\E h \in S : h >= simple)
      BY <1>3, <2>2 DEF AverageInv, Between
    <3> QED
      BY <1>1, <1>3, <2>2, <3>1, MeanIsBetween DEF Between
  <2> QED
    BY <2>1, <2>2
<1>5. CASE count < Warmup
  <2>1. var' = var + v /\ count' = count + 1 /\ count' > 0 /\ count' <= Warmup /\ count' \in Nat
    BY <1>1, <1>3, <1>5
  <2>2. (\E l \in S : count * l <= var) /\ (\E h \in S : count * h >= var)
    <3>1. CASE count = 0
      <4>1. count * v = 0 /\ var = 0
        BY <1>3, <3>1 DEF AverageInv
      <4> QED
        BY <1>3, <4>1
    <3>2. CASE count > 0
      BY <1>3, <1>5, <3>2 DEF AverageInv, SumBetween
    <3> QED
      BY <1>3, <3>1, <3>2
  <2>3. (\E l \in S : (count + 1) * l <= var + v) /\ (\E h \in S : (count + 1) * h >= var + v)
    BY <1>3, <2>2, SumGrows
  <2>4. SumBetween(count, var)'
    BY <1>3, <2>1, <2>3 DEF SumBetween
  <2> QED
    BY <1>3, <1>4, <2>1, <2>4 DEF AverageInv
<1>6. CASE count = Warmup
  <2>1. var' = Windows!Weighted(v, var \div Warmup) /\ count' = Warmup + 1
    BY <1>1, <1>3, <1>6
  <2>2. (\E l \in S : Warmup * l <= var) /\ (\E h \in S : Warmup * h >= var)
    BY <1>3, <1>6 DEF AverageInv, SumBetween
  <2>3. var \div Warmup \in Int /\ (\E l \in S : l <= var \div Warmup) /\ (\E h \in S : h >= var \div Warmup)
    BY <1>3, <2>2, MeanOfSum
  <2>4. var' \in Int /\ (\E l \in S : l <= var') /\ (\E h \in S : h >= var')
    BY <1>3, <2>1, <2>3, MeanIsBetween
  <2> QED
    BY <1>3, <1>4, <2>1, <2>4 DEF AverageInv, Between
<1>7. CASE count > Warmup
  <2>1. var' = Windows!Weighted(v, var) /\ count' = count
    BY <1>1, <1>3, <1>7
  <2>2. (\E l \in S : l <= var) /\ (\E h \in S : h >= var)
    BY <1>3, <1>7 DEF AverageInv, Between
  <2>3. var' \in Int /\ (\E l \in S : l <= var') /\ (\E h \in S : h >= var')
    BY <1>3, <2>1, <2>2, MeanIsBetween
  <2> QED
    BY <1>3, <1>4, <1>7, <2>1, <2>3 DEF AverageInv, Between
<1> QED
  BY <1>3, <1>5, <1>6, <1>7

\* Whatever the samples and however many, and whenever an average is set: once it is ready it
\* lies between the values it was given.
THEOREM AveragesBetween ==
  ASSUME WindowConstants PROVE Windows!Spec => []Windows!AveragesLieBetween
<1>1. Windows!Init => AverageInv
  BY DEF Windows!Init, AverageInv, WindowConstants
<1>2. ASSUME AverageInv, [Windows!Next]_(Windows!vars) PROVE AverageInv'
  <2>1. ASSUME NEW v \in Samples, Windows!Set(v) PROVE AverageInv'
    <3>1. /\ simple' = v /\ var' = v /\ given' = given \cup {v} /\ v \in Int
          /\ count' = IF count <= Warmup THEN Warmup + 1 ELSE count
      BY <2>1 DEF Windows!Set, WindowConstants
    <3>2. count' \in Nat /\ count' = Warmup + 1 /\ given' \subseteq Int /\ v \in given' /\ v <= v /\ v >= v
      BY <1>2, <3>1 DEF AverageInv, WindowConstants
    <3>3. Between(simple)' /\ Between(var)'
      BY <3>1, <3>2 DEF Between
    <3>4. count' # 0 /\ ~(count' <= Warmup) /\ count' <= Warmup + 1
      BY <3>2 DEF WindowConstants
    <3> QED
      BY <3>1, <3>2, <3>3, <3>4 DEF AverageInv
  <2>2. CASE Windows!Tick \/ UNCHANGED Windows!vars
    BY <1>2, <2>2 DEF Windows!Tick, Windows!vars, AverageInv, Between, SumBetween
  <2> QED
    BY <1>2, <2>1, <2>2, ObservePreserves DEF Windows!Next
<1>3. AverageInv => Windows!AveragesLieBetween
  BY DEF AverageInv, Between, Windows!AveragesLieBetween, Windows!VariableValue, WindowConstants
<1> QED
  BY <1>1, <1>2, <1>3, PTL DEF Windows!Spec

=============================================================================
