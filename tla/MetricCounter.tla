---------------------------- MODULE MetricCounter ----------------------------
(***************************************************************************)
(* stats/metric/counter.go, gauge.go: a counter keeps its whole additions   *)
(* and the sum of the others in two words, a gauge all in one; goroutines   *)
(* change them with atomic operations.  Values are counted in halves.       *)
(***************************************************************************)
EXTENDS Integers

CONSTANTS Threads, Values     \* Values: what may be added or set, in halves

VARIABLES bits, int,          \* the words of the counter
          gauge,              \* the word of the gauge
          pc, op,             \* where each goroutine is, and its operation
          old,                \* the word a goroutine read
          total, level,       \* history: what was added; the gauge by its operations
          low                 \* history: total when Value was called

vars == <<bits, int, gauge, pc, op, old, total, level, low>>

\* Inc, Dec and Sub are additions; the counter panics on a negative one.
Ops == [name : {"Add"}, v : {x \in Values : x >= 0}] \cup [name : {"Value"}, v : {0}]
         \cup [name : {"GaugeAdd", "GaugeSet"}, v : Values]

Init == /\ bits = 0 /\ int = 0 /\ gauge = 0 /\ total = 0 /\ level = 0
        /\ op \in [Threads -> Ops]
        /\ pc = [t \in Threads |-> "call"]
        /\ old = [t \in Threads |-> 0]
        /\ low = [t \in Threads |-> 0]

Goto(t, l) == pc' = [pc EXCEPT ![t] = l]
Is(t, l, name) == pc[t] = l /\ op[t].name = name

AddWhole(t) == /\ Is(t, "call", "Add") /\ op[t].v % 2 = 0
               /\ int' = int + op[t].v /\ total' = total + op[t].v
               /\ Goto(t, "done")
               /\ UNCHANGED <<bits, gauge, op, old, level, low>>

\* The first load of Add, of Value and of the gauge's Add.
LoadBits(t) == /\ \/ Is(t, "call", "Add") /\ op[t].v % 2 # 0
                  \/ Is(t, "call", "Value")
               /\ old' = [old EXCEPT ![t] = bits]
               /\ low' = [low EXCEPT ![t] = total]
               /\ Goto(t, "loaded")
               /\ UNCHANGED <<bits, int, gauge, op, total, level>>

LoadGauge(t) == /\ Is(t, "call", "GaugeAdd")
                /\ old' = [old EXCEPT ![t] = gauge]
                /\ Goto(t, "loaded")
                /\ UNCHANGED <<bits, int, gauge, op, total, level, low>>

\* CompareAndSwapUint64: whether the word is still the one that was read.
Swaps(t, word) == word = old[t]

SwapBits(t) == /\ Is(t, "loaded", "Add")
               /\ IF Swaps(t, bits)
                  THEN bits' = old[t] + op[t].v /\ total' = total + op[t].v /\ Goto(t, "done")
                  ELSE UNCHANGED <<bits, total>> /\ Goto(t, "call")
               /\ UNCHANGED <<int, gauge, op, old, level, low>>

SwapGauge(t) == /\ Is(t, "loaded", "GaugeAdd")
                /\ IF Swaps(t, gauge)
                   THEN gauge' = old[t] + op[t].v /\ level' = level + op[t].v /\ Goto(t, "done")
                   ELSE UNCHANGED <<gauge, level>> /\ Goto(t, "call")
                /\ UNCHANGED <<bits, int, op, old, total, low>>

SetGauge(t) == /\ Is(t, "call", "GaugeSet")
               /\ gauge' = op[t].v /\ level' = op[t].v
               /\ Goto(t, "done")
               /\ UNCHANGED <<bits, int, op, old, total, low>>

\* Value returns the sum of what it read at two moments: old is now the result.
LoadInt(t) == /\ Is(t, "loaded", "Value")
              /\ old' = [old EXCEPT ![t] = @ + int]
              /\ Goto(t, "done")
              /\ UNCHANGED <<bits, int, gauge, op, total, level, low>>

Next == \E t \in Threads : \/ AddWhole(t) \/ LoadBits(t) \/ SwapBits(t) \/ LoadInt(t)
                           \/ LoadGauge(t) \/ SwapGauge(t) \/ SetGauge(t)

Spec == Init /\ [][Next]_vars

-----------------------------------------------------------------------------
\* No addition is lost or made twice, the gauge is what its operations one after
\* the other make of it, and Value returns no less than the counter held when it
\* was called and no more than it holds when it returns.
NothingLost ==
    /\ bits + int = total /\ gauge = level
    /\ \A t \in Threads : Is(t, "done", "Value") => low[t] <= old[t] /\ old[t] <= total
=============================================================================
