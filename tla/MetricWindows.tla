---------------------------- MODULE MetricWindows ----------------------------
(***************************************************************************)
(* stats/metric: the simple moving average and the tracker of percentiles,  *)
(* two rings of the last values (sma.go, percentile.go), and the weighted   *)
(* averages (ewma.go), all fed with the same samples.  Every operation is   *)
(* one step under a mutex.  A decay of one half keeps the values integers.  *)
(***************************************************************************)
EXTENDS Integers, Sequences, FiniteSets, SequencesExt, Functions

CONSTANTS Samples,            \* multiples of 2^MaxSamples
          Size,               \* of the rings
          Warmup,             \* WARMUP_SAMPLES
          MaxSamples, MaxTime

VARIABLES window, times, index, size, sum,     \* the rings
          simple,                              \* SimpleEWMA.value
          var, count,                          \* VariableEWMA: value and count
          now,
          seen, given        \* history: the <<value, time>> observed; all the averages got

vars == <<window, times, index, size, sum, simple, var, count, now, seen, given>>

Init == /\ window = [i \in 0..Size - 1 |-> 0] /\ times = window
        /\ index = 0 /\ size = 0 /\ sum = 0
        /\ simple = 0 /\ var = 0 /\ count = 0
        /\ now = 0 /\ seen = <<>> /\ given = {}

Weighted(value, average) == (value + average) \div 2

SimpleAdd(v) == IF simple = 0 THEN v ELSE Weighted(v, simple)

\* The sum of the first samples becomes their mean with the sample after them.
VariableAdd(v) == CASE count < Warmup -> var + v
                    [] count = Warmup -> Weighted(v, var \div Warmup)
                    [] OTHER -> Weighted(v, var)

RingNext(i) == (i + 1) % Size

Observe(v) == /\ Len(seen) < MaxSamples
              /\ sum' = sum - window[index] + v
              /\ window' = [window EXCEPT ![index] = v]
              /\ times' = [times EXCEPT ![index] = now]
              /\ index' = RingNext(index)
              /\ size' = IF size < Size THEN size + 1 ELSE size
              /\ simple' = SimpleAdd(v)
              /\ var' = VariableAdd(v)
              /\ count' = IF count <= Warmup THEN count + 1 ELSE count
              /\ seen' = Append(seen, <<v, now>>)
              /\ given' = given \cup {v}
              /\ UNCHANGED now

\* Set of the weighted averages makes them ready.
Set(v) == /\ simple' = v /\ var' = v
          /\ count' = IF count <= Warmup THEN Warmup + 1 ELSE count
          /\ given' = given \cup {v}
          /\ UNCHANGED <<window, times, index, size, sum, now, seen>>

Tick == now < MaxTime /\ now' = now + 1
        /\ UNCHANGED <<window, times, index, size, sum, simple, var, count, seen, given>>

Next == Tick \/ \E v \in Samples : Observe(v) \/ Set(v)
Spec == Init /\ [][Next]_vars

\* sma.Load: a sum and by how many to divide it.
Load == <<sum, size>>

VariableValue == IF count <= Warmup THEN 0 ELSE var

\* The rank of the percentile among n values, counted from 0.
Rank(p, n) == LET r == (p * n + 99) \div 100 - 1
              IN IF r < 0 THEN 0 ELSE IF r >= n THEN n - 1 ELSE r

\* The values stamped at or after the cutoff.
Recent(w) == SelectSeq([i \in 1..size |-> <<window[i - 1], times[i - 1]>>],
                       LAMBDA x : x[2] >= now - w)

Percentile(p, w) ==
    IF p < 0 \/ p > 100 \/ w <= 0 \/ Recent(w) = <<>> THEN <<0, FALSE>>
    ELSE <<SortSeq(Recent(w), LAMBDA a, b : a[1] < b[1])[Rank(p, Len(Recent(w))) + 1][1], TRUE>>

-----------------------------------------------------------------------------
Held == SubSeq(seen, Len(seen) - size + 1, Len(seen))
SumOf(s) == FoldFunction(LAMBDA x, y : x[1] + y, 0, s)

\* The least value that p percent of those observed in the window do not exceed.
IsPercentile(x, p, w) ==
    LET S == {i \in DOMAIN Held : Held[i][2] >= now - w}
        AtMost(y) == Cardinality({i \in S : Held[i][1] <= y})
        Enough(y) == AtMost(y) * 100 >= p * Cardinality(S)
    IN \E i \in S : Held[i][1] = x /\ Enough(x) /\ \A j \in S : Held[j][1] < x => ~Enough(Held[j][1])

\* A weighted average, once it is ready, lies between the values it was given.
AveragesLieBetween ==
    \A e \in {simple, VariableValue} \ {0} : /\ \E v \in given : v <= e
                                             /\ \E v \in given : v >= e

\* The rings hold the last samples: the average is their mean and a percentile the
\* nearest rank among those of its window.
WindowsAreRight ==
    /\ size = IF Len(seen) < Size THEN Len(seen) ELSE Size
    /\ Load[1] = SumOf(Held)
    /\ \A p \in {0, 34, 50, 75, 100}, w \in 1..MaxTime :
         LET r == Percentile(p, w) IN
         IF r[2] THEN IsPercentile(r[1], p, w) ELSE \A i \in DOMAIN Held : Held[i][2] < now - w
    /\ AveragesLieBetween
=============================================================================
