---------------------------- MODULE PartitionMap ----------------------------
(***************************************************************************)
(* partmap: partitions are ranges of a space of 32-bit hashes, numbered by     *)
(* 16-bit indexes.  An assignment of partitions to nodes is published as a     *)
(* mapping of range starts, and read back by those who route by hash.          *)
(***************************************************************************)
EXTENDS Integers, FiniteSets

CONSTANTS Space, Indexes,   \* 2^32 and 2^16 in the code
          Nodes             \* node indexes
ASSUME WidthAssumption == /\ Space \in Nat /\ Indexes \in Nat /\ 0 < Indexes
                          /\ Indexes * Indexes <= Space
ASSUME NodesAssumption == Nodes \subseteq Nat

VARIABLES numPartitions, assigned   \* a PartitionIndexMapping
vars == <<numPartitions, assigned>>

At(m, k) == IF k \in DOMAIN m THEN m[k] ELSE 0   \* the zero value of a missing key

Window(n) == Space \div n
RangeStart(i, n) == (i * Window(n)) % Space

\* Conversions; None is an error.
None == -1
NoMapping == [i \in {None} |-> None]
ToPartitionMapping(pim, n) ==
    CASE n = 0 -> NoMapping
      [] n = 1 -> IF Cardinality(DOMAIN pim) # 1 THEN NoMapping ELSE [s \in {0} |-> At(pim, 0)]
      [] OTHER -> [s \in {RangeStart(i, n) : i \in DOMAIN pim} |->
                      pim[CHOOSE i \in DOMAIN pim : RangeStart(i, n) = s]]
Aligned(s, n) == s % Window(n) = 0
\* Fault: the index is that of the nearest range.
Index_Nearest(s, n) == ((s + Window(n) \div 2) \div Window(n)) % Indexes
Index(s, n) == (s \div Window(n)) % Indexes
ToPartitionIndexMapping(pm, n) ==
    CASE n = 0 -> NoMapping
      [] n = 1 -> IF Cardinality(DOMAIN pm) # 1 THEN NoMapping ELSE [i \in {0} |-> At(pm, 0)]
      [] OTHER -> IF \E s \in DOMAIN pm : ~Aligned(s, n) THEN NoMapping
                  ELSE [i \in {Index(s, n) : s \in DOMAIN pm} |->
                           pm[CHOOSE s \in DOMAIN pm : Index(s, n) = i]]
ToPartitionRangeStart(i, n) ==
    CASE n = 0 -> None [] n = 1 -> 0
      [] OTHER -> IF i >= n % Indexes THEN None ELSE RangeStart(i, n)
ToPartitionIndex(s, n) == CASE n = 0 -> None [] n = 1 -> 0 [] OTHER -> Index(s, n)

Init == numPartitions \in 1..Indexes /\ assigned = [i \in {} |-> 0]
Assign(i, node) ==
    /\ assigned' = [j \in DOMAIN assigned \cup {i} |-> IF j = i THEN node ELSE assigned[j]]
    /\ UNCHANGED numPartitions
Next == \E i \in 0..(numPartitions - 1), node \in Nodes : Assign(i, node)
Spec == Init /\ [][Next]_vars

-----------------------------------------------------------------------------
\* What is published reads as it was assigned.
ReadsBack == DOMAIN assigned # {} =>
    ToPartitionIndexMapping(ToPartitionMapping(assigned, numPartitions), numPartitions) = assigned
\* An index is the index of the start of its range (if there are fewer partitions than
\* indexes: with 65536 ToPartitionRangeStart refuses every index).
OwnIndex == numPartitions < Indexes =>
    \A i \in 0..(numPartitions - 1) :
        ToPartitionIndex(ToPartitionRangeStart(i, numPartitions), numPartitions) = i
\* A hash is routed to the partition whose range it is in or, if it is in none, as at the end
\* of a space that the partitions do not divide, to an index that no partition has.
HashRouted ==
    LET n == numPartitions
        RangeOf(i) == LET s == ToPartitionRangeStart(i, n) IN s..(s + Window(n) - 1)
    IN  n \in 2..(Indexes - 1) =>
          \A h \in 0..(Space - 1) :
             LET i == ToPartitionIndex(h, n) IN
             IF h < n * Window(n) THEN i < n /\ h \in RangeOf(i) ELSE i >= n
RoutesAsAssigned == ReadsBack /\ OwnIndex /\ HashRouted
=============================================================================
