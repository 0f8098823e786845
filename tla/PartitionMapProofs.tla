------------------------- MODULE PartitionMapProofs -------------------------
(***************************************************************************)
(* That the arithmetic of partition ranges is right for every width of the *)
(* hashes and of the indexes and every number of partitions, of which the  *)
(* runs try a few.  All rests on one fact: the starts of the windows lie   *)
(* in the space, so that no conversion wraps and each can be undone.       *)
(***************************************************************************)
EXTENDS PartitionMap, FiniteSetTheorems, TLAPS

TypeOK == /\ numPartitions \in 1..Indexes
          /\ DOMAIN assigned \subseteq 0..(numPartitions - 1)
          /\ assigned = [i \in DOMAIN assigned |-> assigned[i]]

-----------------------------------------------------------------------------
\* Division by a positive number, as one fact.
LEMMA Division ==
  ASSUME NEW a \in Nat, NEW b \in Nat, 0 < b
  PROVE  /\ a \div b \in Nat /\ a % b \in Nat /\ a % b < b
         /\ a = b * (a \div b) + (a % b)
  BY SMT

\* The multiple that a division undoes.
LEMMA Multiple ==
  ASSUME NEW i \in Nat, NEW w \in Nat, 0 < w
  PROVE  (i * w) \div w = i /\ (i * w) % w = 0
  BY SMT

\* A number below the modulus is its own remainder.
LEMMA Below ==
  ASSUME NEW a \in Nat, NEW b \in Nat, a < b
  PROVE  a % b = a
  BY SMT

\* The larger factor gives the larger product.
LEMMA Monotone ==
  ASSUME NEW i \in Nat, NEW n \in Nat, NEW w \in Nat, i + 1 <= n
  PROVE  i * w + w <= n * w
<1>1. n * w = (i + 1) * w + (n - (i + 1)) * w
  BY SMT
<1>2. (i + 1) * w = i * w + w
  BY SMT
<1>3. (n - (i + 1)) * w >= 0
  BY SMT
<1> QED
  BY <1>1, <1>2, <1>3, SMT

\* The windows have a length, and n of them fit in the space.
LEMMA Windows ==
  ASSUME NEW n \in 1..Indexes
  PROVE  /\ n \in Nat /\ Window(n) \in Nat /\ 0 < Window(n)
         /\ n * Window(n) \in Nat /\ n * Window(n) <= Space
         /\ Space = n * Window(n) + (Space % n)
<1>1. n \in Nat /\ 0 < n /\ n <= Space /\ Space \in Nat
  <2>1. Indexes \in Nat /\ 0 < Indexes /\ Indexes * Indexes <= Space /\ Space \in Nat
    BY WidthAssumption
  <2>2. Indexes <= Indexes * Indexes /\ Indexes * Indexes \in Nat
    BY <2>1, SMT
  <2> QED
    BY <2>1, <2>2
<1>2. /\ Window(n) \in Nat /\ Space % n \in Nat /\ Space % n < n
      /\ Space = n * Window(n) + (Space % n)
  BY <1>1, Division DEF Window
<1>3. n * Window(n) \in Nat
  BY <1>1, <1>2, SMT
<1>4. 0 < Window(n)
  BY <1>1, <1>2, SMT
<1> QED
  BY <1>1, <1>2, <1>3, <1>4, SMT

\* The start of a range lies in the space, a window before the next one.
LEMMA Starts ==
  ASSUME NEW n \in 1..Indexes, NEW i \in 0..(n - 1)
  PROVE  /\ i \in Nat /\ i < Indexes
         /\ RangeStart(i, n) = i * Window(n)
         /\ RangeStart(i, n) \in Nat
         /\ Aligned(RangeStart(i, n), n)
         /\ Index(RangeStart(i, n), n) = i
<1> DEFINE w == Window(n)
<1>1. n \in Nat /\ w \in Nat /\ 0 < w /\ n * w \in Nat /\ n * w <= Space /\ Space \in Nat
  BY Windows, WidthAssumption
<1>2. i \in Nat /\ i + 1 <= n /\ i < Indexes /\ Indexes \in Nat
  BY <1>1, WidthAssumption
<1> HIDE DEF w
<1>3. i * w + w <= n * w
  BY <1>1, <1>2, Monotone
<1>4. i * w \in Nat
  BY <1>1, <1>2, SMT
<1>5. i * w < Space
  BY <1>1, <1>3, <1>4
<1>6. (i * w) % Space = i * w
  BY <1>1, <1>4, <1>5, Below
<1>7. (i * w) \div w = i /\ (i * w) % w = 0
  BY <1>1, <1>2, Multiple
<1>8. i % Indexes = i
  BY <1>2, Below
<1> QED
  BY <1>2, <1>4, <1>6, <1>7, <1>8 DEF RangeStart, Aligned, Index, w

-----------------------------------------------------------------------------
\* Assigning keeps the type, and the number of partitions.
LEMMA TypeInvariant == Spec => []TypeOK
<1>1. Init => TypeOK
  BY DEF Init, TypeOK
<1>2. TypeOK /\ [Next]_vars => TypeOK'
  <2> SUFFICES ASSUME TypeOK, [Next]_vars PROVE TypeOK'
    OBVIOUS
  <2>1. CASE UNCHANGED vars
    BY <2>1 DEF vars, TypeOK
  <2>2. ASSUME NEW i \in 0..(numPartitions - 1), NEW node \in Nodes, Assign(i, node)
        PROVE  TypeOK'
    BY <2>2 DEF TypeOK, Assign
  <2> QED
    BY <2>1, <2>2 DEF Next
<1> QED
  BY <1>1, <1>2, PTL DEF Spec

\* Each index is that of the start of its range.
LEMMA IndexOfStart == TypeOK => OwnIndex
<1> SUFFICES ASSUME TypeOK, numPartitions < Indexes, NEW i \in 0..(numPartitions - 1)
             PROVE  ToPartitionIndex(ToPartitionRangeStart(i, numPartitions), numPartitions) = i
  BY DEF OwnIndex
<1> DEFINE n == numPartitions
<1>1. n \in 1..Indexes /\ n \in Nat /\ n # 0 /\ Indexes \in Nat
  BY WidthAssumption DEF TypeOK
<1>2. CASE n = 1
  BY <1>1, <1>2 DEF ToPartitionIndex
<1>3. CASE n # 1
  <2>1. n % Indexes = n
    BY <1>1, Below
  <2>2. ToPartitionRangeStart(i, n) = RangeStart(i, n)
    BY <1>1, <1>3, <2>1 DEF ToPartitionRangeStart
  <2>3. Index(RangeStart(i, n), n) = i
    BY <1>1, Starts
  <2> QED
    BY <1>1, <1>3, <2>2, <2>3 DEF ToPartitionIndex
<1> QED
  BY <1>2, <1>3

\* The one mapping of one partition.
LEMMA ReadsBackOne ==
  ASSUME TypeOK, numPartitions = 1, DOMAIN assigned # {}
  PROVE  ToPartitionIndexMapping(ToPartitionMapping(assigned, 1), 1) = assigned
<1>1. DOMAIN assigned = {0}
  <2>1. 0..(numPartitions - 1) = {0}
    OBVIOUS
  <2> QED
    BY <2>1 DEF TypeOK
<1>2. Cardinality({0}) = 1
  BY FS_Singleton
<1> DEFINE pm == [s \in {0} |-> At(assigned, 0)]
<1>3. ToPartitionMapping(assigned, 1) = pm
  BY <1>1, <1>2 DEF ToPartitionMapping
<1>4. ToPartitionIndexMapping(pm, 1) = [i \in {0} |-> At(pm, 0)]
  BY <1>2 DEF ToPartitionIndexMapping
<1>5. At(pm, 0) = assigned[0]
  BY <1>1 DEF At
<1> QED
  BY <1>1, <1>3, <1>4, <1>5 DEF TypeOK

\* With more, no two partitions have one start, and the index of the start is the index.
LEMMA ReadsBackMany ==
  ASSUME TypeOK, numPartitions # 1
  PROVE  ToPartitionIndexMapping(ToPartitionMapping(assigned, numPartitions), numPartitions)
            = assigned
<1> DEFINE n == numPartitions
           D == DOMAIN assigned
           Start(i) == RangeStart(i, n)
           pm == [s \in {Start(i) : i \in D} |-> assigned[CHOOSE i \in D : Start(i) = s]]
<1>1. n \in 1..Indexes /\ n # 0 /\ n # 1 /\ D \subseteq 0..(n - 1)
  BY WidthAssumption DEF TypeOK
<1>2. \A i \in D : Aligned(Start(i), n) /\ Index(Start(i), n) = i
  BY <1>1, Starts
<1> HIDE DEF Start
<1>3. \A i \in D : pm[Start(i)] = assigned[i]
  <2> SUFFICES ASSUME NEW i \in D PROVE pm[Start(i)] = assigned[i]
    OBVIOUS
  <2> DEFINE j == CHOOSE j \in D : Start(j) = Start(i)
  <2>1. j \in D /\ Start(j) = Start(i)
    OBVIOUS
  <2>2. j = i
    BY <2>1, <1>2
  <2>3. pm[Start(i)] = assigned[j]
    OBVIOUS
  <2> QED
    BY <2>2, <2>3
<1>4. ToPartitionMapping(assigned, n) = pm
  BY <1>1 DEF ToPartitionMapping, Start
<1> HIDE DEF n
<1>5. DOMAIN pm = {Start(i) : i \in D}
  OBVIOUS
<1> HIDE DEF pm
<1>6. \A s \in DOMAIN pm : Aligned(s, n)
  BY <1>2, <1>5
<1> DEFINE back == [i \in {Index(s, n) : s \in DOMAIN pm} |->
                      pm[CHOOSE s \in DOMAIN pm : Index(s, n) = i]]
<1>7. ToPartitionIndexMapping(pm, n) = back
  BY <1>1, <1>6 DEF ToPartitionIndexMapping
<1>8. {Index(s, n) : s \in DOMAIN pm} = D
  BY <1>2, <1>5
<1>9. \A i \in D : back[i] = assigned[i]
  <2> SUFFICES ASSUME NEW i \in D PROVE back[i] = assigned[i]
    OBVIOUS
  <2> DEFINE s == CHOOSE s \in DOMAIN pm : Index(s, n) = i
  <2>1. s \in DOMAIN pm /\ Index(s, n) = i
    BY <1>2, <1>5
  <2>2. s = Start(i)
    BY <2>1, <1>2, <1>5
  <2>3. back[i] = pm[s]
    BY <1>8
  <2> QED
    BY <2>2, <2>3, <1>3
<1>10. back = [i \in D |-> assigned[i]]
  BY <1>8, <1>9
<1> QED
  BY <1>4, <1>7, <1>10 DEF TypeOK, n

\* What is left of the space after n windows is shorter than a window.
LEMMA RestIsShort ==
  ASSUME NEW n \in 1..Indexes, n < Indexes
  PROVE  Space < n * Window(n) + Window(n)
<1> DEFINE w == Window(n)
<1>1. /\ n \in Nat /\ 0 < n /\ w \in Nat /\ n * w \in Nat /\ Space \in Nat /\ Indexes \in Nat
      /\ Space = n * w + (Space % n) /\ Indexes * Indexes <= Space
  BY WidthAssumption, Windows
<1>2. Space % n \in Nat /\ Space % n < n
  BY <1>1, Division
<1> HIDE DEF w
<1>3. n <= w
  <2> SUFFICES ASSUME w + 1 <= n PROVE FALSE
    BY <1>1
  <2>1. n * w + n = n * (w + 1)
    BY <1>1, SMT
  <2>2. n * (w + 1) <= n * n
    BY <1>1, SMT
  <2>3. n * n <= Indexes * Indexes
    BY <1>1, SMT
  <2>4. n * n \in Nat /\ Indexes * Indexes \in Nat /\ n * (w + 1) \in Nat
    BY <1>1, SMT
  <2> QED
    BY <1>1, <1>2, <2>1, <2>2, <2>3, <2>4
<1>4. Space < n * w + w
  BY <1>1, <1>2, <1>3
<1> QED
  BY <1>4 DEF w

\* A hash below n windows is in the window of its quotient; the quotient of a later one is n,
\* which is an index.
LEMMA Routed == TypeOK => HashRouted
<1> DEFINE n == numPartitions
           w == Window(n)
           RangeOf(j) == LET s == ToPartitionRangeStart(j, n) IN s..(s + Window(n) - 1)
<1> SUFFICES ASSUME TypeOK, n \in 2..(Indexes - 1), NEW h \in 0..(Space - 1)
             PROVE  IF h < n * w
                    THEN ToPartitionIndex(h, n) < n /\ h \in RangeOf(ToPartitionIndex(h, n))
                    ELSE ToPartitionIndex(h, n) >= n
  BY DEF HashRouted
<1> DEFINE i == h \div w
<1>1. /\ n \in 1..Indexes /\ n \in Nat /\ n < Indexes /\ n # 0 /\ n # 1
      /\ Indexes \in Nat /\ Space \in Nat
  BY WidthAssumption DEF TypeOK
<1>2. /\ w \in Nat /\ 0 < w /\ n * w \in Nat /\ n * w <= Space /\ Space < n * w + w
  BY <1>1, Windows, RestIsShort
<1>3. h \in Nat /\ h < Space
  BY <1>1
<1>a. \A j \in 0..(n - 1) : RangeOf(j) = (j * w)..(j * w + w - 1)
  <2> SUFFICES ASSUME NEW j \in 0..(n - 1) PROVE ToPartitionRangeStart(j, n) = j * w
    OBVIOUS
  <2>1. RangeStart(j, n) = j * w
    BY <1>1, Starts
  <2>2. n % Indexes = n /\ ~(j >= n)
    BY <1>1, Below
  <2> QED
    BY <1>1, <2>1, <2>2 DEF ToPartitionRangeStart
<1> HIDE DEF w, n, RangeOf
<1>4. i \in Nat /\ h % w \in Nat /\ h % w < w /\ h = w * i + (h % w)
  BY <1>2, <1>3, Division
<1>5. w * i = i * w /\ i * w \in Nat
  BY <1>2, <1>4, SMT
<1> HIDE DEF i
<1>6. i <= n
  <2> SUFFICES ASSUME n + 1 <= i PROVE FALSE
    BY <1>1, <1>4
  <2>1. n * w + w <= i * w
    BY <1>1, <1>2, <1>4, Monotone
  <2> QED
    BY <2>1, <1>1, <1>2, <1>3, <1>4, <1>5
<1>7. ToPartitionIndex(h, n) = i
  <2>1. i % Indexes = i
    BY <1>1, <1>4, <1>6, Below
  <2> QED
    BY <1>1, <2>1 DEF ToPartitionIndex, Index, i, w
<1>8. CASE h < n * w
  <2>1. i < n
    <3> SUFFICES ASSUME n <= i PROVE FALSE
      BY <1>1, <1>4
    <3>1. n * w <= i * w
      BY <1>1, <1>2, <1>4, SMT
    <3> QED
      BY <3>1, <1>2, <1>3, <1>4, <1>5, <1>8
  <2>2. h \in (i * w)..(i * w + w - 1)
    BY <1>2, <1>3, <1>4, <1>5
  <2>3. RangeOf(i) = (i * w)..(i * w + w - 1)
    BY <1>1, <1>4, <1>a, <2>1
  <2> QED
    BY <1>7, <1>8, <2>1, <2>2, <2>3
<1>9. CASE ~(h < n * w)
  <2>1. i >= n
    <3> SUFFICES ASSUME i + 1 <= n PROVE FALSE
      BY <1>1, <1>4
    <3>1. i * w + w <= n * w
      BY <1>1, <1>2, <1>4, Monotone
    <3> QED
      BY <3>1, <1>2, <1>3, <1>4, <1>5, <1>9
  <2> QED
    BY <1>7, <1>9, <2>1
<1> QED
  BY <1>8, <1>9

-----------------------------------------------------------------------------
\* Whatever is assigned, for every width of hashes and indexes and every number of
\* partitions: what partmap publishes is read back as it was, every index has its own
\* range, and a hash is routed to the partition whose range it is in, or to an index that
\* no partition has.
THEOREM RoutingCorrect == Spec => []RoutesAsAssigned
<1>1. TypeOK => RoutesAsAssigned
  <2>1. ASSUME TypeOK PROVE ReadsBack
    BY <2>1, ReadsBackOne, ReadsBackMany DEF ReadsBack
  <2> QED
    BY <2>1, IndexOfStart, Routed DEF RoutesAsAssigned
<1> QED
  BY <1>1, TypeInvariant, PTL
=============================================================================
