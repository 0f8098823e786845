------------------------- MODULE ResourceCacheProofs -------------------------
(***************************************************************************)
(* Proofs about ResourceCache, in three layers, each on top of the one     *)
(* before it:                                                              *)
(*                                                                         *)
(*   Records   the counts of checkouts are exact; with it, where each      *)
(*             goroutine is in its call, which locks it has, and that an   *)
(*             id is met only under its own key;                           *)
(*   InPlace   an id that was not overtaken is in one place at a time      *)
(*             (StageOf), and whoever has it, or has found it, finds it in *)
(*             the maps;                                                   *)
(*   NoneLost  an id that was neither cleaned up nor replaced is in one of *)
(*             those places.                                               *)
(*                                                                         *)
(* None of them says anything of the clock but that it does not go back.   *)
(*                                                                         *)
(* They rest on lemmas about the operators of TTLList: what Add, Without,  *)
(* PutNode and Refresh do to the nodes of a list, to its order and to the  *)
(* uniqueness of its keys.  With the same lemmas the pointers of CacheTTL  *)
(* are proved to be such a list.                                           *)
(***************************************************************************)
EXTENDS ResourceCache, FiniteSetTheorems, SequenceTheorems, TLAPS

\* The nodes of a list.
In(s) == {s[i] : i \in DOMAIN s}

\* A key has one node.
Distinct(s) == \A i, j \in DOMAIN s : s[i].key = s[j].key => i = j

\* The lowest expiration is at the head.
Sorted(s) == \A i, j \in DOMAIN s : i < j => s[i].expiration <= s[j].expiration

Nodes == [key : Keys, value : Resources \cup {NoRes}, ttl : Int, expiration : Int]

\* The types, without the bounds that follow from the rest.
Typed == /\ now \in 0..MaxTime
         /\ keyMu \in [Keys -> Threads \cup {NoThread}]
         /\ tmu \in Threads \cup {NoThread} /\ cmu \in Threads \cup {NoThread}
         /\ list \in Seq(Nodes) /\ Distinct(list) /\ Sorted(list)
         /\ resources \subseteq Resources /\ expiries \subseteq Resources
         /\ checkouts \in [Resources -> Int]
         /\ pc \in [Threads -> Labels]
         /\ call \in [Threads -> {"checkout", "invalidate"}]
         /\ karg \in [Threads -> Keys \cup {NoKey}]
         /\ got \in [Threads -> Resources \cup {NoRes}]
         /\ evicted \in [Threads -> Resources \cup {NoRes}]
         /\ inUse \in [Threads -> Resources \cup {NoRes}]
         /\ owner \in [Resources -> Keys \cup {NoKey}]
         /\ cleaned \in [Resources -> Nat]
         /\ overtaken \subseteq Resources /\ replaced \subseteq Resources

\* Where a goroutine is in its call, and what it holds and has there.
ControlOf(t) ==
  /\ pc[t] # "idle" => karg[t] \in Keys /\ keyMu[karg[t]] = t
  /\ tmu = t <=> pc[t] \in {"evict", "onEvicted"}
  /\ cmu = t <=> pc[t] = "put"
  /\ got[t] # NoRes => pc[t] \in {"evict", "onEvicted", "found", "invalidated"}
  /\ pc[t] \in {"found", "invalidated"} => got[t] # NoRes
  /\ evicted[t] # NoRes => pc[t] = "onEvicted"
  /\ pc[t] \in {"new", "put"} => call[t] = "checkout"
  /\ pc[t] \notin {"idle", "put"} /\ call[t] = "checkout" => inUse[t] = NoRes
  /\ pc[t] = "put" => inUse[t] # NoRes

Control == \A t \in Threads : ControlOf(t)

\* An id is met only where it was created for.
Known ==
  /\ \A x \in In(list) : x.value # NoRes => owner[x.value] = x.key
  /\ \A t \in Threads : /\ got[t] # NoRes => owner[got[t]] = karg[t]
                        /\ inUse[t] # NoRes => owner[inUse[t]] # NoKey
                        /\ pc[t] = "put" => owner[inUse[t]] = karg[t]
                        /\ evicted[t] # NoRes => owner[evicted[t]] # NoKey
  /\ \A r \in expiries : owner[r] # NoKey

\* The first layer.
Records == Typed /\ Control /\ Known /\ CheckoutsCountUsers

-----------------------------------------------------------------------------
Listed(r) == \E x \in In(list) : x.value = r
Evicting(t, r) == evicted[t] = r
Invalidating(t, r) == pc[t] = "invalidated" /\ got[t] = r
Going(t, r) == Evicting(t, r) \/ Invalidating(t, r)
Registering(t, r) == pc[t] = "put" /\ inUse[t] = r

\* An id nobody has cleaned up, in the maps of the cache.
Intact(r) == Kept(r) /\ checkouts[r] >= 0

\* An id is in one place at a time: in the list, with the call that is about to get rid of
\* it, with the call that creates it, or in expiries; Invalidate alone may have found one
\* that has gone to expiries since.
StageOf(r) ==
  /\ Listed(r) => Intact(r) /\ r \notin expiries
  /\ r \in expiries => Intact(r) /\ checkouts[r] > 0
  /\ owner[r] = NoKey => cleaned[r] = 0
  /\ cleaned[r] <= 1
  /\ \A t \in Threads :
       /\ inUse[t] = r \/ got[t] = r => Intact(r)
       /\ Evicting(t, r) => Intact(r) /\ ~Listed(r) /\ r \notin expiries
       /\ Invalidating(t, r) => ~Listed(r) /\ \A u \in Threads : ~Evicting(u, r)
       /\ Registering(t, r) =>
            /\ ~Listed(r) /\ r \notin expiries
            /\ \A u \in Threads : ~Evicting(u, r) /\ ~Invalidating(u, r)

Stages == \A r \in Resources \ overtaken : StageOf(r)

\* What overtakes a call is a clean-up.
Overtakes == \A r \in overtaken : cleaned[r] > 0

InPlace == Stages /\ Overtakes

-----------------------------------------------------------------------------
\* What Invalidate puts has expired.
Spent == \A x \in In(list) : x.value = NoRes => x.expiration < now

\* The node of the key of a call is the one it found, until it is replaced or evicted; that
\* of a call that found none has come to its expiration.
LookedOf(t) ==
  \A x \in In(list) : x.key = karg[t] =>
    /\ got[t] # NoRes /\ pc[t] # "invalidated" => x.value = got[t]
    /\ got[t] = NoRes /\ pc[t] \in {"evict", "onEvicted", "new", "put"} => x.expiration <= now

Looked == \A t \in Threads : LookedOf(t)

Found ==
  \A r \in Resources \ replaced : owner[r] # NoKey /\ cleaned[r] = 0 =>
    \/ Listed(r) \/ r \in expiries
    \/ \E t \in Threads : Going(t, r) \/ Registering(t, r)

NoneLost == Spent /\ Looked /\ Found

-----------------------------------------------------------------------------
\* A set of naturals that is not empty has a least element: of the initial parts of the
\* set, up to one of its elements, none has a smaller one inside it.
LEMMA Least ==
  ASSUME NEW T \in SUBSET Nat, T # {}
  PROVE  \E x \in T : \A y \in T : x <= y
<1> DEFINE Part(x) == {y \in T : y <= x}
<1>1. PICK a \in T : TRUE
  OBVIOUS
<1> DEFINE S == 0..a
           Parts == {Part(x) : x \in {y \in T : y <= a}}
           R == StrictSubsetOrdering(S)
<1>2. ASSUME NEW x \in T, x <= a PROVE Part(x) \subseteq S
  <2> SUFFICES ASSUME NEW y \in T, y <= x PROVE y \in 0..a
    OBVIOUS
  <2>1. y \in Nat /\ x \in Nat /\ a \in Nat
    OBVIOUS
  <2> QED
    BY <2>1, <1>2
<1>3. Parts \subseteq FiniteSubsetsOf(S)
  <2>1. IsFiniteSet(S)
    BY FS_Interval
  <2> QED
    BY <1>2, <2>1, FS_FiniteSubsetsOfFinite
<1>4. \E U \in Parts : \A V \in Parts : ~(<<V, U>> \in R)
  <2>1. IsWellFoundedOn(R, FiniteSubsetsOf(S))
    BY FS_StrictSubsetOrderingWellFounded
  <2>2. Part(a) \in Parts
    <3>1. a \in Nat /\ a <= a
      OBVIOUS
    <3> QED
      BY <3>1
  <2> HIDE DEF R, Parts, S
  <2> QED
    BY <1>3, <2>1, <2>2, WFMin
<1>5. PICK x \in T : x <= a /\ \A V \in Parts : ~(<<V, Part(x)>> \in R)
  BY <1>4
<1>6. ASSUME NEW y \in T, ~(x <= y) PROVE FALSE
  <2>0. x \in Nat /\ y \in Nat /\ a \in Nat
    OBVIOUS
  <2>1. y < x /\ y <= a
    BY <1>5, <1>6, <2>0
  <2>2. Part(y) \in Parts 
    BY <2>1
  <2>3. Part(y) \subseteq Part(x) /\ x \in Part(x) /\ x \notin Part(y)
    <3>1. \A z \in T : z \in Nat /\ (z <= y => z <= x)
      BY <2>0, <2>1
    <3>2. x <= x /\ ~(x <= y)
      BY <2>0, <2>1
    <3> QED
      BY <3>1, <3>2, Zenon
  <2>4. Part(x) \subseteq S /\ Part(y) \subseteq S
    BY <1>2, <1>5, <2>1
  <2>5. <<Part(y), Part(x)>> \in R
    <3> HIDE DEF Part, S
    <3> QED
      BY <2>3, <2>4 DEF StrictSubsetOrdering
  <2> QED
    BY <1>5, <2>2, <2>5
<1> QED
  BY <1>6

\* A sequence with an element put in after the first p.
Insert(s, p, n) == SubSeq(s, 1, p) \o <<n>> \o SubSeq(s, p+1, Len(s))

\* A sequence with an element more, after the first p.
LEMMA Inserted ==
  ASSUME NEW S, NEW s \in Seq(S), NEW n \in S, NEW p \in 0..Len(s)
  PROVE  /\ Insert(s, p, n) \in Seq(S) /\ Len(Insert(s, p, n)) = Len(s) + 1
         /\ \A i \in 1..Len(s)+1 : Insert(s, p, n)[i] = IF i <= p THEN s[i]
                                                       ELSE IF i = p+1 THEN n ELSE s[i-1]
<1> DEFINE a == SubSeq(s, 1, p)
           b == SubSeq(s, p+1, Len(s))
           m == a \o <<n>>
           t == m \o b
<1>1. Len(s) \in Nat /\ \A i \in 1..Len(s) : s[i] \in S
  BY LenProperties
<1>2. a \in Seq(S) /\ Len(a) = p /\ \A i \in 1..p : a[i] = s[i]
  <2>1. \A i \in 1..p : s[i] \in S
    BY <1>1
  <2> QED
    BY <1>1, <2>1, SubSeqProperties
<1>3. b \in Seq(S) /\ Len(b) = Len(s) - p /\ \A i \in 1..Len(s)-p : b[i] = s[p+i]
  <2>1. \A i \in p+1..Len(s) : s[i] \in S
    BY <1>1
  <2>2. b \in Seq(S) /\ Len(b) = (IF p+1 <= Len(s) THEN Len(s)-(p+1)+1 ELSE 0)
        /\ \A i \in 1..Len(s)-(p+1)+1 : b[i] = s[p+1+i-1]
    BY <1>1, <2>1, SubSeqProperties
  <2> QED
    BY <1>1, <2>2
<1>4. <<n>> \in Seq(S) /\ Len(<<n>>) = 1 /\ <<n>>[1] = n
  OBVIOUS
<1>5. m \in Seq(S) /\ Len(m) = p+1 /\ \A i \in 1..p+1 : m[i] = IF i <= p THEN s[i] ELSE n
  <2> HIDE DEF a
  <2>1. m \in Seq(S) /\ Len(m) = Len(a) + 1
        /\ \A i \in 1..Len(a)+1 : m[i] = IF i <= Len(a) THEN a[i] ELSE <<n>>[i - Len(a)]
    BY <1>2, <1>4, ConcatProperties
  <2> QED
    BY <1>1, <1>2, <1>4, <2>1
<1>6. t \in Seq(S) /\ Len(t) = Len(m) + Len(b)
      /\ \A i \in 1..Len(m)+Len(b) : t[i] = IF i <= Len(m) THEN m[i] ELSE b[i - Len(m)]
  <2> HIDE DEF m, b
  <2> QED
    BY <1>3, <1>5, ConcatProperties
<1>7. Len(t) = Len(s) + 1
  <2> HIDE DEF m, b, t
  <2> QED
    BY <1>1, <1>3, <1>5, <1>6
<1>8. ASSUME NEW i \in 1..Len(s)+1
      PROVE  t[i] = IF i <= p THEN s[i] ELSE IF i = p+1 THEN n ELSE s[i-1]
  <2> HIDE DEF m, b, t
  <2>0. t[i] = IF i <= p+1 THEN m[i] ELSE b[i - (p+1)]
    BY <1>1, <1>3, <1>5, <1>6
  <2>1. CASE i <= p+1
    <3>1. i \in 1..p+1
      BY <2>1
    <3> QED
      BY <1>5, <2>0, <2>1, <3>1
  <2>2. CASE ~(i <= p+1)
    <3>1. i - (p+1) \in 1..Len(s)-p /\ p + (i - (p+1)) = i-1
      BY <1>1, <2>2
    <3>2. b[i - (p+1)] = s[p + (i - (p+1))]
      BY <1>3, <3>1
    <3> QED
      BY <1>1, <2>0, <2>2, <3>1, <3>2
  <2> QED
    BY <2>1, <2>2
<1>9. t = Insert(s, p, n)
  BY DEF Insert
<1> HIDE DEF t
<1> QED
  BY <1>6, <1>7, <1>8, <1>9

\* A sequence without its element at p.
LEMMA Removed ==
  ASSUME NEW S, NEW s \in Seq(S), NEW p \in 1..Len(s)
  PROVE  LET t == SubSeq(s, 1, p-1) \o SubSeq(s, p+1, Len(s))
         IN  /\ t \in Seq(S) /\ Len(t) = Len(s) - 1
             /\ \A i \in 1..Len(s)-1 : t[i] = IF i < p THEN s[i] ELSE s[i+1]
<1> DEFINE a == SubSeq(s, 1, p-1)
           b == SubSeq(s, p+1, Len(s))
           t == a \o b
<1>1. Len(s) \in Nat /\ \A i \in 1..Len(s) : s[i] \in S
  BY LenProperties
<1>2. a \in Seq(S) /\ Len(a) = p-1 /\ \A i \in 1..p-1 : a[i] = s[i]
  <2>1. \A i \in 1..p-1 : s[i] \in S
    BY <1>1
  <2>2. a \in Seq(S) /\ Len(a) = (IF 1 <= p-1 THEN p-1-1+1 ELSE 0)
        /\ \A i \in 1..p-1-1+1 : a[i] = s[1+i-1]
    BY <1>1, <2>1, SubSeqProperties
  <2> QED
    BY <1>1, <2>2
<1>3. b \in Seq(S) /\ Len(b) = Len(s) - p /\ \A i \in 1..Len(s)-p : b[i] = s[p+i]
  <2>1. \A i \in p+1..Len(s) : s[i] \in S
    BY <1>1
  <2>2. b \in Seq(S) /\ Len(b) = (IF p+1 <= Len(s) THEN Len(s)-(p+1)+1 ELSE 0)
        /\ \A i \in 1..Len(s)-(p+1)+1 : b[i] = s[p+1+i-1]
    BY <1>1, <2>1, SubSeqProperties
  <2> QED
    BY <1>1, <2>2
<1>4. t \in Seq(S) /\ Len(t) = Len(a) + Len(b)
      /\ \A i \in 1..Len(a)+Len(b) : t[i] = IF i <= Len(a) THEN a[i] ELSE b[i - Len(a)]
  <2> HIDE DEF a, b
  <2> QED
    BY <1>2, <1>3, ConcatProperties
<1> HIDE DEF a, b, t
<1>5. Len(t) = Len(s) - 1
  BY <1>1, <1>2, <1>3, <1>4
<1>6. ASSUME NEW i \in 1..Len(s)-1 PROVE t[i] = IF i < p THEN s[i] ELSE s[i+1]
  <2>0. t[i] = IF i <= p-1 THEN a[i] ELSE b[i - (p-1)]
    BY <1>1, <1>2, <1>3, <1>4
  <2>1. CASE i < p
    <3>1. i \in 1..p-1
      BY <2>1
    <3> QED
      BY <1>2, <2>0, <2>1, <3>1
  <2>2. CASE ~(i < p)
    <3>1. i - (p-1) \in 1..Len(s)-p /\ p + (i - (p-1)) = i+1
      BY <1>1, <2>2
    <3>2. b[i - (p-1)] = s[p + (i - (p-1))]
      BY <1>3, <3>1
    <3> QED
      BY <1>1, <2>0, <2>2, <3>1, <3>2
  <2> QED
    BY <2>1, <2>2
<1> QED
  BY <1>4, <1>5, <1>6 DEF t, a, b

\* The walk of add ends somewhere.
LEMMA PlaceIs ==
  ASSUME NEW S, \A x \in S : x.expiration \in Int, NEW s \in Seq(S), NEW e \in Int
  PROVE  /\ Place(s, e) \in 0..Len(s)
         /\ Place(s, e) > 0 => s[Place(s, e)].expiration <= e
         /\ \A i \in Place(s, e)+1..Len(s) : s[i].expiration > e
<1> DEFINE T == {p \in 0..Len(s) : \A i \in p+1..Len(s) : s[i].expiration > e}
<1>1. Len(s) \in Nat /\ \A i \in 1..Len(s) : s[i].expiration \in Int
  BY LenProperties
<1>2. T \subseteq Nat /\ Len(s) \in T
  BY <1>1
<1>3. PICK p \in T : \A q \in T : p <= q
  <2> HIDE DEF T
  <2> QED
    BY <1>2, Least
<1>4. p > 0 => s[p].expiration <= e
  <2> SUFFICES ASSUME p > 0, ~(s[p].expiration <= e) PROVE FALSE
    OBVIOUS
  <2>1. p \in 1..Len(s) /\ p-1 \in 0..Len(s) /\ p-1 < p
    BY <1>1
  <2>2. s[p].expiration > e
    BY <1>1, <2>1
  <2>3. \A i \in (p-1)+1..Len(s) : i = p \/ i \in p+1..Len(s)
    BY <1>1, <2>1
  <2>4. p-1 \in T
    BY <2>1, <2>2, <2>3
  <2>5. p <= p-1
    <3> HIDE DEF T
    <3> QED
      BY <1>3, <2>4
  <2> QED
    BY <2>1, <2>5
<1> QED
  BY <1>3, <1>4 DEF Place

\* add: a node more, and the list stays sorted.
LEMMA AddIs ==
  ASSUME NEW S, \A x \in S : x.expiration \in Int, NEW s \in Seq(S), NEW n \in S
  PROVE  /\ Add(s, n) \in Seq(S)
         /\ In(Add(s, n)) = In(s) \cup {n}
         /\ Sorted(s) => Sorted(Add(s, n))
         /\ Distinct(s) /\ (\A x \in In(s) : x.key # n.key) => Distinct(Add(s, n))
<1> DEFINE p == Place(s, n.expiration)
           t == Add(s, n)
<1>1. /\ p \in 0..Len(s) /\ (p > 0 => s[p].expiration <= n.expiration)
      /\ \A i \in p+1..Len(s) : s[i].expiration > n.expiration
  BY PlaceIs
<1>2. Len(s) \in Nat /\ DOMAIN s = 1..Len(s) /\ \A i \in 1..Len(s) : s[i] \in S
  BY LenProperties
<1>3. /\ t \in Seq(S) /\ Len(t) = Len(s) + 1
      /\ \A i \in 1..Len(s)+1 : t[i] = IF i <= p THEN s[i] ELSE IF i = p+1 THEN n ELSE s[i-1]
  <2>1. t = Insert(s, p, n)
    BY DEF Add, Insert
  <2> HIDE DEF p, t
  <2>2. PICK q \in 0..Len(s) : q = p
    BY <1>1
  <2>3. /\ Insert(s, q, n) \in Seq(S) /\ Len(Insert(s, q, n)) = Len(s) + 1
        /\ \A i \in 1..Len(s)+1 : Insert(s, q, n)[i] = IF i <= q THEN s[i]
                                                      ELSE IF i = q+1 THEN n ELSE s[i-1]
    BY Inserted
  <2> QED
    BY <2>1, <2>2, <2>3
<1>4. DOMAIN t = 1..Len(s)+1
  BY <1>3, LenProperties
<1> HIDE DEF p, t
<1>5. /\ \A i \in 1..p : i \in DOMAIN t /\ t[i] = s[i]
      /\ p+1 \in DOMAIN t /\ t[p+1] = n
      /\ \A i \in p+1..Len(s) : i+1 \in DOMAIN t /\ t[i+1] = s[i]
  <2>1. \A i \in 1..p : i \in 1..Len(s)+1 /\ i <= p
    BY <1>1, <1>2
  <2>2. p+1 \in 1..Len(s)+1 /\ ~(p+1 <= p)
    BY <1>1, <1>2
  <2>3. \A i \in p+1..Len(s) : i+1 \in 1..Len(s)+1 /\ ~(i+1 <= p) /\ i+1 # p+1 /\ i+1-1 = i
    BY <1>1, <1>2
  <2> QED
    BY <1>3, <1>4, <2>1, <2>2, <2>3
<1>6. \A i \in DOMAIN t : \/ i \in 1..p /\ i \in DOMAIN s /\ t[i] = s[i]
                          \/ i = p+1 /\ t[i] = n
                          \/ i-1 \in p+1..Len(s) /\ i-1 \in DOMAIN s /\ t[i] = s[i-1]
  <2> SUFFICES ASSUME NEW i \in 1..Len(s)+1
               PROVE  \/ i \in 1..p /\ i \in DOMAIN s /\ t[i] = s[i]
                      \/ i = p+1 /\ t[i] = n
                      \/ i-1 \in p+1..Len(s) /\ i-1 \in DOMAIN s /\ t[i] = s[i-1]
    BY <1>4
  <2>1. i \in 1..p \/ i = p+1 \/ (i > p+1 /\ i-1 \in p+1..Len(s))
    BY <1>1, <1>2
  <2> QED
    BY <1>1, <1>2, <1>3, <2>1
<1>7. \A i \in DOMAIN s : i \in 1..p \/ i \in p+1..Len(s)
  BY <1>1, <1>2
<1>8. In(t) = In(s) \cup {n}
  <2>1. \A i \in DOMAIN s : \E j \in DOMAIN t : t[j] = s[i]
    BY <1>5, <1>7
  <2>2. \A i \in DOMAIN t : t[i] = n \/ \E j \in DOMAIN s : s[j] = t[i]
    BY <1>6
  <2>3. \E i \in DOMAIN t : t[i] = n
    BY <1>5
  <2>4. ASSUME NEW x \in In(t) PROVE x \in In(s) \cup {n}
    BY <2>2, <2>4 DEF In
  <2>5. ASSUME NEW x \in In(s) \cup {n} PROVE x \in In(t)
    BY <2>1, <2>3, <2>5 DEF In
  <2> QED
    BY <2>4, <2>5
<1>9. ASSUME Sorted(s) PROVE Sorted(t)
  <2> SUFFICES ASSUME NEW i \in DOMAIN t, NEW j \in DOMAIN t, i < j
               PROVE  t[i].expiration <= t[j].expiration
    BY DEF Sorted
  <2>0. i \in 1..Len(s)+1 /\ j \in 1..Len(s)+1 /\ n.expiration \in Int
        /\ \A k \in DOMAIN s : s[k].expiration \in Int
    BY <1>2, <1>4
  <2>1. \A k \in 1..p : s[k].expiration <= n.expiration
    <3> SUFFICES ASSUME NEW k \in 1..p PROVE s[k].expiration <= n.expiration
      OBVIOUS
    <3>1. k \in DOMAIN s /\ p \in DOMAIN s /\ p > 0 /\ (k = p \/ k < p)
      BY <1>1, <1>2
    <3> QED
      BY <1>1, <1>9, <2>0, <3>1 DEF Sorted
  <2>2. CASE i \in 1..p /\ t[i] = s[i] /\ i \in DOMAIN s
    BY <1>1, <1>6, <1>9, <2>0, <2>1, <2>2 DEF Sorted
  <2>3. CASE i = p+1 /\ t[i] = n
    BY <1>1, <1>2, <1>6, <2>0, <2>3
  <2>4. CASE i-1 \in p+1..Len(s) /\ t[i] = s[i-1] /\ i-1 \in DOMAIN s
    <3>1. j-1 \in p+1..Len(s) /\ t[j] = s[j-1] /\ j-1 \in DOMAIN s /\ i-1 < j-1
      BY <1>1, <1>2, <1>6, <2>0, <2>4
    <3> QED
      BY <1>9, <2>4, <3>1 DEF Sorted
  <2> QED
    BY <1>6, <2>2, <2>3, <2>4
<1>10. ASSUME Distinct(s), \A x \in In(s) : x.key # n.key PROVE Distinct(t)
  <2> SUFFICES ASSUME NEW i \in DOMAIN t, NEW j \in DOMAIN t, t[i].key = t[j].key
               PROVE  i = j
    BY DEF Distinct
  <2>0. i \in 1..Len(s)+1 /\ j \in 1..Len(s)+1 /\ \A k \in DOMAIN s : s[k].key # n.key
    BY <1>4, <1>10 DEF In
  <2>1. CASE i \in 1..p /\ t[i] = s[i] /\ i \in DOMAIN s
    BY <1>1, <1>2, <1>6, <1>10, <2>0, <2>1 DEF Distinct
  <2>2. CASE i = p+1 /\ t[i] = n
    BY <1>1, <1>6, <2>0, <2>2
  <2>3. CASE i-1 \in p+1..Len(s) /\ t[i] = s[i-1] /\ i-1 \in DOMAIN s
    BY <1>1, <1>2, <1>6, <1>10, <2>0, <2>3 DEF Distinct
  <2> QED
    BY <1>6, <2>1, <2>2, <2>3
<1> QED
  BY <1>3, <1>8, <1>9, <1>10 DEF t

\* remove: the node of the key is gone, the others are as they were.
LEMMA WithoutIs ==
  ASSUME NEW S, \A x \in S : x.expiration \in Int, NEW s \in Seq(S), Distinct(s), NEW k
  PROVE  /\ Without(s, k) \in Seq(S)
         /\ In(Without(s, k)) = {x \in In(s) : x.key # k}
         /\ Sorted(s) => Sorted(Without(s, k))
         /\ Distinct(Without(s, k))
<1>1. Len(s) \in Nat /\ DOMAIN s = 1..Len(s) /\ \A i \in 1..Len(s) : s[i] \in S
  BY LenProperties
<1>2. CASE At(s, k) = {}
  <2>1. Without(s, k) = s
    BY <1>2 DEF Without
  <2>2. \A i \in DOMAIN s : s[i].key # k
    BY <1>2 DEF At
  <2>3. In(s) = {x \in In(s) : x.key # k}
    BY <2>2 DEF In
  <2> QED
    BY <2>1, <2>3
<1>3. CASE At(s, k) # {}
  <2> DEFINE p == CHOOSE i \in At(s, k) : TRUE
             t == Without(s, k)
  <2>1. p \in 1..Len(s) /\ s[p].key = k
    <3>1. p \in At(s, k)
      BY <1>3
    <3> QED
      BY <1>1, <3>1 DEF At
  <2>2. /\ t \in Seq(S) /\ Len(t) = Len(s) - 1
        /\ \A i \in 1..Len(s)-1 : t[i] = IF i < p THEN s[i] ELSE s[i+1]
    <3>1. t = SubSeq(s, 1, p-1) \o SubSeq(s, p+1, Len(s))
      BY <1>3 DEF Without
    <3> HIDE DEF p, t
    <3> QED
      BY <2>1, <3>1, Removed
  <2>3. DOMAIN t = 1..Len(s)-1
    BY <2>2, LenProperties
  <2> HIDE DEF p, t
  <2>4. \A i \in DOMAIN t : \/ i \in DOMAIN s /\ i < p /\ t[i] = s[i]
                            \/ i+1 \in DOMAIN s /\ i >= p /\ t[i] = s[i+1]
    BY <1>1, <2>1, <2>2, <2>3
  <2>5. \A i \in DOMAIN s : \/ i = p
                            \/ i \in DOMAIN t /\ t[i] = s[i]
                            \/ i-1 \in DOMAIN t /\ t[i-1] = s[i]
    <3> SUFFICES ASSUME NEW i \in 1..Len(s), i # p
                 PROVE  \/ i \in 1..Len(s)-1 /\ t[i] = s[i]
                        \/ i-1 \in 1..Len(s)-1 /\ t[i-1] = s[i]
      BY <1>1, <2>3
    <3>1. CASE i < p
      BY <1>1, <2>1, <2>2, <3>1
    <3>2. CASE i > p
      <4>1. i-1 \in 1..Len(s)-1 /\ ~(i-1 < p) /\ i-1+1 = i
        BY <1>1, <2>1, <3>2
      <4> QED
        BY <2>2, <4>1
    <3> QED
      BY <1>1, <2>1, <3>1, <3>2
  <2>6. \A i \in DOMAIN s : s[i].key = k <=> i = p
    BY <1>1, <2>1 DEF Distinct
  <2>7. In(t) = {x \in In(s) : x.key # k}
    <3>1. ASSUME NEW x \in In(t) PROVE x \in In(s) /\ x.key # k
      <4>1. PICK i \in DOMAIN t : x = t[i]
        BY <3>1 DEF In
      <4>2. PICK j \in DOMAIN s : j # p /\ x = s[j]
        BY <1>1, <2>1, <2>3, <2>4, <4>1
      <4> QED
        BY <2>6, <4>2 DEF In
    <3>2. ASSUME NEW x \in In(s), x.key # k PROVE x \in In(t)
      <4>1. PICK i \in DOMAIN s : x = s[i]
        BY <3>2 DEF In
      <4>2. i # p
        BY <2>6, <3>2, <4>1
      <4>3. \E j \in DOMAIN t : t[j] = x
        BY <2>5, <4>1, <4>2
      <4> QED
        BY <4>3 DEF In
    <3> QED
      BY <3>1, <3>2
  <2>8. ASSUME NEW i \in DOMAIN t, NEW j \in DOMAIN t, i < j
        PROVE  \E a, b \in DOMAIN s : a < b /\ t[i] = s[a] /\ t[j] = s[b]
    BY <1>1, <2>1, <2>3, <2>4, <2>8
  <2>9. Sorted(s) => Sorted(t)
    BY <2>8 DEF Sorted
  <2>10. Distinct(t)
    <3> SUFFICES ASSUME NEW i \in DOMAIN t, NEW j \in DOMAIN t, t[i].key = t[j].key, i < j
                 PROVE  FALSE
      BY <2>3 DEF Distinct
    <3>1. PICK a, b \in DOMAIN s : a < b /\ t[i] = s[a] /\ t[j] = s[b]
      BY <2>8
    <3> QED
      BY <1>1, <3>1 DEF Distinct
  <2> QED
    BY <2>2, <2>7, <2>9, <2>10 DEF t
<1> QED
  BY <1>2, <1>3

\* The clean-up takes the head, which no node expires before.
LEMMA TailIs ==
  ASSUME NEW S, \A x \in S : x.expiration \in Int, NEW s \in Seq(S), Distinct(s), s # <<>>
  PROVE  /\ Tail(s) \in Seq(S)
         /\ Head(s) \in In(s)
         /\ In(Tail(s)) = {x \in In(s) : x.key # Head(s).key}
         /\ Sorted(s) => Sorted(Tail(s)) /\ \A x \in In(s) : Head(s).expiration <= x.expiration
         /\ Distinct(Tail(s))
<1>1. Len(s) \in Nat \ {0} /\ DOMAIN s = 1..Len(s) /\ \A i \in 1..Len(s) : s[i] \in S
  BY LenProperties, EmptySeq
<1>2. /\ Tail(s) \in Seq(S) /\ DOMAIN Tail(s) = 1..Len(s)-1
      /\ \A i \in 1..Len(s)-1 : Tail(s)[i] = s[i+1]
  BY HeadTailProperties, LenProperties
<1>3. 1 \in DOMAIN s /\ Head(s) = s[1]
  BY <1>1
<1>4. \A i \in DOMAIN Tail(s) : i+1 \in DOMAIN s /\ Tail(s)[i] = s[i+1]
  BY <1>1, <1>2
<1>5. \A i \in DOMAIN s : i = 1 \/ (i-1 \in DOMAIN Tail(s) /\ Tail(s)[i-1] = s[i])
  <2> SUFFICES ASSUME NEW i \in 1..Len(s), i # 1
               PROVE  i-1 \in 1..Len(s)-1 /\ Tail(s)[i-1] = s[i]
    BY <1>1, <1>2
  <2>1. i-1 \in 1..Len(s)-1 /\ i-1+1 = i
    BY <1>1
  <2> QED
    BY <1>2, <2>1
<1>6. Head(s) \in In(s)
  BY <1>3 DEF In
<1>7. In(Tail(s)) = {x \in In(s) : x.key # Head(s).key}
  <2>1. ASSUME NEW x \in In(Tail(s)) PROVE x \in In(s) /\ x.key # Head(s).key
    <3>1. PICK i \in DOMAIN Tail(s) : x = Tail(s)[i]
      BY <2>1 DEF In
    <3>2. i+1 \in DOMAIN s /\ x = s[i+1] /\ i+1 # 1
      BY <1>2, <1>4, <3>1
    <3> QED
      BY <1>3, <3>2 DEF In, Distinct
  <2>2. ASSUME NEW x \in In(s), x.key # Head(s).key PROVE x \in In(Tail(s))
    <3>1. PICK i \in DOMAIN s : x = s[i]
      BY <2>2 DEF In
    <3>2. i # 1
      BY <1>3, <2>2, <3>1
    <3>3. \E j \in DOMAIN Tail(s) : Tail(s)[j] = x
      BY <1>5, <3>1, <3>2
    <3> QED
      BY <3>3 DEF In
  <2> QED
    BY <2>1, <2>2
<1>8. ASSUME Sorted(s)
      PROVE  Sorted(Tail(s)) /\ \A x \in In(s) : Head(s).expiration <= x.expiration
  <2>1. Sorted(Tail(s))
    BY <1>1, <1>2, <1>4, <1>8 DEF Sorted
  <2>2. ASSUME NEW i \in DOMAIN s PROVE Head(s).expiration <= s[i].expiration
    <3>1. i = 1 \/ 1 < i
      BY <1>1
    <3> QED
      BY <1>1, <1>3, <1>8, <3>1 DEF Sorted
  <2> QED
    BY <2>1, <2>2 DEF In
<1>9. Distinct(Tail(s))
  BY <1>1, <1>2, <1>4 DEF Distinct
<1> QED
  BY <1>2, <1>6, <1>7, <1>8, <1>9

\* The nodes of a key are those of the list that have it.
LEMMA NodesOfIs ==
  ASSUME NEW s, NEW k
  PROVE  NodesOf(s, k) = {x \in In(s) : x.key = k}
BY DEF NodesOf, At, In

\* The element of a sequence that a member of In(s) is.
LEMMA InIs ==
  ASSUME NEW S, NEW s \in Seq(S)
  PROVE  In(s) \subseteq S
<1>1. \A i \in DOMAIN s : s[i] \in S
  BY LenProperties
<1> QED
  BY <1>1 DEF In

\* A key has one node.
LEMMA OneNode ==
  ASSUME NEW s, Distinct(s), NEW x \in In(s), NEW y \in In(s), x.key = y.key
  PROVE  x = y
BY DEF In, Distinct

\* The list l is s with the node z in the place of that of the key k.
Replaces(l, s, k, z) == /\ l \in Seq(Nodes) /\ Distinct(l) /\ Sorted(l)
                        /\ In(l) = {x \in In(s) : x.key # k} \cup {z}

\* A node of a key that has none is added.
LEMMA AddNode ==
  ASSUME NEW s \in Seq(Nodes), Distinct(s), Sorted(s), NEW n \in Nodes,
         \A x \in In(s) : x.key # n.key
  PROVE  /\ Add(s, n) \in Seq(Nodes) /\ In(Add(s, n)) = In(s) \cup {n}
         /\ Sorted(Add(s, n)) /\ Distinct(Add(s, n))
<1>1. \A x \in Nodes : x.expiration \in Int
  BY DEF Nodes
<1> QED
  BY <1>1, AddIs

\* Put: the node of the key, with its new value and expiration, replaces the one it had.
LEMMA PutNodeIs ==
  ASSUME NEW s \in Seq(Nodes), Distinct(s), Sorted(s),
         NEW k \in Keys, NEW v \in Resources \cup {NoRes}, NEW d \in Int, NEW n \in Int
  PROVE  \E z \in Nodes :
           /\ z.key = k /\ z.value = v /\ z.expiration = n + d
           /\ \A x \in In(s) : x.key = k => z.ttl = x.ttl
           /\ (\A x \in In(s) : x.key # k) => z.ttl = d
           /\ Replaces(PutNode(s, k, v, d, n), s, k, z)
<1> DEFINE old == NodesOf(s, k)
           ttl == IF old = {} THEN d ELSE (CHOOSE x \in old : TRUE).ttl
           z == Node(k, v, ttl, n + d)
           w == Without(s, k)
<1>1. old = {x \in In(s) : x.key = k} /\ In(s) \subseteq Nodes
  BY NodesOfIs, InIs
<1>2. ASSUME NEW x \in In(s), x.key = k PROVE ttl = x.ttl
  <2>1. old = {x}
    BY <1>1, <1>2, OneNode
  <2>2. (CHOOSE y \in old : TRUE) = x
    BY <2>1
  <2> QED
    BY <2>1, <2>2
<1>3. (\A x \in In(s) : x.key # k) => ttl = d
  BY <1>1
<1>4. ttl \in Int
  <2>1. CASE old = {}
    BY <2>1
  <2>2. CASE old # {}
    <3>1. PICK x \in In(s) : x.key = k
      BY <1>1, <2>2
    <3> QED
      BY <1>1, <1>2, <3>1 DEF Nodes
  <2> QED
    BY <2>1, <2>2
<1> HIDE DEF old, ttl
<1>5. z \in Nodes /\ z.key = k /\ z.value = v /\ z.expiration = n + d /\ z.ttl = ttl
  BY <1>4 DEF Node, Nodes
<1>6. \A x \in Nodes : x.expiration \in Int
  BY DEF Nodes
<1>7. /\ w \in Seq(Nodes) /\ In(w) = {x \in In(s) : x.key # k}
      /\ Sorted(w) /\ Distinct(w)
  BY <1>6, WithoutIs
<1>8. PutNode(s, k, v, d, n) = Add(w, z)
  BY DEF PutNode, ttl, old
<1> HIDE DEF w, z
<1>0. z \in Nodes /\ \A x \in In(w) : x.key # z.key
  BY <1>5, <1>7
<1>9. /\ Add(w, z) \in Seq(Nodes) /\ In(Add(w, z)) = In(w) \cup {z}
      /\ Sorted(Add(w, z)) /\ Distinct(Add(w, z))
  BY <1>0, <1>7, AddNode
<1> QED
  BY <1>2, <1>3, <1>5, <1>7, <1>8, <1>9 DEF Replaces

\* The refresh of a hit: the node, with its new expiration, replaces itself.
LEMMA RefreshIs ==
  ASSUME NEW s \in Seq(Nodes), Distinct(s), Sorted(s), NEW y \in In(s), NEW n \in Int
  PROVE  \E z \in Nodes :
           /\ z.key = y.key /\ z.value = y.value /\ z.ttl = y.ttl /\ z.expiration = n + y.ttl
           /\ Replaces(Refresh(s, y, n), s, y.key, z)
<1> DEFINE z == [y EXCEPT !.expiration = n + y.ttl]
           w == Without(s, y.key)
<1>1. y \in Nodes
  BY InIs
<1>2. /\ z \in Nodes /\ z.key = y.key /\ z.value = y.value /\ z.ttl = y.ttl
      /\ z.expiration = n + y.ttl
  BY <1>1 DEF Nodes
<1>3. \A x \in Nodes : x.expiration \in Int
  BY DEF Nodes
<1>4. /\ w \in Seq(Nodes) /\ In(w) = {x \in In(s) : x.key # y.key}
      /\ Sorted(w) /\ Distinct(w)
  BY <1>3, WithoutIs
<1>5. Refresh(s, y, n) = Add(w, z)
  BY DEF Refresh
<1> HIDE DEF w, z
<1>0. z \in Nodes /\ \A x \in In(w) : x.key # z.key
  BY <1>2, <1>4
<1>6. /\ Add(w, z) \in Seq(Nodes) /\ In(Add(w, z)) = In(w) \cup {z}
      /\ Sorted(Add(w, z)) /\ Distinct(Add(w, z))
  BY <1>0, <1>4, AddNode
<1> QED
  BY <1>2, <1>4, <1>5, <1>6 DEF Replaces

\* The clean-up: the head leaves the list.
LEMMA HeadIs ==
  ASSUME NEW s \in Seq(Nodes), Distinct(s), Sorted(s), s # <<>>
  PROVE  /\ Tail(s) \in Seq(Nodes) /\ Distinct(Tail(s)) /\ Sorted(Tail(s))
         /\ Head(s) \in In(s) /\ Head(s) \in Nodes
         /\ In(Tail(s)) = {x \in In(s) : x.key # Head(s).key}
         /\ \A x \in In(s) : Head(s).expiration <= x.expiration
<1>1. \A x \in Nodes : x.expiration \in Int
  BY DEF Nodes
<1> QED
  BY <1>1, TailIs, InIs

-----------------------------------------------------------------------------
\* The nodes of the list are nodes.
LEMMA NodeTypes ==
  ASSUME Typed
  PROVE  \A x \in In(list) : /\ x \in Nodes /\ x.key \in Keys /\ x.expiration \in Int
                            /\ x.value \in Resources \cup {NoRes}
<1>1. In(list) \subseteq Nodes
  BY InIs DEF Typed
<1> QED
  BY <1>1 DEF Nodes

\* What Put does to the list.
LEMMA ListPut ==
  ASSUME Typed, NEW k \in Keys, NEW v \in Resources \cup {NoRes}, NEW d \in Int
  PROVE  \E z \in Nodes :
           /\ z.key = k /\ z.value = v /\ z.expiration = now + d
           /\ \A x \in In(list) : x.key = k => z.ttl = x.ttl
           /\ (\A x \in In(list) : x.key # k) => z.ttl = d
           /\ Replaces(PutNode(list, k, v, d, now), list, k, z)
<1>1. list \in Seq(Nodes) /\ Distinct(list) /\ Sorted(list) /\ now \in Int
  BY DEF Typed
<1> QED
  BY <1>1, PutNodeIs

\* The nodes of the list after it, for the steps that put one there.
LEMMA ListPutIn ==
  ASSUME Typed, NEW k \in Keys, NEW v \in Resources \cup {NoRes}, NEW d \in Int,
         list' = PutNode(list, k, v, d, now)
  PROVE  \E z : /\ z.key = k /\ z.value = v
                /\ In(list') = {x \in In(list) : x.key # k} \cup {z}
<1>1. PICK z \in Nodes : /\ z.key = k /\ z.value = v
                         /\ Replaces(PutNode(list, k, v, d, now), list, k, z)
  BY ListPut
<1> QED
  BY <1>1 DEF Replaces

\* What a hit does to the list: the node is there, with its key and its value.
LEMMA ListHit ==
  ASSUME Typed, NEW n \in In(list),
         list' = IF RefreshTTL THEN Refresh(list, n, now) ELSE list
  PROVE  \E z : /\ z.key = n.key /\ z.value = n.value
                /\ In(list') = {x \in In(list) : x.key # n.key} \cup {z}
<1>1. list \in Seq(Nodes) /\ Distinct(list) /\ Sorted(list) /\ now \in Int
  BY DEF Typed
<1>2. CASE RefreshTTL
  <2>1. PICK z \in Nodes : /\ z.key = n.key /\ z.value = n.value
                           /\ Replaces(Refresh(list, n, now), list, n.key, z)
    BY <1>1, RefreshIs
  <2> QED
    BY <1>2, <2>1 DEF Replaces
<1>3. CASE ~RefreshTTL
  <2>1. In(list) = {x \in In(list) : x.key # n.key} \cup {n}
    BY <1>1, OneNode
  <2> QED
    BY <1>3, <2>1
<1> QED
  BY <1>2, <1>3

\* The id of no resource is not one of a resource.
LEMMA NoResNotResource == \A r \in Resources : r # NoRes /\ r \in Nat
BY ConstantsAssumption DEF Resources, NoRes

\* Who checks out is a user more of one resource.
LEMMA OneUserMore ==
  ASSUME IsFiniteSet(Threads), inUse \in [Threads -> Resources \cup {NoRes}],
         NEW t \in Threads, NEW r \in Resources, inUse[t] = NoRes,
         inUse' = [inUse EXCEPT ![t] = r]
  PROVE  /\ \A q \in Resources : q # r => Users(q)' = Users(q)
         /\ IsFiniteSet(Users(r)) /\ Cardinality(Users(r)) \in Nat
         /\ Cardinality(Users(r)') = Cardinality(Users(r)) + 1
<1>1. \A q \in Resources : q # r => Users(q)' = Users(q)
  BY NoResNotResource DEF Users
<1>2. t \notin Users(r) /\ Users(r)' = Users(r) \cup {t}
  BY NoResNotResource DEF Users
<1>3. IsFiniteSet(Users(r))
  BY FS_Subset DEF Users
<1> QED
  BY <1>1, <1>2, <1>3, FS_AddElement, FS_CardinalityType

\* Who checks in is a user less of one resource.
LEMMA OneUserLess ==
  ASSUME IsFiniteSet(Threads), inUse \in [Threads -> Resources \cup {NoRes}],
         NEW t \in Threads, NEW r \in Resources, inUse[t] = r,
         inUse' = [inUse EXCEPT ![t] = NoRes]
  PROVE  /\ \A q \in Resources : q # r => Users(q)' = Users(q)
         /\ IsFiniteSet(Users(r)) /\ Cardinality(Users(r)) \in Nat \ {0}
         /\ Cardinality(Users(r)') = Cardinality(Users(r)) - 1
         /\ Cardinality(Users(r)) = 1 => Users(r)' = {}
<1>1. \A q \in Resources : q # r => Users(q)' = Users(q)
  BY NoResNotResource DEF Users
<1>2. t \in Users(r) /\ Users(r)' = Users(r) \ {t}
  BY NoResNotResource DEF Users
<1>3. IsFiniteSet(Users(r))
  BY FS_Subset DEF Users
<1>4. Cardinality(Users(r)') = Cardinality(Users(r)) - 1
  BY <1>2, <1>3, FS_RemoveElement
<1>5. Cardinality(Users(r)) \in Nat /\ Cardinality(Users(r)) # 0
  BY <1>2, <1>3, FS_CardinalityType, FS_EmptySet
<1>6. Cardinality(Users(r)) = 1 => Users(r)' = {}
  BY <1>2, <1>3, <1>4, FS_RemoveElement, FS_EmptySet
<1> QED
  BY <1>1, <1>3, <1>4, <1>5, <1>6

\* The first layer holds of a new cache.
LEMMA RecordsInit == Init => Records
<1> SUFFICES ASSUME Init PROVE Records
  OBVIOUS
<1>1. In(list) = {} /\ list \in Seq(Nodes) /\ Distinct(list) /\ Sorted(list)
  BY DEF Init, In, Distinct, Sorted
<1>2. \A r \in Resources : r # NoRes /\ r \in Nat
  BY NoResNotResource
<1>3. Typed
  BY <1>1, ConstantsAssumption DEF Init, Typed, Labels
<1>4. Control
  BY ConstantsAssumption DEF Init, Control, ControlOf
<1>5. Known
  BY <1>1 DEF Init, Known
<1>6. CheckoutsCountUsers
  BY <1>2 DEF Init, CheckoutsCountUsers, Users
<1> QED
  BY <1>3, <1>4, <1>5, <1>6 DEF Records

\* A clean-up is counted, and may overtake who found the id.
LEMMA CleanUpRecords ==
  ASSUME Records, NEW r \in Resources, CleanUp(r)
  PROVE  cleaned' \in [Resources -> Nat] /\ overtaken' \subseteq Resources
<1>1. cleaned \in [Resources -> Nat] /\ overtaken \subseteq Resources
  BY DEF Records, Typed
<1>2. cleaned' = [cleaned EXCEPT ![r] = @ + 1] /\ overtaken' \in {overtaken, overtaken \cup {r}}
  BY DEF CleanUp
<1> QED
  BY <1>1, <1>2

\* What onEvicted does to the maps.
LEMMA OnEvictedBodyRecords ==
  ASSUME Records, IsFiniteSet(Threads), NEW r \in Resources \cup {NoRes}, OnEvictedBody(r),
         UNCHANGED inUse
  PROVE  /\ resources' \subseteq Resources /\ checkouts' \in [Resources -> Int]
         /\ cleaned' \in [Resources -> Nat] /\ overtaken' \subseteq Resources
         /\ \A q \in expiries' : q \in expiries \/ (q = r /\ r # NoRes)
         /\ CheckoutsCountUsers'
<1>1. /\ resources' \subseteq Resources /\ checkouts' \in [Resources -> Int]
      /\ cleaned' \in [Resources -> Nat] /\ overtaken' \subseteq Resources
      /\ \A q \in expiries' : q \in expiries \/ (q = r /\ r # NoRes)
  <2>1. CASE r = NoRes
    <3>1. UNCHANGED <<maps, cleaned, overtaken>>
      BY <2>1, NoResNotResource DEF OnEvictedBody
    <3> QED
      BY <3>1 DEF Records, Typed, maps
  <2>2. CASE r # NoRes
    <3>1. r \in Resources
      BY <2>2
    <3>2. CASE CleanUp(r) /\ resources' = resources \ {r} /\ UNCHANGED expiries
               /\ checkouts' = [checkouts EXCEPT ![r] = -1]
      BY <3>1, <3>2, CleanUpRecords DEF Records, Typed
    <3>3. CASE UNCHANGED <<cleaned, overtaken>> /\ UNCHANGED resources /\ UNCHANGED checkouts
               /\ expiries' \in {expiries, expiries \cup {r}}
      BY <2>2, <3>3 DEF Records, Typed
    <3> QED
      BY <3>2, <3>3 DEF OnEvictedBody, maps
  <2> QED
    BY <2>1, <2>2
<1>2. \A q \in Resources : /\ Users(q)' = Users(q) /\ IsFiniteSet(Users(q))
                           /\ Cardinality(Users(q)) = 0 => Users(q) = {}
  <2>1. \A q \in Resources : Users(q)' = Users(q) /\ Users(q) \subseteq Threads
    BY DEF Users
  <2> QED
    BY <2>1, FS_Subset, FS_EmptySet
<1>3. CheckoutsCountUsers'
  <2> SUFFICES ASSUME NEW q \in Resources
               PROVE  IF checkouts'[q] = -1 THEN Users(q)' = {}
                      ELSE checkouts'[q] = Cardinality(Users(q)')
    BY DEF CheckoutsCountUsers
  <2>1. \/ checkouts'[q] = checkouts[q]
        \/ checkouts[q] = 0 /\ checkouts'[q] = -1
    BY DEF Records, Typed, OnEvictedBody, maps, history
  <2> QED
    BY <1>2, <2>1 DEF Records, CheckoutsCountUsers
<1> QED
  BY <1>1, <1>3

\* No step of a call disturbs the records, nor does the clock.
LEMMA RecordsStep ==
  ASSUME Records, IsFiniteSet(Threads), [Next]_vars
  PROVE  Records'
<1> USE DEF Records
<1>0. \A r \in Resources : r # NoRes /\ r \in Nat
  BY NoResNotResource
<1>1. ASSUME NEW t \in Threads, NEW c \in {"checkout", "invalidate"}, NEW k \in Keys,
             Begin(t, c, k)
      PROVE  Records'
  <2>1. Typed'
    BY <1>1 DEF Typed, Begin, LockKey, Goto, maps, history, Labels
  <2>2. Control'
    BY <1>1, ConstantsAssumption DEF Typed, Control, ControlOf, Begin, LockKey, Goto, maps, history
  <2>3. Known'
    <3>1. got[t] = NoRes
      BY <1>1 DEF Control, ControlOf, Begin
    <3>2. pc \in [Threads -> Labels] /\ karg \in [Threads -> Keys \cup {NoKey}]
      BY DEF Typed
    <3> QED
      BY <1>1, <3>1, <3>2 DEF Known, Begin, Goto, maps, history
  <2>4. CheckoutsCountUsers'
    BY <1>1 DEF CheckoutsCountUsers, Users, Begin, maps, history
  <2> QED
    BY <2>1, <2>2, <2>3, <2>4
<1>2. ASSUME NEW t \in Threads, Get(t) PROVE Records'
  <2>0. karg[t] \in Keys
    BY <1>2 DEF Control, ControlOf, Get
  <2>1. PICK v \in Resources \cup {NoRes} :
           /\ got' = [got EXCEPT ![t] = v] /\ (v = NoRes \/ owner[v] = karg[t])
           /\ list' \in Seq(Nodes) /\ Distinct(list') /\ Sorted(list')
           /\ \A x \in In(list') : \E y \in In(list) : x.key = y.key /\ x.value = y.value
    <3>1. CASE UNCHANGED <<list, got>>
      <4>1. got[t] = NoRes
        BY <1>2 DEF Control, ControlOf, Get
      <4> QED
        BY <3>1, <4>1 DEF Typed
    <3>2. CASE \E n \in {m \in NodesOf(list, karg[t]) : Valid(m, now)} :
                 /\ got' = [got EXCEPT ![t] = n.value]
                 /\ list' = IF RefreshTTL THEN Refresh(list, n, now) ELSE list
      <4>1. PICK n \in In(list) : /\ n.key = karg[t] /\ got' = [got EXCEPT ![t] = n.value]
                                  /\ list' = IF RefreshTTL THEN Refresh(list, n, now) ELSE list
        BY <3>2, NodesOfIs
      <4>2. n \in Nodes /\ now \in Int
        BY InIs DEF Typed
      <4>3. n.value \in Resources \cup {NoRes} /\ (n.value = NoRes \/ owner[n.value] = karg[t])
        BY <4>1, <4>2 DEF Known, Nodes
      <4>4. /\ list' \in Seq(Nodes) /\ Distinct(list') /\ Sorted(list')
            /\ \A x \in In(list') : \E y \in In(list) : x.key = y.key /\ x.value = y.value
        <5>1. CASE RefreshTTL
          <6>1. list \in Seq(Nodes) /\ Distinct(list) /\ Sorted(list)
            BY DEF Typed
          <6>2. PICK z \in Nodes :
                  /\ z.key = n.key /\ z.value = n.value
                  /\ Replaces(Refresh(list, n, now), list, n.key, z)
            BY <4>2, <6>1, RefreshIs
          <6> QED
            BY <4>1, <5>1, <6>2 DEF Replaces
        <5>2. CASE ~RefreshTTL
          BY <4>1, <5>2 DEF Typed
        <5> QED
          BY <5>1, <5>2
      <4> QED
        BY <4>1, <4>3, <4>4
    <3> QED
      BY <1>2, <3>1, <3>2 DEF Get
  <2>2. Typed'
    BY <1>2, <2>1 DEF Typed, Get, Goto, maps, history, Labels
  <2>3. Control'
    BY <1>2, <2>1, ConstantsAssumption DEF Typed, Control, ControlOf, Get, Goto, maps, history
  <2>4. Known'
    <3>1. pc \in [Threads -> Labels] /\ got \in [Threads -> Resources \cup {NoRes}]
      BY DEF Typed
    <3>2. \A x \in In(list') : x.value # NoRes => owner[x.value] = x.key
      BY <2>1 DEF Known
    <3> QED
      BY <1>2, <2>1, <3>1, <3>2 DEF Known, Get, Goto, maps, history
  <2>5. CheckoutsCountUsers'
    BY <1>2 DEF CheckoutsCountUsers, Users, Get, maps, history
  <2> QED
    BY <2>2, <2>3, <2>4, <2>5
<1>3. ASSUME NEW t \in Threads, EvictHead(t) PROVE Records'
  <2>1. /\ list' \in Seq(Nodes) /\ Distinct(list') /\ Sorted(list')
        /\ In(list') \subseteq In(list) /\ Head(list) \in In(list) /\ Head(list) \in Nodes
    BY <1>3, HeadIs DEF Typed, EvictHead
  <2>2. Head(list).value \in Resources \cup {NoRes} /\ Head(list).key \in Keys
    BY <2>1 DEF Nodes
  <2>3. Typed'
    BY <1>3, <2>1, <2>2 DEF Typed, EvictHead, Goto, locks, maps, history, Labels
  <2>4. Control'
    BY <1>3, <2>2, ConstantsAssumption DEF Typed, Control, ControlOf, EvictHead, Goto, locks, maps, history
  <2>5. Known'
    BY <1>3, <2>1, <2>2, ConstantsAssumption
    DEF Typed, Control, ControlOf, Known, EvictHead, Goto, locks, maps, history
  <2>6. CheckoutsCountUsers'
    BY <1>3 DEF CheckoutsCountUsers, Users, EvictHead, maps, history
  <2> QED
    BY <2>3, <2>4, <2>5, <2>6
<1>4. ASSUME NEW t \in Threads, EvictEnd(t) PROVE Records'
  <2>1. Typed'
    BY <1>4 DEF Typed, EvictEnd, Goto, maps, history, Labels
  <2>2. Control'
    BY <1>4, ConstantsAssumption DEF Typed, Control, ControlOf, EvictEnd, Goto, maps, history
  <2>3. Known'
    BY <1>4 DEF Typed, Control, ControlOf, Known, EvictEnd, Goto, maps, history
  <2>4. CheckoutsCountUsers'
    BY <1>4 DEF CheckoutsCountUsers, Users, EvictEnd, maps, history
  <2> QED
    BY <2>1, <2>2, <2>3, <2>4
<1>5. ASSUME NEW t \in Threads, OnEvicted(t) PROVE Records'
  <2>0. evicted[t] \in Resources \cup {NoRes} /\ OnEvictedBody(evicted[t]) /\ UNCHANGED inUse
    BY <1>5 DEF Typed, OnEvicted
  <2>1. /\ resources' \subseteq Resources /\ checkouts' \in [Resources -> Int]
        /\ cleaned' \in [Resources -> Nat] /\ overtaken' \subseteq Resources
        /\ \A q \in expiries' : q \in expiries \/ (q = evicted[t] /\ evicted[t] # NoRes)
        /\ CheckoutsCountUsers'
    BY <2>0, OnEvictedBodyRecords
  <2>2. Typed'
    BY <1>5, <2>0, <2>1 DEF Typed, OnEvicted, Goto, locks, Labels
  <2>3. Control'
    BY <1>5, ConstantsAssumption DEF Typed, Control, ControlOf, OnEvicted, Goto, locks
  <2>4. Known'
    BY <1>5, <2>1 DEF Typed, Control, ControlOf, Known, OnEvicted, Goto, locks
  <2> QED
    BY <2>1, <2>2, <2>3, <2>4
<1>6. ASSUME NEW t \in Threads, CheckoutHit(t) PROVE Records'
  <2>0. got[t] \in Resources /\ inUse[t] = NoRes /\ karg[t] \in Keys
    BY <1>6 DEF Typed, Control, ControlOf, CheckoutHit
  <2>1. Typed'
    BY <1>6, <2>0 DEF Typed, CheckoutHit, Return, Goto, OneMore, history, Labels
  <2>2. Control'
    BY <1>6, <2>0, <1>0, ConstantsAssumption
    DEF Typed, Control, ControlOf, CheckoutHit, Return, Goto
  <2>3. Known'
    BY <1>6, <2>0, <1>0, ConstantsAssumption
    DEF Typed, Control, ControlOf, Known, CheckoutHit, Return, Goto, history
  <2>4. PICK r \in Resources : r = got[t]
    BY <2>0
  <2>5. /\ \A q \in Resources : q # r => Users(q)' = Users(q)
        /\ Cardinality(Users(r)) \in Nat /\ Cardinality(Users(r)') = Cardinality(Users(r)) + 1
    <3>1. inUse \in [Threads -> Resources \cup {NoRes}] /\ inUse' = [inUse EXCEPT ![t] = r]
      BY <1>6, <2>4 DEF Typed, CheckoutHit
    <3> QED
      BY <2>0, <3>1, OneUserMore
  <2>6. CheckoutsCountUsers'
    <3> SUFFICES ASSUME NEW q \in Resources
                 PROVE  IF checkouts'[q] = -1 THEN Users(q)' = {}
                        ELSE checkouts'[q] = Cardinality(Users(q)')
      BY DEF CheckoutsCountUsers
    <3>0. checkouts' = [checkouts EXCEPT ![r] = OneMore(@)] /\ checkouts \in [Resources -> Int]
      BY <1>6, <2>4 DEF Typed, CheckoutHit
    <3>1. CASE q # r
      BY <2>5, <3>0, <3>1 DEF CheckoutsCountUsers
    <3>2. CASE q = r
      <4>1. checkouts[r] = -1 => Cardinality(Users(r)) = 0
        BY FS_EmptySet DEF CheckoutsCountUsers
      <4>2. OneMore(checkouts[r]) = Cardinality(Users(r)) + 1
        BY <2>5, <4>1 DEF CheckoutsCountUsers, OneMore
      <4>3. checkouts'[r] = Cardinality(Users(r)') /\ checkouts'[r] # -1
        BY <2>5, <3>0, <4>2
      <4> QED
        BY <3>2, <4>3
    <3> QED
      BY <3>1, <3>2
  <2> QED
    BY <2>1, <2>2, <2>3, <2>6
<1>7. ASSUME NEW t \in Threads, NewFails(t) PROVE Records'
  <2>0. karg[t] \in Keys
    BY <1>7 DEF Control, ControlOf, NewFails
  <2>1. Typed'
    BY <1>7, <2>0 DEF Typed, NewFails, Return, Goto, maps, history, Labels
  <2>2. Control'
    BY <1>7, <2>0, ConstantsAssumption DEF Typed, Control, ControlOf, NewFails, Return, Goto, maps, history
  <2>3. Known'
    BY <1>7, <2>0 DEF Typed, Control, ControlOf, Known, NewFails, Return, Goto, maps, history
  <2>4. CheckoutsCountUsers'
    BY <1>7 DEF CheckoutsCountUsers, Users, NewFails, maps, history
  <2> QED
    BY <2>1, <2>2, <2>3, <2>4
<1>8. ASSUME NEW t \in Threads, New(t) PROVE Records'
  <2>0. karg[t] \in Keys /\ inUse[t] = NoRes
    BY <1>8 DEF Control, ControlOf, New
  <2>1. PICK r \in Resources : /\ owner[r] = NoKey
                               /\ owner' = [owner EXCEPT ![r] = karg[t]]
                               /\ resources' = resources \cup {r}
                               /\ checkouts' = [checkouts EXCEPT ![r] = 1]
                               /\ inUse' = [inUse EXCEPT ![t] = r]
    BY <1>8 DEF New
  <2>2. Typed'
    BY <1>8, <2>0, <2>1 DEF Typed, New, Goto, Labels
  <2>3. Control'
    BY <1>8, <2>0, <2>1, <1>0, ConstantsAssumption DEF Typed, Control, ControlOf, New, Goto
  <2>4. Known'
    <3>1. \A x \in In(list) : x.value \in Resources \cup {NoRes} /\ x.key \in Keys
      BY NodeTypes
    <3>2. /\ pc \in [Threads -> Labels] /\ got \in [Threads -> Resources \cup {NoRes}]
          /\ inUse \in [Threads -> Resources \cup {NoRes}]
          /\ evicted \in [Threads -> Resources \cup {NoRes}]
          /\ owner \in [Resources -> Keys \cup {NoKey}]
      BY DEF Typed
    <3>3. got[t] = NoRes /\ karg[t] # NoKey
      BY <1>8, <2>0, ConstantsAssumption DEF Control, ControlOf, New
    <3>4. \A u \in Threads : pc'[u] = "put" => u = t \/ pc[u] = "put"
      BY <1>8, <3>2 DEF New, Goto
    <3>5. \A x \in In(list') : x.value # NoRes => x.value # r
      BY <1>8, <2>1, <3>1, ConstantsAssumption DEF Known, New
    <3>6. \A u \in Threads : got[u] # NoRes => got[u] # r
      <4> SUFFICES ASSUME NEW u \in Threads, got[u] # NoRes PROVE owner[got[u]] # NoKey
        BY <2>1
      <4>1. pc[u] # "idle"
        BY DEF Control, ControlOf
      <4> QED
        BY <4>1, ConstantsAssumption DEF Known, Control, ControlOf
    <3>7. \A u \in Threads : u # t => inUse'[u] = inUse[u] /\ (inUse[u] # NoRes => inUse[u] # r)
      BY <2>1, <3>2 DEF Known
    <3>8. inUse'[t] = r /\ owner'[r] = karg[t] /\ \A q \in Resources : q # r => owner'[q] = owner[q]
      BY <2>1, <3>2
    <3>9. /\ \A x \in In(list') : x.value # NoRes => owner'[x.value] = x.key
          /\ \A q \in expiries' : owner'[q] # NoKey
      BY <1>8, <3>1, <3>3, <3>5, <3>8 DEF Typed, Known, New
    <3>10. ASSUME NEW u \in Threads
           PROVE  /\ got'[u] # NoRes => owner'[got'[u]] = karg'[u]
                  /\ inUse'[u] # NoRes => owner'[inUse'[u]] # NoKey
                  /\ pc'[u] = "put" => owner'[inUse'[u]] = karg'[u]
                  /\ evicted'[u] # NoRes => owner'[evicted'[u]] # NoKey
      <4>1. got'[u] # NoRes => owner'[got'[u]] = karg'[u]
        BY <1>8, <3>2, <3>6, <3>8 DEF Known, New
      <4>2. inUse'[u] # NoRes => owner'[inUse'[u]] # NoKey
        BY <3>2, <3>3, <3>7, <3>8 DEF Known
      <4>3. pc'[u] = "put" => owner'[inUse'[u]] = karg'[u]
        <5>1. CASE u = t
          BY <1>8, <3>8, <5>1 DEF New
        <5>2. CASE u # t
          <6>1. pc'[u] = "put" => pc[u] = "put" /\ inUse[u] # NoRes
            BY <3>4, <5>2 DEF Control, ControlOf
          <6> QED
            BY <1>8, <3>2, <3>7, <3>8, <5>2, <6>1 DEF Known, New
        <5> QED
          BY <5>1, <5>2
      <4>4. evicted'[u] # NoRes => owner'[evicted'[u]] # NoKey
        BY <1>8, <3>2, <3>3, <3>8 DEF Known, New
      <4> QED
        BY <4>1, <4>2, <4>3, <4>4
    <3> QED
      BY <3>9, <3>10 DEF Known
  <2>5. /\ \A q \in Resources : q # r => Users(q)' = Users(q)
        /\ Cardinality(Users(r)') = Cardinality(Users(r)) + 1
    BY <1>8, <2>0, <2>1, OneUserMore DEF Typed
  <2>6. Cardinality(Users(r)) = 0
    <3>1. Users(r) = {}
      BY <2>1, <1>0 DEF Users, Known
    <3> QED
      BY <3>1, FS_EmptySet
  <2>7. CheckoutsCountUsers'
    BY <2>1, <2>5, <2>6 DEF Typed, CheckoutsCountUsers
  <2> QED
    BY <2>2, <2>3, <2>4, <2>7
<1>9. ASSUME NEW t \in Threads, Put(t) PROVE Records'
  <2>0. karg[t] \in Keys /\ inUse[t] \in Resources \cup {NoRes} /\ TTL \in Int /\ now \in Int
        /\ owner[inUse[t]] = karg[t]
    BY <1>9, ConstantsAssumption DEF Typed, Control, ControlOf, Known, Put
  <2>1. PICK z \in Nodes : /\ z.key = karg[t] /\ z.value = inUse[t]
                           /\ Replaces(list', list, karg[t], z)
    <3>1. \E z \in Nodes :
            /\ z.key = karg[t] /\ z.value = inUse[t]
            /\ Replaces(PutNode(list, karg[t], inUse[t], TTL, now), list, karg[t], z)
      BY <2>0, ListPut
    <3> QED
      BY <1>9, <3>1 DEF Put
  <2>2. Typed'
    <3>1. {n.value : n \in NodesOf(list, karg[t])} \ {NoRes} \subseteq Resources
      <4>1. In(list) \subseteq Nodes
        BY InIs DEF Typed
      <4>2. \A n \in NodesOf(list, karg[t]) : n \in Nodes
        BY <4>1, NodesOfIs
      <4> QED
        BY <4>2 DEF Nodes
    <3>2. replaced' \subseteq Resources
      BY <1>9, <3>1 DEF Put, Typed
    <3> QED
      BY <1>9, <2>0, <2>1, <3>2 DEF Replaces, Typed, Put, Return, Goto, maps, Labels
  <2>3. Control'
    BY <1>9, <2>0, ConstantsAssumption DEF Typed, Control, ControlOf, Put, Return, Goto, maps, history
  <2>4. Known'
    BY <1>9, <2>0, <2>1 DEF Replaces, Typed, Control, ControlOf, Known, Put, Return, Goto, maps, history
  <2>5. CheckoutsCountUsers'
    BY <1>9 DEF CheckoutsCountUsers, Users, Put, maps, history
  <2> QED
    BY <2>2, <2>3, <2>4, <2>5
<1>10. ASSUME NEW t \in Threads, PutInvalid(t) PROVE Records'
  <2>0. karg[t] \in Keys /\ now \in Int
    BY <1>10 DEF Typed, Control, ControlOf, PutInvalid
  <2>1. PICK z \in Nodes : /\ z.key = karg[t] /\ z.value = NoRes
                           /\ Replaces(list', list, karg[t], z)
    <3>1. NoRes \in Resources \cup {NoRes} /\ -1 \in Int
      OBVIOUS
    <3>2. \E z \in Nodes :
            /\ z.key = karg[t] /\ z.value = NoRes
            /\ Replaces(PutNode(list, karg[t], NoRes, -1, now), list, karg[t], z)
      BY <2>0, <3>1, ListPut
    <3> QED
      BY <1>10, <3>2 DEF PutInvalid
  <2>2. Typed'
    BY <1>10, <2>0, <2>1 DEF Replaces, Typed, PutInvalid, Goto, locks, maps, history, Labels
  <2>3. Control'
    BY <1>10, <2>0 DEF Typed, Control, ControlOf, PutInvalid, Goto, locks, maps, history
  <2>4. Known'
    BY <1>10, <2>0, <2>1
    DEF Replaces, Typed, Control, ControlOf, Known, PutInvalid, Goto, locks, maps, history
  <2>5. CheckoutsCountUsers'
    BY <1>10 DEF CheckoutsCountUsers, Users, PutInvalid, maps, history
  <2> QED
    BY <2>2, <2>3, <2>4, <2>5
<1>11. ASSUME NEW t \in Threads, InvalidateEvicts(t) PROVE Records'
  <2>0. /\ got[t] \in Resources \cup {NoRes} /\ OnEvictedBody(got[t]) /\ UNCHANGED inUse
        /\ karg[t] \in Keys /\ owner[got[t]] = karg[t]
    BY <1>11 DEF Typed, Control, ControlOf, Known, InvalidateEvicts
  <2>1. /\ resources' \subseteq Resources /\ checkouts' \in [Resources -> Int]
        /\ cleaned' \in [Resources -> Nat] /\ overtaken' \subseteq Resources
        /\ \A q \in expiries' : q \in expiries \/ (q = got[t] /\ got[t] # NoRes)
        /\ CheckoutsCountUsers'
    BY <2>0, OnEvictedBodyRecords
  <2>2. Typed'
    BY <1>11, <2>0, <2>1 DEF Typed, InvalidateEvicts, Return, Goto, Labels
  <2>3. Control'
    BY <1>11, <2>0, ConstantsAssumption
    DEF Typed, Control, ControlOf, InvalidateEvicts, Return, Goto
  <2>4. Known'
    BY <1>11, <2>0, <2>1, ConstantsAssumption
    DEF Typed, Control, ControlOf, Known, InvalidateEvicts, Return, Goto
  <2> QED
    BY <2>1, <2>2, <2>3, <2>4
<1>12. ASSUME NEW t \in Threads, InvalidateNothing(t) PROVE Records'
  <2>0. karg[t] \in Keys
    BY <1>12 DEF Control, ControlOf, InvalidateNothing
  <2>1. Typed'
    BY <1>12, <2>0 DEF Typed, InvalidateNothing, Return, Goto, maps, history, Labels
  <2>2. Control'
    BY <1>12, <2>0, ConstantsAssumption
    DEF Typed, Control, ControlOf, InvalidateNothing, Return, Goto, maps, history
  <2>3. Known'
    BY <1>12, <2>0 DEF Typed, Control, ControlOf, Known, InvalidateNothing, Return, Goto, maps, history
  <2>4. CheckoutsCountUsers'
    BY <1>12 DEF CheckoutsCountUsers, Users, InvalidateNothing, maps, history
  <2> QED
    BY <2>1, <2>2, <2>3, <2>4
<1>13. ASSUME NEW t \in Threads, Checkin(t) PROVE Records'
  <2>0. inUse[t] \in Resources
    BY <1>13 DEF Typed, Checkin
  <2>1. Typed'
    <3>1. /\ expiries' \subseteq Resources /\ cleaned' \in [Resources -> Nat]
          /\ overtaken' \subseteq Resources
      <4>1. CASE CleanUp(inUse[t]) /\ expiries' = expiries \ {inUse[t]}
        BY <2>0, <4>1, CleanUpRecords DEF Typed
      <4>2. CASE UNCHANGED <<expiries, cleaned, overtaken>>
        BY <4>2 DEF Typed
      <4> QED
        BY <1>13, <4>1, <4>2 DEF Checkin
    <3>2. checkouts' \in [Resources -> Int] /\ inUse' \in [Threads -> Resources \cup {NoRes}]
      BY <1>13, <2>0 DEF Typed, Checkin
    <3> QED
      BY <1>13, <3>1, <3>2 DEF Typed, Checkin, locks
  <2>2. Control'
    BY <1>13 DEF Typed, Control, ControlOf, Checkin, locks
  <2>3. Known'
    BY <1>13, <2>0 DEF Typed, Control, ControlOf, Known, Checkin, LastCheckin, locks
  <2>4. PICK r \in Resources : r = inUse[t]
    BY <2>0
  <2>5. /\ \A q \in Resources : q # r => Users(q)' = Users(q)
        /\ Cardinality(Users(r)) \in Nat \ {0}
        /\ Cardinality(Users(r)') = Cardinality(Users(r)) - 1
    <3>1. inUse \in [Threads -> Resources \cup {NoRes}] /\ inUse' = [inUse EXCEPT ![t] = NoRes]
      BY <1>13 DEF Typed, Checkin
    <3> QED
      BY <2>4, <3>1, OneUserLess
  <2>6. checkouts[r] = Cardinality(Users(r))
    <3>1. t \in Users(r)
      BY <2>4 DEF Users
    <3> QED
      BY <3>1 DEF CheckoutsCountUsers
  <2>7. CheckoutsCountUsers'
    <3> SUFFICES ASSUME NEW q \in Resources
                 PROVE  IF checkouts'[q] = -1 THEN Users(q)' = {}
                        ELSE checkouts'[q] = Cardinality(Users(q)')
      BY DEF CheckoutsCountUsers
    <3>1. checkouts' = [checkouts EXCEPT ![r] = @ - 1] /\ checkouts \in [Resources -> Int]
      BY <1>13, <2>4 DEF Typed, Checkin
    <3>2. CASE q # r
      BY <2>5, <3>1, <3>2 DEF CheckoutsCountUsers
    <3>3. CASE q = r
      <4>1. checkouts'[r] = Cardinality(Users(r)') /\ checkouts'[r] # -1
        BY <2>5, <2>6, <3>1
      <4> QED
        BY <3>3, <4>1
    <3> QED
      BY <3>2, <3>3
  <2> QED
    BY <2>1, <2>2, <2>3, <2>7
<1>14. ASSUME Tick PROVE Records'
  <2>1. Typed'
    BY <1>14, ConstantsAssumption DEF Typed, Tick, locks, maps, history
  <2>2. Control' /\ Known' /\ CheckoutsCountUsers'
    BY <1>14 DEF Control, ControlOf, Known, CheckoutsCountUsers, Users, Tick, locks, maps, history
  <2> QED
    BY <2>1, <2>2
<1>15. ASSUME UNCHANGED vars PROVE Records'
  BY <1>15 DEF Typed, Control, ControlOf, Known, CheckoutsCountUsers, Users, vars, locks, maps, history
<1> QED
  BY <1>1, <1>2, <1>3, <1>4, <1>5, <1>6, <1>7, <1>8, <1>9, <1>10, <1>11, <1>12, <1>13,
     <1>14, <1>15 DEF Next, Step

\* What a step does not touch stays where it is, or leaves its place.
LEMMA StageKept ==
  ASSUME NEW r \in Resources, StageOf(r),
         Listed(r)' => Listed(r), r \in expiries' <=> r \in expiries,
         r \in resources' <=> r \in resources,
         checkouts'[r] = checkouts[r], owner'[r] = owner[r], cleaned'[r] = cleaned[r],
         \A u \in Threads : /\ inUse'[u] = r => inUse[u] = r
                            /\ got'[u] = r => got[u] = r \/ Listed(r)
                            /\ Evicting(u, r)' => Evicting(u, r)
                            /\ Invalidating(u, r)' => Invalidating(u, r)
                            /\ Registering(u, r)' => Registering(u, r)
  PROVE  StageOf(r)'
<1>1. Intact(r)' <=> Intact(r)
  BY DEF Intact, Kept
<1> HIDE DEF Intact, Listed, Evicting, Invalidating, Registering
<1>2. Listed(r)' => Intact(r)' /\ r \notin expiries'
  BY <1>1 DEF StageOf
<1>3. r \in expiries' => Intact(r)' /\ checkouts'[r] > 0
  BY <1>1 DEF StageOf
<1>4. /\ owner'[r] = NoKey => cleaned'[r] = 0
      /\ cleaned'[r] <= 1
  BY DEF StageOf
<1>5. ASSUME NEW u \in Threads
      PROVE  /\ inUse'[u] = r \/ got'[u] = r => Intact(r)'
             /\ Evicting(u, r)' => Intact(r)' /\ ~Listed(r)' /\ r \notin expiries'
             /\ Invalidating(u, r)' => ~Listed(r)' /\ \A v \in Threads : ~Evicting(v, r)'
             /\ Registering(u, r)' =>
                  /\ ~Listed(r)' /\ r \notin expiries'
                  /\ \A v \in Threads : ~Evicting(v, r)' /\ ~Invalidating(v, r)'
  BY <1>1 DEF StageOf
<1> QED
  BY <1>2, <1>3, <1>4, <1>5 DEF StageOf

\* An id is the value of one node at most.
LEMMA OneNodeOf ==
  ASSUME Records, NEW x \in In(list), NEW y \in In(list), x.value = y.value, x.value # NoRes
  PROVE  x = y
<1>1. Distinct(list) /\ x.key = y.key
  BY DEF Records, Typed, Known
<1> QED
  BY <1>1, OneNode

\* Two calls are never in progress for the same key.
LEMMA OneCallPerKey ==
  ASSUME Records, NEW t \in Threads, NEW u \in Threads, pc[t] # "idle", pc[u] # "idle",
         karg[t] = karg[u]
  PROVE  t = u
BY DEF Records, Control, ControlOf

\* A resource without a user has no checkout.
LEMMA NobodyUses ==
  ASSUME Records, IsFiniteSet(Threads), NEW r \in Resources, checkouts[r] = 0
  PROVE  \A u \in Threads : inUse[u] # r
<1>1. IsFiniteSet(Users(r)) /\ Cardinality(Users(r)) = 0
  BY FS_Subset DEF Records, CheckoutsCountUsers, Users
<1>2. Users(r) = {}
  BY <1>1, FS_EmptySet
<1> QED
  BY <1>2 DEF Users

\* onEvicted is done with an id: it is cleaned up, or left to its last user.
LEMMA StageEvicted ==
  ASSUME Records, Stages, IsFiniteSet(Threads), NEW t \in Threads,
         NEW r \in Resources \cup {NoRes}, r # NoRes => Going(t, r),
         OnEvictedBody(r), UNCHANGED <<list, inUse, owner>>,
         \A u \in Threads, q \in Resources :
            /\ got'[u] = q => got[u] = q
            /\ Evicting(u, q)' => Evicting(u, q)
            /\ Invalidating(u, q)' => Invalidating(u, q)
            /\ Registering(u, q)' => Registering(u, q),
         r \in Resources \ overtaken => \A u \in Threads : ~Evicting(u, r)'
  PROVE  Stages'
<1>0. /\ checkouts \in [Resources -> Int] /\ cleaned \in [Resources -> Nat]
      /\ \A p \in Resources : p # NoRes
  BY NoResNotResource DEF Records, Typed
<1>1. overtaken \subseteq overtaken'
  BY DEF OnEvictedBody, CleanUp
<1> SUFFICES ASSUME NEW q \in Resources, q \notin overtaken' PROVE StageOf(q)'
  BY DEF Stages
<1>2. StageOf(q) /\ q \notin overtaken
  BY <1>1 DEF Stages
<1>3. (Listed(q)' <=> Listed(q)) /\ owner'[q] = owner[q]
  BY DEF Listed
<1>4. CASE q # r
  <2>1. /\ q \in expiries' <=> q \in expiries
        /\ q \in resources' <=> q \in resources
        /\ checkouts'[q] = checkouts[q] /\ cleaned'[q] = cleaned[q]
    BY <1>0, <1>4 DEF OnEvictedBody, CleanUp, maps
  <2> HIDE DEF Evicting, Invalidating, Registering, Listed, StageOf
  <2> QED
    BY <1>2, <1>3, <2>1, StageKept
<1>5. CASE q = r
  <2>0. Going(t, q)
    BY <1>0, <1>5
  <2>1. /\ Intact(q) /\ ~Listed(q)
        /\ \A u \in Threads : ~Registering(u, q)
    <3> HIDE DEF Listed, Intact, Registering
    <3>1. Evicting(t, q) \/ (Invalidating(t, q) /\ got[t] = q)
      BY <2>0 DEF Going, Invalidating
    <3> HIDE DEF Evicting, Invalidating
    <3> QED
      BY <1>2, <3>1 DEF StageOf
  <2>2. owner[q] # NoKey
    BY <1>0, <2>0, ConstantsAssumption
    DEF Going, Evicting, Invalidating, Records, Known, Control, ControlOf
  <2>3. \A u \in Threads : ~Evicting(u, q)' /\ ~Registering(u, q)'
    BY <1>2, <1>5, <2>1
  <2>4. CASE checkouts[q] = 0
    <3>1. \A u \in Threads : inUse'[u] # q
      BY <2>4, NobodyUses
    <3>2. q \notin expiries
      <4> HIDE DEF Listed, Intact, Registering, Evicting, Invalidating
      <4> QED
        BY <1>2, <2>4 DEF StageOf
    <3>3. CleanUp(q) /\ expiries' = expiries
      BY <1>0, <1>5, <2>4 DEF OnEvictedBody
    <3>4. cleaned'[q] = 1 /\ \A u \in Threads : got'[u] # q
      BY <1>0, <2>1, <3>3 DEF CleanUp, Intact, Kept
    <3>5. \A u \in Threads : ~Invalidating(u, q)'
      BY <3>4 DEF Invalidating
    <3> HIDE DEF Listed, Intact, Registering, Evicting, Invalidating
    <3> QED
      BY <1>3, <2>1, <2>2, <2>3, <3>1, <3>2, <3>3, <3>4, <3>5 DEF StageOf
  <2>5. CASE checkouts[q] # 0
    <3>1. /\ checkouts[q] > 0 /\ expiries' = expiries \cup {q}
          /\ UNCHANGED <<resources, checkouts, cleaned>>
      BY <1>0, <1>5, <2>1, <2>5 DEF OnEvictedBody, Intact
    <3>2. Intact(q)' /\ cleaned[q] = 0
      BY <2>1, <3>1 DEF Intact, Kept
    <3> HIDE DEF Listed, Intact, Registering, Evicting, Invalidating
    <3> QED
      BY <1>3, <2>1, <2>2, <2>3, <3>1, <3>2 DEF StageOf
  <2> QED
    BY <2>4, <2>5
<1> QED
  BY <1>4, <1>5

\* The second layer holds of a new cache.
LEMMA InPlaceInit == Init => InPlace
<1> SUFFICES ASSUME Init PROVE InPlace
  OBVIOUS
<1>1. In(list) = {}
  BY DEF Init, In
<1>2. \A r \in Resources : r # NoRes
  BY NoResNotResource
<1>3. Stages
  BY <1>1, <1>2 DEF Init, Stages, StageOf, Listed, Evicting, Invalidating, Registering
<1>4. Overtakes
  BY DEF Init, Overtakes
<1> QED
  BY <1>3, <1>4 DEF InPlace

\* What overtakes a call is a clean-up.
LEMMA OvertakesStep ==
  ASSUME Records, Overtakes, [Next]_vars
  PROVE  Overtakes'
<1>0. cleaned \in [Resources -> Nat] /\ overtaken \subseteq Resources
  BY DEF Records, Typed
<1>1. ASSUME NEW r \in Resources, CleanUp(r) PROVE Overtakes'
  BY <1>0, <1>1 DEF CleanUp, Overtakes
<1>2. ASSUME UNCHANGED <<cleaned, overtaken>> PROVE Overtakes'
  BY <1>2 DEF Overtakes
<1>3. ASSUME NEW r \in Resources \cup {NoRes}, OnEvictedBody(r) PROVE Overtakes'
  <2>1. UNCHANGED <<cleaned, overtaken>> \/ (r \in Resources /\ CleanUp(r))
    BY <1>3 DEF OnEvictedBody
  <2> QED
    BY <1>1, <1>2, <2>1
<1>4. ASSUME NEW t \in Threads, OnEvicted(t) \/ InvalidateEvicts(t) PROVE Overtakes'
  <2>1. PICK r \in Resources \cup {NoRes} : OnEvictedBody(r)
    BY <1>4 DEF OnEvicted, InvalidateEvicts, Records, Typed
  <2> QED
    BY <1>3, <2>1
<1>5. ASSUME NEW t \in Threads, Checkin(t) PROVE Overtakes'
  <2>1. UNCHANGED <<cleaned, overtaken>> \/ \E r \in Resources : CleanUp(r)
    BY <1>5 DEF Checkin, Records, Typed
  <2> QED
    BY <1>1, <1>2, <2>1
<1>6. \/ UNCHANGED <<cleaned, overtaken>>
      \/ \E t \in Threads : OnEvicted(t) \/ InvalidateEvicts(t) \/ Checkin(t)
  BY DEF Next, Step, Begin, Get, EvictHead, EvictEnd, CheckoutHit, NewFails, New, Put,
         PutInvalid, InvalidateNothing, Tick, vars, history
<1> QED
  BY <1>2, <1>4, <1>5, <1>6

\* Every step keeps every id that was not overtaken in its place.
LEMMA StagesStep ==
  ASSUME Records, Stages, IsFiniteSet(Threads), [Next]_vars
  PROVE  Stages'
<1>0. \A r \in Resources : r # NoRes
  BY NoResNotResource
<1>a. ASSUME UNCHANGED <<list, maps, inUse, owner, cleaned, overtaken>>,
             \A u \in Threads, r \in Resources :
               /\ got'[u] = r => got[u] = r
               /\ Evicting(u, r)' => Evicting(u, r)
               /\ Invalidating(u, r)' => Invalidating(u, r)
               /\ Registering(u, r)' => Registering(u, r)
      PROVE  Stages'
  <2> SUFFICES ASSUME NEW r \in Resources \ overtaken PROVE StageOf(r)'
    BY <1>a DEF Stages
  <2>1. StageOf(r) /\ Listed(r)' = Listed(r)
    BY <1>a DEF Stages, Listed
  <2> HIDE DEF Evicting, Invalidating, Registering, Listed, StageOf
  <2> QED
    BY <1>a, <2>1, StageKept DEF maps
<1>1. ASSUME NEW t \in Threads, NEW c \in {"checkout", "invalidate"}, NEW k \in Keys,
             Begin(t, c, k)
      PROVE  Stages'
  <2>1. /\ pc' = [pc EXCEPT ![t] = "get"] /\ pc \in [Threads -> Labels]
        /\ UNCHANGED <<list, maps, got, evicted, inUse, owner, cleaned, overtaken>>
    BY <1>1 DEF Begin, Goto, history, Records, Typed
  <2> QED
    BY <1>a, <2>1 DEF Evicting, Invalidating, Registering
<1>2. ASSUME NEW t \in Threads, Get(t) PROVE Stages'
  <2>0. /\ pc' = [pc EXCEPT ![t] = "evict"] /\ pc[t] = "get"
        /\ UNCHANGED <<maps, karg, evicted, inUse, owner, cleaned, overtaken>>
        /\ pc \in [Threads -> Labels] /\ got \in [Threads -> Resources \cup {NoRes}]
    BY <1>2 DEF Get, Goto, history, Records, Typed
  <2>1. CASE UNCHANGED <<list, got>>
    BY <1>a, <2>0, <2>1 DEF Evicting, Invalidating, Registering
  <2>2. CASE \E n \in {m \in NodesOf(list, karg[t]) : Valid(m, now)} :
               /\ got' = [got EXCEPT ![t] = n.value]
               /\ list' = IF RefreshTTL THEN Refresh(list, n, now) ELSE list
    <3>1. PICK n \in In(list) : /\ n.key = karg[t] /\ got' = [got EXCEPT ![t] = n.value]
                                /\ list' = IF RefreshTTL THEN Refresh(list, n, now) ELSE list
      BY <2>2, NodesOfIs
    <3>2. PICK z : /\ z.value = n.value
                   /\ In(list') = {x \in In(list) : x.key # n.key} \cup {z}
      BY <3>1, ListHit DEF Records
    <3> SUFFICES ASSUME NEW r \in Resources \ overtaken PROVE StageOf(r)'
      BY <2>0 DEF Stages
    <3>3. StageOf(r) /\ (Listed(r)' => Listed(r))
      BY <3>2 DEF Stages, Listed
    <3>4. \A u \in Threads : /\ got'[u] = r => got[u] = r \/ Listed(r)
                             /\ Evicting(u, r)' => Evicting(u, r)
                             /\ Invalidating(u, r)' => Invalidating(u, r)
                             /\ Registering(u, r)' => Registering(u, r)
      BY <2>0, <3>1 DEF Listed, Evicting, Invalidating, Registering
    <3> HIDE DEF Evicting, Invalidating, Registering, Listed, StageOf
    <3> QED
      BY <2>0, <3>3, <3>4, StageKept DEF maps
  <2> QED
    BY <1>2, <2>1, <2>2 DEF Get
<1>3. ASSUME NEW t \in Threads, EvictHead(t) PROVE Stages'
  <2> DEFINE h == Head(list)
  <2>0. /\ pc' = [pc EXCEPT ![t] = "onEvicted"] /\ pc[t] = "evict"
        /\ evicted' = [evicted EXCEPT ![t] = h.value]
        /\ UNCHANGED <<maps, karg, got, inUse, owner, cleaned, overtaken>>
        /\ pc \in [Threads -> Labels] /\ evicted \in [Threads -> Resources \cup {NoRes}]
    BY <1>3 DEF EvictHead, Goto, locks, history, Records, Typed
  <2>1. h \in In(list) /\ In(list') = {x \in In(list) : x.key # h.key}
    BY <1>3, HeadIs DEF EvictHead, Records, Typed
  <2>2. \A x \in In(list) : x.value # NoRes /\ x.value = h.value => x = h
    BY <2>1, OneNodeOf
  <2> HIDE DEF h
  <2> SUFFICES ASSUME NEW r \in Resources \ overtaken PROVE StageOf(r)'
    BY <2>0 DEF Stages
  <2>3. StageOf(r) /\ (Listed(r)' => Listed(r)) /\ r # NoRes
    BY <1>0, <2>1 DEF Stages, Listed
  <2>4. \A u \in Threads : /\ Invalidating(u, r)' => Invalidating(u, r)
                           /\ Registering(u, r)' => Registering(u, r)
    BY <2>0 DEF Invalidating, Registering
  <2>5. CASE r # h.value
    <3>1. \A u \in Threads : Evicting(u, r)' => Evicting(u, r)
      BY <2>0, <2>5 DEF Evicting
    <3> HIDE DEF Evicting, Invalidating, Registering, Listed, StageOf
    <3> QED
      BY <2>0, <2>3, <2>4, <3>1, StageKept DEF maps
  <2>6. CASE r = h.value
    <3>1. Listed(r) /\ ~Listed(r)'
      BY <2>1, <2>2, <2>3, <2>6 DEF Listed
    <3>2. Intact(r)' /\ r \notin expiries'
      BY <2>0, <2>3, <3>1 DEF StageOf, Intact, Kept, maps
    <3>3. \A u \in Threads : ~Invalidating(u, r)' /\ ~Registering(u, r)'
      <4> HIDE DEF Evicting, Invalidating, Registering, Listed, Intact
      <4> QED
        BY <2>3, <2>4, <3>1 DEF StageOf
    <3>4. owner'[r] = owner[r] /\ cleaned'[r] = cleaned[r]
      BY <2>0
    <3> HIDE DEF Evicting, Invalidating, Registering, Listed, Intact
    <3> QED
      BY <2>3, <3>1, <3>2, <3>3, <3>4 DEF StageOf
  <2> QED
    BY <2>5, <2>6
<1>4. ASSUME NEW t \in Threads, EvictEnd(t) \/ NewFails(t) \/ InvalidateNothing(t)
      PROVE  Stages'
  <2>1. /\ UNCHANGED <<list, maps, evicted, inUse, owner, cleaned, overtaken>>
        /\ \A u \in Threads : /\ pc'[u] = "put" => pc[u] = "put"
                              /\ pc'[u] = "invalidated" => pc[u] = "invalidated"
                              /\ got'[u] = got[u] \/ got'[u] = NoRes
    BY <1>4 DEF EvictEnd, NewFails, InvalidateNothing, Return, Goto, history, Records, Typed
  <2> QED
    BY <1>0, <1>a, <2>1 DEF Evicting, Invalidating, Registering
<1>5. ASSUME NEW t \in Threads, OnEvicted(t) PROVE Stages'
  <2>0. /\ pc' = [pc EXCEPT ![t] = "evict"] /\ pc[t] = "onEvicted"
        /\ evicted' = [evicted EXCEPT ![t] = NoRes] /\ OnEvictedBody(evicted[t])
        /\ UNCHANGED <<list, got, inUse, owner>>
        /\ pc \in [Threads -> Labels] /\ evicted \in [Threads -> Resources \cup {NoRes}]
    BY <1>5 DEF OnEvicted, Goto, Records, Typed
  <2>1. PICK r \in Resources \cup {NoRes} : r = evicted[t]
    BY <2>0
  <2>2. r # NoRes => Going(t, r)
    BY <2>1 DEF Going, Evicting
  <2>3. ASSUME NEW u \in Threads, NEW q \in Resources
        PROVE  /\ got'[u] = q => got[u] = q
               /\ Evicting(u, q)' => Evicting(u, q)
               /\ Invalidating(u, q)' => Invalidating(u, q)
               /\ Registering(u, q)' => Registering(u, q)
    BY <1>0, <2>0 DEF Evicting, Invalidating, Registering
  <2>4. ASSUME NEW u \in Threads, r \in Resources PROVE ~Evicting(u, r)'
    <3>1. u # t => evicted[u] = NoRes
      BY <2>0 DEF Records, Control, ControlOf
    <3> QED
      BY <1>0, <2>0, <2>4, <3>1 DEF Evicting
  <2>5. OnEvictedBody(r)
    BY <2>0, <2>1
  <2> HIDE DEF Going, Evicting, Invalidating, Registering
  <2> QED
    BY <2>0, <2>2, <2>3, <2>4, <2>5, StageEvicted
<1>6. ASSUME NEW t \in Threads, CheckoutHit(t) PROVE Stages'
  <2>0. /\ pc' = [pc EXCEPT ![t] = "idle"] /\ pc[t] = "found"
        /\ got' = [got EXCEPT ![t] = NoRes] /\ inUse' = [inUse EXCEPT ![t] = got[t]]
        /\ checkouts' = [checkouts EXCEPT ![got[t]] = OneMore(@)]
        /\ UNCHANGED <<list, resources, expiries, evicted, owner, cleaned, overtaken>>
        /\ pc \in [Threads -> Labels] /\ got \in [Threads -> Resources \cup {NoRes}]
        /\ inUse \in [Threads -> Resources \cup {NoRes}]
        /\ checkouts \in [Resources -> Int]
    BY <1>6 DEF CheckoutHit, Return, Goto, history, Records, Typed
  <2> SUFFICES ASSUME NEW r \in Resources \ overtaken PROVE StageOf(r)'
    BY <2>0 DEF Stages
  <2>1. StageOf(r) /\ (Listed(r)' <=> Listed(r)) /\ r # NoRes
    BY <1>0, <2>0 DEF Stages, Listed
  <2>2. \A u \in Threads : /\ got'[u] = r => got[u] = r
                           /\ Evicting(u, r)' => Evicting(u, r)
                           /\ Invalidating(u, r)' => Invalidating(u, r)
                           /\ Registering(u, r)' => Registering(u, r)
    BY <2>0, <2>1 DEF Evicting, Invalidating, Registering
  <2>3. CASE r # got[t]
    <3>1. checkouts'[r] = checkouts[r] /\ \A u \in Threads : inUse'[u] = r => inUse[u] = r
      BY <2>0, <2>3
    <3> HIDE DEF Evicting, Invalidating, Registering, Listed, StageOf
    <3> QED
      BY <2>0, <2>1, <2>2, <3>1, StageKept
  <2>4. CASE r = got[t]
    <3>1. Intact(r)
      BY <2>1, <2>4 DEF StageOf
    <3>2. Intact(r)' /\ checkouts'[r] > 0
      BY <2>0, <2>4, <3>1 DEF Intact, Kept, OneMore
    <3>3. expiries' = expiries /\ owner'[r] = owner[r] /\ cleaned'[r] = cleaned[r]
      BY <2>0
    <3> HIDE DEF Evicting, Invalidating, Registering, Listed, Intact
    <3> QED
      BY <2>1, <2>2, <3>1, <3>2, <3>3 DEF StageOf
  <2> QED
    BY <2>3, <2>4
<1>7. ASSUME NEW t \in Threads, New(t) PROVE Stages'
  <2>0. /\ pc' = [pc EXCEPT ![t] = "put"] /\ pc[t] = "new"
        /\ UNCHANGED <<list, expiries, got, evicted, cleaned, overtaken>>
        /\ pc \in [Threads -> Labels]
        /\ inUse \in [Threads -> Resources \cup {NoRes}]
        /\ owner \in [Resources -> Keys \cup {NoKey}]
        /\ checkouts \in [Resources -> Int]
    BY <1>7 DEF New, Goto, Records, Typed
  <2>1. PICK q \in Resources : /\ owner[q] = NoKey
                               /\ owner' = [owner EXCEPT ![q] = karg[t]]
                               /\ resources' = resources \cup {q}
                               /\ checkouts' = [checkouts EXCEPT ![q] = 1]
                               /\ inUse' = [inUse EXCEPT ![t] = q]
    BY <1>7 DEF New
  <2> SUFFICES ASSUME NEW r \in Resources \ overtaken PROVE StageOf(r)'
    BY <2>0 DEF Stages
  <2>2. StageOf(r) /\ (Listed(r)' <=> Listed(r)) /\ r # NoRes
    BY <1>0, <2>0 DEF Stages, Listed
  <2>3. CASE r # q
    <3>1. /\ checkouts'[r] = checkouts[r] /\ owner'[r] = owner[r] /\ cleaned'[r] = cleaned[r]
          /\ r \in resources' <=> r \in resources
          /\ \A u \in Threads : inUse'[u] = r => inUse[u] = r
      BY <2>0, <2>1, <2>3
    <3>2. \A u \in Threads : /\ got'[u] = r => got[u] = r
                             /\ Evicting(u, r)' => Evicting(u, r)
                             /\ Invalidating(u, r)' => Invalidating(u, r)
                             /\ Registering(u, r)' => Registering(u, r)
      BY <2>0, <2>1, <2>3 DEF Evicting, Invalidating, Registering
    <3> HIDE DEF Evicting, Invalidating, Registering, Listed, StageOf
    <3> QED
      BY <2>0, <2>2, <3>1, <3>2, StageKept
  <2>4. CASE r = q
    <3>1. ~Listed(r)
      <4>1. \A x \in In(list) : x.key \in Keys
        BY NodeTypes DEF Records
      <4> QED
        BY <2>1, <2>2, <2>4, <4>1, ConstantsAssumption DEF Listed, Records, Known
    <3>2. r \notin expiries
      BY <2>1, <2>4 DEF Records, Known
    <3>3. ASSUME NEW u \in Threads PROVE ~Evicting(u, r)' /\ ~Invalidating(u, r)'
      <4>1. evicted[u] # r
        BY <2>1, <2>2, <2>4 DEF Records, Known
      <4>2. got[u] # r
        BY <2>1, <2>2, <2>4, ConstantsAssumption DEF Records, Known, Control, ControlOf
      <4> QED
        BY <2>0, <4>1, <4>2 DEF Evicting, Invalidating
    <3>4. Intact(r)' /\ cleaned'[r] = 0
      BY <2>0, <2>1, <2>2, <2>4 DEF Intact, Kept, StageOf
    <3>5. ~Listed(r)' /\ r \notin expiries'
      BY <2>0, <2>2, <3>1, <3>2
    <3> HIDE DEF Evicting, Invalidating, Registering, Listed, Intact
    <3> QED
      BY <3>3, <3>4, <3>5 DEF StageOf
  <2> QED
    BY <2>3, <2>4
<1>8. ASSUME NEW t \in Threads, Put(t) PROVE Stages'
  <2>0. /\ pc' = [pc EXCEPT ![t] = "idle"] /\ pc[t] = "put"
        /\ got' = [got EXCEPT ![t] = NoRes]
        /\ UNCHANGED <<maps, evicted, inUse, owner, cleaned, overtaken>>
        /\ pc \in [Threads -> Labels] /\ got \in [Threads -> Resources \cup {NoRes}]
    BY <1>8 DEF Put, Return, Goto, Records, Typed
  <2>1. PICK z : /\ z.value = inUse[t]
                 /\ In(list') = {x \in In(list) : x.key # karg[t]} \cup {z}
    <3>1. /\ karg[t] \in Keys /\ inUse[t] \in Resources \cup {NoRes} /\ TTL \in Int
          /\ list' = PutNode(list, karg[t], inUse[t], TTL, now)
      BY <1>8, ConstantsAssumption DEF Put, Records, Typed, Control, ControlOf
    <3> QED
      BY <3>1, ListPutIn DEF Records
  <2> SUFFICES ASSUME NEW r \in Resources \ overtaken PROVE StageOf(r)'
    BY <2>0 DEF Stages
  <2>2. StageOf(r) /\ r # NoRes
    BY <1>0 DEF Stages
  <2>3. \A u \in Threads : /\ got'[u] = r => got[u] = r
                           /\ Evicting(u, r)' => Evicting(u, r)
                           /\ Invalidating(u, r)' => Invalidating(u, r)
                           /\ Registering(u, r)' => Registering(u, r) /\ u # t
    BY <2>0, <2>2 DEF Evicting, Invalidating, Registering
  <2>4. CASE r # inUse[t]
    <3>1. Listed(r)' => Listed(r)
      BY <2>1, <2>4 DEF Listed
    <3> HIDE DEF Evicting, Invalidating, Registering, Listed, StageOf
    <3> QED
      BY <2>0, <2>2, <2>3, <3>1, StageKept DEF maps
  <2>5. CASE r = inUse[t]
    <3>1. /\ Intact(r) /\ r \notin expiries
          /\ \A u \in Threads : ~Evicting(u, r) /\ ~Invalidating(u, r)
      <4>1. Registering(t, r) /\ inUse[t] = r
        BY <2>0, <2>5 DEF Registering
      <4> HIDE DEF Evicting, Invalidating, Registering, Listed, Intact
      <4> QED
        BY <2>2, <4>1 DEF StageOf
    <3>2. \A u \in Threads : ~Registering(u, r)'
      <4>1. \A u \in Threads : Registering(u, r) => u = t
        BY <2>0 DEF Registering, Records, Control, ControlOf
      <4> QED
        BY <2>3, <4>1
    <3>3. Intact(r)' /\ expiries' = expiries /\ owner'[r] = owner[r] /\ cleaned'[r] = cleaned[r]
      BY <2>0, <3>1 DEF Intact, Kept, maps
    <3> HIDE DEF Evicting, Invalidating, Registering, Listed, Intact
    <3> QED
      BY <2>2, <2>3, <3>1, <3>2, <3>3 DEF StageOf
  <2> QED
    BY <2>4, <2>5
<1>9. ASSUME NEW t \in Threads, PutInvalid(t) PROVE Stages'
  <2>0. /\ pc' = [pc EXCEPT ![t] = "invalidated"] /\ pc[t] = "found" /\ tmu = NoThread
        /\ UNCHANGED <<maps, karg, got, evicted, inUse, owner, cleaned, overtaken>>
        /\ pc \in [Threads -> Labels] /\ got[t] # NoRes /\ owner[got[t]] = karg[t]
    BY <1>9 DEF PutInvalid, Goto, locks, history, Records, Typed, Control, ControlOf, Known
  <2>1. PICK z : /\ z.value = NoRes
                 /\ In(list') = {x \in In(list) : x.key # karg[t]} \cup {z}
    <3>1. /\ karg[t] \in Keys /\ NoRes \in Resources \cup {NoRes} /\ -1 \in Int
          /\ list' = PutNode(list, karg[t], NoRes, -1, now)
      BY <1>9 DEF PutInvalid, Records, Control, ControlOf
    <3> QED
      BY <3>1, ListPutIn DEF Records
  <2> SUFFICES ASSUME NEW r \in Resources \ overtaken PROVE StageOf(r)'
    BY <2>0 DEF Stages
  <2>2. StageOf(r) /\ r # NoRes /\ (Listed(r)' => Listed(r))
    BY <1>0, <2>1 DEF Stages, Listed
  <2>3. \A u \in Threads : /\ Evicting(u, r)' <=> Evicting(u, r)
                           /\ Registering(u, r)' => Registering(u, r)
    BY <2>0 DEF Evicting, Registering
  <2>4. CASE r # got[t]
    <3>1. \A u \in Threads : Invalidating(u, r)' => Invalidating(u, r)
      BY <2>0, <2>4 DEF Invalidating
    <3> HIDE DEF Evicting, Invalidating, Registering, Listed, StageOf
    <3> QED
      BY <2>0, <2>2, <2>3, <3>1, StageKept DEF maps
  <2>5. CASE r = got[t]
    <3>1. ~Listed(r)'
      <4>1. \A x \in In(list) : x.value = r => x.key = karg[t]
        BY <2>0, <2>5 DEF Records, Known
      <4> QED
        BY <2>1, <2>2, <4>1 DEF Listed
    <3>2. \A u \in Threads : ~Evicting(u, r)'
      <4>1. \A u \in Threads : evicted[u] = NoRes
        BY <2>0, ConstantsAssumption DEF Records, Control, ControlOf
      <4> QED
        BY <2>2, <2>3, <4>1 DEF Evicting
    <3>3. \A u \in Threads : ~Registering(u, r)'
      <4>1. \A u \in Threads : Registering(u, r) => u = t
        <5> SUFFICES ASSUME NEW u \in Threads, Registering(u, r) PROVE u = t
          OBVIOUS
        <5>1. pc[u] = "put" /\ karg[u] = karg[t]
          BY <2>0, <2>5 DEF Registering, Records, Known
        <5> QED
          BY <2>0, <5>1, OneCallPerKey
      <4> QED
        BY <2>0, <2>3, <4>1 DEF Registering
    <3>4. Intact(r)' /\ UNCHANGED <<expiries, checkouts, cleaned, owner>>
      <4>1. Intact(r)
        BY <2>2, <2>5 DEF StageOf
      <4> QED
        BY <2>0, <4>1 DEF Intact, Kept, maps
    <3> HIDE DEF Evicting, Invalidating, Registering, Listed, Intact
    <3> QED
      BY <2>2, <3>1, <3>2, <3>3, <3>4 DEF StageOf
  <2> QED
    BY <2>4, <2>5
<1>10. ASSUME NEW t \in Threads, InvalidateEvicts(t) PROVE Stages'
  <2>0. /\ pc' = [pc EXCEPT ![t] = "idle"] /\ pc[t] = "invalidated"
        /\ got' = [got EXCEPT ![t] = NoRes] /\ OnEvictedBody(got[t])
        /\ UNCHANGED <<list, evicted, inUse, owner>>
        /\ pc \in [Threads -> Labels] /\ got \in [Threads -> Resources \cup {NoRes}]
    BY <1>10 DEF InvalidateEvicts, Return, Goto, Records, Typed
  <2>1. PICK r \in Resources \cup {NoRes} : r = got[t]
    BY <2>0
  <2>2. Invalidating(t, r) /\ Going(t, r)
    BY <2>0, <2>1 DEF Going, Invalidating
  <2>3. ASSUME NEW u \in Threads, NEW q \in Resources
        PROVE  /\ got'[u] = q => got[u] = q
               /\ Evicting(u, q)' => Evicting(u, q)
               /\ Invalidating(u, q)' => Invalidating(u, q)
               /\ Registering(u, q)' => Registering(u, q)
    BY <1>0, <2>0 DEF Evicting, Invalidating, Registering
  <2>4. ASSUME NEW u \in Threads, r \in Resources \ overtaken PROVE ~Evicting(u, r)'
    <3>1. StageOf(r)
      BY <2>4 DEF Stages
    <3> HIDE DEF Evicting, Invalidating, Registering, Listed, Intact
    <3> QED
      BY <2>2, <2>3, <2>4, <3>1 DEF StageOf
  <2>5. OnEvictedBody(r)
    BY <2>0, <2>1
  <2> HIDE DEF Going, Evicting, Invalidating, Registering
  <2> QED
    BY <2>0, <2>2, <2>3, <2>4, <2>5, StageEvicted
<1>11. ASSUME NEW t \in Threads, Checkin(t) PROVE Stages'
  <2>0. /\ pc[t] = "idle" /\ inUse[t] \in Resources
        /\ inUse' = [inUse EXCEPT ![t] = NoRes]
        /\ checkouts' = [checkouts EXCEPT ![inUse[t]] = @ - 1]
        /\ UNCHANGED <<list, resources, pc, got, evicted, owner>>
        /\ inUse \in [Threads -> Resources \cup {NoRes}]
        /\ checkouts \in [Resources -> Int] /\ cleaned \in [Resources -> Nat]
    BY <1>11 DEF Checkin, locks, Records, Typed
  <2>1. IF LastCheckin(inUse[t]) THEN expiries' = expiries \ {inUse[t]} /\ CleanUp(inUse[t])
        ELSE UNCHANGED <<expiries, cleaned, overtaken>>
    BY <1>11 DEF Checkin
  <2>2. PICK q \in Resources : q = inUse[t]
    BY <2>0
  <2>3. checkouts[q] = Cardinality(Users(q)) /\ Cardinality(Users(q)) \in Nat \ {0}
        /\ (Cardinality(Users(q)) = 1 => Users(q)' = {})
    <3>1. /\ Cardinality(Users(q)) \in Nat \ {0}
          /\ Cardinality(Users(q)) = 1 => Users(q)' = {}
      BY <2>0, <2>2, OneUserLess
    <3>2. t \in Users(q)
      BY <2>2 DEF Users
    <3> QED
      BY <3>1, <3>2 DEF Records, CheckoutsCountUsers
  <2>4. overtaken \subseteq overtaken'
    BY <2>1 DEF CleanUp
  <2> SUFFICES ASSUME NEW r \in Resources, r \notin overtaken' PROVE StageOf(r)'
    BY DEF Stages
  <2>5. StageOf(r) /\ r # NoRes /\ (Listed(r)' <=> Listed(r))
    BY <1>0, <2>0, <2>4 DEF Stages, Listed
  <2>6. \A u \in Threads : /\ got'[u] = r <=> got[u] = r
                           /\ Evicting(u, r)' <=> Evicting(u, r)
                           /\ Invalidating(u, r)' <=> Invalidating(u, r)
                           /\ Registering(u, r)' => Registering(u, r)
                           /\ inUse'[u] = r => inUse[u] = r
    BY <2>0, <2>5 DEF Evicting, Invalidating, Registering
  <2>7. CASE r # q
    <3>1. /\ checkouts'[r] = checkouts[r] /\ cleaned'[r] = cleaned[r]
          /\ r \in expiries' <=> r \in expiries
      BY <2>0, <2>1, <2>2, <2>7 DEF CleanUp
    <3> HIDE DEF Evicting, Invalidating, Registering, Listed, StageOf
    <3> QED
      BY <2>0, <2>5, <2>6, <3>1, StageKept
  <2>8. CASE r = q /\ LastCheckin(q)
    <3>1. r \in expiries /\ CleanUp(r) /\ expiries' = expiries \ {r} /\ owner'[r] # NoKey
      BY <2>0, <2>1, <2>2, <2>8 DEF LastCheckin, Records, Known
    <3>2. Intact(r)
      BY <2>5, <3>1 DEF StageOf
    <3>3. /\ ~Listed(r)
          /\ \A u \in Threads : ~Evicting(u, r) /\ ~Registering(u, r)
      <4> HIDE DEF Evicting, Invalidating, Registering, Listed, Intact
      <4> QED
        BY <2>5, <3>1 DEF StageOf
    <3>4. \A u \in Threads : inUse'[u] # r
      BY <2>3, <2>8 DEF LastCheckin, Users
    <3>5. cleaned'[r] = 1 /\ \A u \in Threads : got'[u] # r
      BY <2>0, <3>1, <3>2 DEF CleanUp, Intact, Kept
    <3>6. \A u \in Threads : ~Invalidating(u, r)'
      BY <3>5 DEF Invalidating
    <3> HIDE DEF Evicting, Invalidating, Registering, Listed, Intact
    <3> QED
      BY <2>5, <2>6, <3>1, <3>3, <3>4, <3>5, <3>6 DEF StageOf
  <2>9. CASE r = q /\ ~LastCheckin(q)
    <3>1. /\ UNCHANGED <<expiries, cleaned>> /\ checkouts'[r] = checkouts[r] - 1
          /\ checkouts[r] \in Nat \ {0} /\ (r \in expiries => checkouts[r] # 1)
      BY <2>0, <2>1, <2>2, <2>3, <2>9 DEF LastCheckin
    <3>2. Intact(r)
      BY <2>2, <2>5, <2>9 DEF StageOf
    <3>3. Intact(r)' /\ (r \in expiries' => checkouts'[r] > 0)
      BY <2>0, <3>1, <3>2 DEF Intact, Kept
    <3>4. owner'[r] = owner[r]
      BY <2>0
    <3> HIDE DEF Evicting, Invalidating, Registering, Listed, Intact
    <3> QED
      BY <2>5, <2>6, <3>1, <3>3, <3>4 DEF StageOf
  <2> QED
    BY <2>7, <2>8, <2>9
<1>12. ASSUME Tick \/ UNCHANGED vars PROVE Stages'
  <2>1. UNCHANGED <<list, maps, pc, got, evicted, inUse, owner, cleaned, overtaken>>
    BY <1>12 DEF Tick, vars, history
  <2> QED
    BY <1>a, <2>1 DEF Evicting, Invalidating, Registering
<1> QED
  BY <1>1, <1>2, <1>3, <1>4, <1>5, <1>6, <1>7, <1>8, <1>9, <1>10, <1>11, <1>12
  DEF Next, Step

\* What is found nowhere was not before either.
LEMMA FoundKept ==
  ASSUME Found, UNCHANGED <<expiries, owner, cleaned>>, replaced \subseteq replaced',
         \A r \in Resources \ replaced' :
            Listed(r) => Listed(r)' \/ \E t \in Threads : Going(t, r)',
         \A t \in Threads, r \in Resources :
            /\ Going(t, r) => Going(t, r)'
            /\ Registering(t, r) => Registering(t, r)' \/ Listed(r)'
  PROVE  Found'
<1> SUFFICES ASSUME NEW r \in Resources \ replaced', owner[r] # NoKey, cleaned[r] = 0
             PROVE  \/ Listed(r)' \/ r \in expiries
                    \/ \E t \in Threads : Going(t, r)' \/ Registering(t, r)'
  BY DEF Found
<1>1. \/ Listed(r) \/ r \in expiries
      \/ \E t \in Threads : Going(t, r) \/ Registering(t, r)
  BY DEF Found
<1> HIDE DEF Listed, Going, Registering
<1> QED
  BY <1>1

\* Looked, when the step is one of the call of t: only the node of its key is added.
LEMMA LookedKept ==
  ASSUME Records, Looked, NEW t \in Threads, UNCHANGED now,
         \A x \in In(list') : x \in In(list) \/ (x.key = karg[t] /\ pc[t] # "idle"),
         \A u \in Threads : u # t => /\ pc'[u] = pc[u] /\ got'[u] = got[u]
                                     /\ karg'[u] = karg[u],
         LookedOf(t)'
  PROVE  Looked'
<1> SUFFICES ASSUME NEW u \in Threads, u # t, NEW x \in In(list'), x.key = karg[u]
             PROVE  /\ got[u] # NoRes /\ pc[u] # "invalidated" => x.value = got[u]
                    /\ got[u] = NoRes /\ pc[u] \in {"evict", "onEvicted", "new", "put"} =>
                         x.expiration <= now
  BY DEF Looked, LookedOf
<1>1. CASE pc[u] = "idle"
  BY <1>1 DEF Records, Control, ControlOf
<1>2. CASE pc[u] # "idle"
  <2>1. x \in In(list)
    BY <1>2, OneCallPerKey
  <2> QED
    BY <2>1 DEF Looked, LookedOf
<1> QED
  BY <1>1, <1>2

\* onEvicted is done with an id: it has been cleaned up, or waits for its last user.
LEMMA FoundEvicted ==
  ASSUME Records, InPlace, Found, NEW t \in Threads,
         NEW r \in Resources \cup {NoRes}, r # NoRes => Going(t, r),
         OnEvictedBody(r), UNCHANGED <<list, owner, replaced>>,
         \A u \in Threads, q \in Resources :
            /\ Going(u, q) => Going(u, q)' \/ q = r
            /\ Registering(u, q) => Registering(u, q)'
  PROVE  Found'
<1> SUFFICES ASSUME NEW q \in Resources \ replaced, owner[q] # NoKey, cleaned'[q] = 0
             PROVE  \/ Listed(q)' \/ q \in expiries'
                    \/ \E u \in Threads : Going(u, q)' \/ Registering(u, q)'
  BY DEF Found
<1>0. /\ checkouts \in [Resources -> Int] /\ cleaned \in [Resources -> Nat]
      /\ \A p \in Resources : p # NoRes
  BY NoResNotResource DEF Records, Typed
<1>1. cleaned[q] = 0
  BY <1>0 DEF OnEvictedBody, CleanUp
<1>2. CASE q # r
  <2>1. (q \in expiries => q \in expiries') /\ Listed(q)' = Listed(q)
    BY <1>0, <1>2 DEF OnEvictedBody, maps, Listed
  <2>2. \/ Listed(q) \/ q \in expiries
        \/ \E u \in Threads : Going(u, q) \/ Registering(u, q)
    BY <1>1 DEF Found
  <2> HIDE DEF Listed, Going, Registering
  <2> QED
    BY <1>2, <2>1, <2>2
<1>3. CASE q = r
  <2>1. q \notin overtaken
    BY <1>0, <1>1 DEF InPlace, Overtakes
  <2>2. Evicting(t, q) \/ (Invalidating(t, q) /\ got[t] = q)
    BY <1>0, <1>3 DEF Going, Invalidating
  <2>3. Intact(q)
    <3>1. StageOf(q)
      BY <2>1 DEF InPlace, Stages
    <3> HIDE DEF Evicting, Invalidating, Registering, Listed, Intact
    <3> QED
      BY <2>2, <3>1 DEF StageOf
  <2>4. q \in expiries'
    BY <1>0, <1>3, <2>3 DEF OnEvictedBody, CleanUp, Intact, maps
  <2> QED
    BY <2>4
<1> QED
  BY <1>2, <1>3

\* The third layer holds of a new cache.
LEMMA NoneLostInit == Init => NoneLost
<1> SUFFICES ASSUME Init PROVE NoneLost
  OBVIOUS
<1>1. In(list) = {}
  BY DEF Init, In
<1> QED
  BY <1>1 DEF Init, NoneLost, Spent, Looked, LookedOf, Found

\* A step loses no id but one it replaces.
LEMMA NoneLostStep ==
  ASSUME Records, InPlace, NoneLost, [Next]_vars
  PROVE  NoneLost'
<1> USE DEF NoneLost
<1>0. /\ \A r \in Resources : r # NoRes
      /\ list \in Seq(Nodes) /\ Distinct(list) /\ Sorted(list)
      /\ pc \in [Threads -> Labels] /\ karg \in [Threads -> Keys \cup {NoKey}]
      /\ got \in [Threads -> Resources \cup {NoRes}]
      /\ evicted \in [Threads -> Resources \cup {NoRes}]
      /\ inUse \in [Threads -> Resources \cup {NoRes}]
      /\ now \in Int /\ TTL \in Int
  BY NoResNotResource, ConstantsAssumption DEF Records, Typed
<1>1. \A x \in In(list) : x \in Nodes /\ x.expiration \in Int
  BY NodeTypes DEF Records
<1>2. ASSUME UNCHANGED now, In(list') \subseteq In(list) PROVE Spent'
  BY <1>2 DEF Spent
<1>3. ASSUME NEW t \in Threads, NEW c \in {"checkout", "invalidate"}, NEW k \in Keys,
             Begin(t, c, k)
      PROVE  NoneLost'
  <2>0. /\ pc' = [pc EXCEPT ![t] = "get"] /\ pc[t] = "idle" /\ karg' = [karg EXCEPT ![t] = k]
        /\ UNCHANGED <<now, list, maps, got, evicted, inUse, owner, cleaned, replaced>>
        /\ got[t] = NoRes
    BY <1>3 DEF Begin, Goto, history, Records, Control, ControlOf
  <2>1. Spent'
    BY <1>2, <2>0
  <2>2. Looked'
    <3>1. LookedOf(t)'
      BY <1>0, <2>0 DEF LookedOf
    <3> QED
      BY <1>0, <2>0, <3>1, LookedKept
  <2>3. Found'
    BY <1>0, <2>0, FoundKept DEF Listed, Going, Evicting, Invalidating, Registering, maps
  <2> QED
    BY <2>1, <2>2, <2>3
<1>4. ASSUME NEW t \in Threads, Get(t) PROVE NoneLost'
  <2>0. /\ pc' = [pc EXCEPT ![t] = "evict"] /\ pc[t] = "get" /\ got[t] = NoRes
        /\ UNCHANGED <<now, maps, karg, evicted, inUse, owner, cleaned, replaced>>
    BY <1>4 DEF Get, Goto, history, Records, Control, ControlOf
  <2>1. CASE UNCHANGED <<list, got>> /\ \A x \in In(list) : x.key = karg[t] => ~(x.expiration > now)
    <3>1. Spent'
      BY <1>2, <2>0, <2>1
    <3>2. Looked'
      <4>1. LookedOf(t)'
        BY <1>0, <1>1, <2>0, <2>1 DEF LookedOf
      <4> QED
        BY <1>0, <2>0, <2>1, <4>1, LookedKept
    <3>3. Found'
      BY <1>0, <2>0, <2>1, FoundKept
      DEF Listed, Going, Evicting, Invalidating, Registering, maps
    <3> QED
      BY <3>1, <3>2, <3>3
  <2>2. CASE \E n \in {m \in NodesOf(list, karg[t]) : Valid(m, now)} :
               /\ got' = [got EXCEPT ![t] = n.value]
               /\ list' = IF RefreshTTL THEN Refresh(list, n, now) ELSE list
    <3>1. PICK n \in In(list) : /\ n.key = karg[t] /\ n.expiration > now
                                /\ got' = [got EXCEPT ![t] = n.value]
                                /\ list' = IF RefreshTTL THEN Refresh(list, n, now) ELSE list
      BY <2>2, NodesOfIs DEF Valid
    <3>2. n.value # NoRes
      BY <1>0, <1>1, <3>1 DEF Spent
    <3>3. PICK z : /\ z.key = karg[t] /\ z.value = n.value
                   /\ In(list') = {x \in In(list) : x.key # karg[t]} \cup {z}
      BY <3>1, ListHit DEF Records
    <3>4. Spent'
      BY <2>0, <3>2, <3>3 DEF Spent
    <3>5. Looked'
      <4>1. LookedOf(t)'
        BY <1>0, <2>0, <3>1, <3>2, <3>3 DEF LookedOf
      <4>2. /\ \A x \in In(list') : x \in In(list) \/ (x.key = karg[t] /\ pc[t] # "idle")
            /\ \A u \in Threads : u # t => /\ pc'[u] = pc[u] /\ got'[u] = got[u]
                                           /\ karg'[u] = karg[u]
        BY <1>0, <2>0, <3>1, <3>3
      <4> QED
        BY <2>0, <4>1, <4>2, LookedKept
    <3>6. Found'
      <4>1. \A r : Listed(r) => Listed(r)'
        <5>1. \A x \in In(list) : x.key = karg[t] => x = n
          BY <1>0, <3>1, OneNode
        <5> QED
          BY <3>3, <5>1 DEF Listed
      <4>2. \A u \in Threads, r \in Resources : /\ Going(u, r) => Going(u, r)'
                                                /\ Registering(u, r) => Registering(u, r)'
        BY <1>0, <2>0, <3>1 DEF Going, Evicting, Invalidating, Registering
      <4> HIDE DEF Listed, Going, Registering
      <4> QED
        BY <2>0, <4>1, <4>2, FoundKept DEF maps
    <3> QED
      BY <3>4, <3>5, <3>6
  <2>3. \/ UNCHANGED <<list, got>> /\ {m \in NodesOf(list, karg[t]) : Valid(m, now)} = {}
        \/ \E n \in {m \in NodesOf(list, karg[t]) : Valid(m, now)} :
               /\ got' = [got EXCEPT ![t] = n.value]
               /\ list' = IF RefreshTTL THEN Refresh(list, n, now) ELSE list
    BY <1>4 DEF Get
  <2>4. {m \in NodesOf(list, karg[t]) : Valid(m, now)} = {} =>
          \A x \in In(list) : x.key = karg[t] => ~(x.expiration > now)
    BY NodesOfIs DEF Valid
  <2> QED
    BY <2>1, <2>2, <2>3, <2>4
<1>5. ASSUME NEW t \in Threads, EvictHead(t) PROVE NoneLost'
  <2> DEFINE h == Head(list)
  <2>0. /\ pc' = [pc EXCEPT ![t] = "onEvicted"] /\ pc[t] = "evict"
        /\ evicted' = [evicted EXCEPT ![t] = h.value] /\ evicted[t] = NoRes
        /\ UNCHANGED <<now, maps, karg, got, inUse, owner, cleaned, replaced>>
    BY <1>5 DEF EvictHead, Goto, locks, history, Records, Control, ControlOf
  <2>1. h \in In(list) /\ In(list') = {x \in In(list) : x.key # h.key}
    BY <1>0, <1>5, HeadIs DEF EvictHead
  <2>2. \A x \in In(list) : x.key = h.key => x = h
    BY <1>0, <2>1, OneNode
  <2> HIDE DEF h
  <2>3. Spent'
    BY <1>2, <2>0, <2>1
  <2>4. Looked'
    <3>1. LookedOf(t)'
      BY <1>0, <2>0, <2>1 DEF Looked, LookedOf
    <3> QED
      BY <1>0, <2>0, <2>1, <3>1, LookedKept
  <2>5. Found'
    <3>1. ASSUME NEW r \in Resources, Listed(r)
          PROVE  Listed(r)' \/ \E u \in Threads : Going(u, r)'
      <4>1. PICK x \in In(list) : x.value = r
        BY <3>1 DEF Listed
      <4>2. CASE x = h
        BY <1>0, <2>0, <4>1, <4>2 DEF Going, Evicting
      <4>3. CASE x # h
        BY <2>1, <2>2, <4>1, <4>3 DEF Listed
      <4> QED
        BY <4>2, <4>3
    <3>2. \A u \in Threads, r \in Resources : /\ Going(u, r) => Going(u, r)'
                                              /\ Registering(u, r) => Registering(u, r)'
      BY <1>0, <2>0 DEF Going, Evicting, Invalidating, Registering
    <3> HIDE DEF Listed, Going, Registering
    <3> QED
      BY <2>0, <3>1, <3>2, FoundKept DEF maps
  <2> QED
    BY <2>3, <2>4, <2>5
<1>6. ASSUME NEW t \in Threads, EvictEnd(t) PROVE NoneLost'
  <2>0. /\ pc[t] = "evict"
        /\ pc' = [pc EXCEPT ![t] = IF got[t] # NoRes THEN "found"
                                   ELSE IF call[t] = "checkout" THEN "new" ELSE "notFound"]
        /\ UNCHANGED <<now, list, maps, karg, got, evicted, inUse, owner, cleaned, replaced>>
    BY <1>6 DEF EvictEnd, Goto, history
  <2>1. Spent'
    BY <1>2, <2>0
  <2>2. Looked'
    <3>1. LookedOf(t)'
      BY <1>0, <2>0 DEF Looked, LookedOf
    <3> QED
      BY <1>0, <2>0, <3>1, LookedKept
  <2>3. Found'
    BY <1>0, <2>0, FoundKept DEF Listed, Going, Evicting, Invalidating, Registering, maps
  <2> QED
    BY <2>1, <2>2, <2>3
<1>7. ASSUME NEW t \in Threads, OnEvicted(t) PROVE NoneLost'
  <2>0. /\ pc' = [pc EXCEPT ![t] = "evict"] /\ pc[t] = "onEvicted"
        /\ evicted' = [evicted EXCEPT ![t] = NoRes] /\ OnEvictedBody(evicted[t])
        /\ UNCHANGED <<now, list, karg, got, inUse, owner, replaced>>
    BY <1>7 DEF OnEvicted, Goto
  <2>1. PICK r \in Resources \cup {NoRes} : r = evicted[t]
    BY <1>0
  <2>2. Spent'
    BY <1>2, <2>0
  <2>3. Looked'
    <3>1. LookedOf(t)'
      BY <1>0, <2>0 DEF Looked, LookedOf
    <3> QED
      BY <1>0, <2>0, <3>1, LookedKept
  <2>4. Found'
    <3>1. /\ r # NoRes => Going(t, r)
          /\ \A u \in Threads, q \in Resources :
               /\ Going(u, q) => Going(u, q)' \/ q = r
               /\ Registering(u, q) => Registering(u, q)'
      BY <1>0, <2>0, <2>1 DEF Going, Evicting, Invalidating, Registering
    <3>2. OnEvictedBody(r)
      BY <2>0, <2>1
    <3> HIDE DEF Going, Registering
    <3> QED
      BY <2>0, <3>1, <3>2, FoundEvicted
  <2> QED
    BY <2>2, <2>3, <2>4
<1>8. ASSUME NEW t \in Threads, CheckoutHit(t) \/ NewFails(t) \/ InvalidateNothing(t)
      PROVE  NoneLost'
  <2>0. /\ pc' = [pc EXCEPT ![t] = "idle"] /\ pc[t] \in {"found", "new", "notFound"}
        /\ got' = [got EXCEPT ![t] = NoRes] /\ karg' = [karg EXCEPT ![t] = NoKey]
        /\ \A u \in Threads : u # t => inUse'[u] = inUse[u]
        /\ UNCHANGED <<now, list, expiries, evicted, owner, cleaned, replaced>>
    BY <1>0, <1>8 DEF CheckoutHit, NewFails, InvalidateNothing, Return, Goto, maps, history
  <2>1. Spent'
    BY <1>2, <2>0
  <2>2. Looked'
    <3>1. LookedOf(t)'
      BY <1>0, <2>0 DEF LookedOf
    <3> QED
      BY <1>0, <2>0, <3>1, LookedKept
  <2>3. Found'
    BY <1>0, <2>0, FoundKept DEF Listed, Going, Evicting, Invalidating, Registering
  <2> QED
    BY <2>1, <2>2, <2>3
<1>9. ASSUME NEW t \in Threads, New(t) PROVE NoneLost'
  <2>0. /\ pc' = [pc EXCEPT ![t] = "put"] /\ pc[t] = "new"
        /\ UNCHANGED <<now, list, expiries, karg, got, evicted, cleaned, replaced>>
    BY <1>9 DEF New, Goto
  <2>1. PICK q \in Resources : /\ owner' = [owner EXCEPT ![q] = karg[t]]
                               /\ inUse' = [inUse EXCEPT ![t] = q]
    BY <1>9 DEF New
  <2>2. Spent'
    BY <1>2, <2>0
  <2>3. Looked'
    <3>1. LookedOf(t)'
      BY <1>0, <2>0 DEF Looked, LookedOf
    <3> QED
      BY <1>0, <2>0, <3>1, LookedKept
  <2>4. Found'
    <3> SUFFICES ASSUME NEW r \in Resources \ replaced, owner'[r] # NoKey, cleaned'[r] = 0
                 PROVE  \/ Listed(r)' \/ r \in expiries'
                        \/ \E u \in Threads : Going(u, r)' \/ Registering(u, r)'
      BY <2>0 DEF Found
    <3>1. CASE r = q
      BY <1>0, <2>0, <2>1, <3>1 DEF Registering
    <3>2. CASE r # q
      <4>1. \/ Listed(r) \/ r \in expiries
            \/ \E u \in Threads : Going(u, r) \/ Registering(u, r)
        BY <2>0, <2>1, <3>2 DEF Found, Records, Typed
      <4>2. /\ Listed(r)' = Listed(r)
            /\ \A u \in Threads : /\ Going(u, r) => Going(u, r)'
                                  /\ Registering(u, r) => Registering(u, r)'
        BY <1>0, <2>0, <2>1 DEF Listed, Going, Evicting, Invalidating, Registering
      <4> HIDE DEF Listed, Going, Registering
      <4> QED
        BY <2>0, <4>1, <4>2
    <3> QED
      BY <3>1, <3>2
  <2> QED
    BY <2>2, <2>3, <2>4
<1>10. ASSUME NEW t \in Threads, Put(t) PROVE NoneLost'
  <2>0. /\ pc' = [pc EXCEPT ![t] = "idle"] /\ pc[t] = "put"
        /\ karg' = [karg EXCEPT ![t] = NoKey] /\ got' = [got EXCEPT ![t] = NoRes]
        /\ UNCHANGED <<now, maps, evicted, inUse, owner, cleaned>>
        /\ list' = PutNode(list, karg[t], inUse[t], TTL, now)
        /\ replaced' = replaced \cup ({n.value : n \in NodesOf(list, karg[t])} \ {NoRes})
        /\ karg[t] \in Keys /\ inUse[t] # NoRes /\ evicted[t] = NoRes
    BY <1>10 DEF Put, Return, Goto, Records, Control, ControlOf
  <2>1. PICK z : /\ z.key = karg[t] /\ z.value = inUse[t]
                 /\ In(list') = {x \in In(list) : x.key # karg[t]} \cup {z}
    <3>1. /\ inUse[t] \in Resources \cup {NoRes} /\ TTL \in Int /\ karg[t] \in Keys
          /\ list' = PutNode(list, karg[t], inUse[t], TTL, now)
      BY <1>0, <1>10, <2>0
    <3>2. Typed
      BY DEF Records
    <3> QED
      BY <3>1, <3>2, ListPutIn
  <2>2. Spent'
    BY <2>0, <2>1 DEF Spent
  <2>3. Looked'
    <3>1. LookedOf(t)'
      BY <1>0, <2>0 DEF LookedOf
    <3>2. /\ \A x \in In(list') : x \in In(list) \/ (x.key = karg[t] /\ pc[t] # "idle")
          /\ \A u \in Threads : u # t => /\ pc'[u] = pc[u] /\ got'[u] = got[u]
                                         /\ karg'[u] = karg[u]
      BY <1>0, <2>0, <2>1
    <3> QED
      BY <2>0, <3>1, <3>2, LookedKept
  <2>4. Found'
    <3>1. ASSUME NEW r \in Resources \ replaced', Listed(r) PROVE Listed(r)'
      <4>1. PICK x \in In(list) : x.value = r
        BY <3>1 DEF Listed
      <4>2. CASE x.key # karg[t]
        BY <2>1, <4>1, <4>2 DEF Listed
      <4>3. CASE x.key = karg[t]
        <5>1. x \in NodesOf(list, karg[t])
          BY <4>3, NodesOfIs
        <5> QED
          BY <1>0, <2>0, <3>1, <4>1, <5>1
      <4> QED
        BY <4>2, <4>3
    <3>2. \A u \in Threads, r \in Resources :
             /\ Going(u, r) => Going(u, r)'
             /\ Registering(u, r) => Registering(u, r)' \/ Listed(r)'
      <4>1. Listed(inUse[t])'
        BY <2>0, <2>1 DEF Listed
      <4>2. \A u \in Threads, r \in Resources : Going(u, r) => Going(u, r)'
        BY <1>0, <2>0 DEF Going, Evicting, Invalidating
      <4>3. ASSUME NEW u \in Threads, NEW r \in Resources, Registering(u, r)
            PROVE  Registering(u, r)' \/ Listed(r)'
        <5>1. CASE u = t
          BY <2>1, <4>3, <5>1 DEF Listed, Registering
        <5>2. CASE u # t
          BY <1>0, <2>0, <4>3, <5>2 DEF Registering
        <5> QED
          BY <5>1, <5>2
      <4> QED
        BY <4>2, <4>3
    <3>3. replaced \subseteq replaced'
      BY <2>0
    <3> HIDE DEF Listed, Going, Registering
    <3> QED
      BY <2>0, <3>1, <3>2, <3>3, FoundKept DEF maps
  <2> QED
    BY <2>2, <2>3, <2>4
<1>11. ASSUME NEW t \in Threads, PutInvalid(t) PROVE NoneLost'
  <2>0. /\ pc' = [pc EXCEPT ![t] = "invalidated"] /\ pc[t] = "found"
        /\ UNCHANGED <<now, maps, karg, got, evicted, inUse, owner, cleaned, replaced>>
        /\ list' = PutNode(list, karg[t], NoRes, -1, now)
        /\ karg[t] \in Keys /\ got[t] # NoRes
    BY <1>11 DEF PutInvalid, Goto, locks, history, Records, Control, ControlOf
  <2>1. PICK z : /\ z.key = karg[t] /\ z.value = NoRes /\ z.expiration < now
                 /\ In(list') = {x \in In(list) : x.key # karg[t]} \cup {z}
    <3>1. NoRes \in Resources \cup {NoRes} /\ -1 \in Int
      OBVIOUS
    <3>2. PICK z \in Nodes :
            /\ z.key = karg[t] /\ z.value = NoRes /\ z.expiration = now + -1
            /\ Replaces(PutNode(list, karg[t], NoRes, -1, now), list, karg[t], z)
      BY <2>0, <3>1, ListPut DEF Records
    <3>3. z.expiration < now
      BY <1>0, <3>2
    <3> QED
      BY <2>0, <3>2, <3>3 DEF Replaces
  <2>2. Spent'
    BY <2>0, <2>1 DEF Spent
  <2>3. Looked'
    <3>1. LookedOf(t)'
      BY <1>0, <2>0 DEF LookedOf
    <3>2. /\ \A x \in In(list') : x \in In(list) \/ (x.key = karg[t] /\ pc[t] # "idle")
          /\ \A u \in Threads : u # t => /\ pc'[u] = pc[u] /\ got'[u] = got[u]
                                         /\ karg'[u] = karg[u]
      BY <1>0, <2>0, <2>1
    <3> QED
      BY <2>0, <3>1, <3>2, LookedKept
  <2>4. Found'
    <3>1. ASSUME NEW r \in Resources, Listed(r)
          PROVE  Listed(r)' \/ \E u \in Threads : Going(u, r)'
      <4>1. PICK x \in In(list) : x.value = r
        BY <3>1 DEF Listed
      <4>2. CASE x.key = karg[t]
        <5>1. got[t] = r
          BY <2>0, <4>1, <4>2 DEF Looked, LookedOf
        <5> QED
          BY <1>0, <2>0, <5>1 DEF Going, Invalidating
      <4>3. CASE x.key # karg[t]
        BY <2>1, <4>1, <4>3 DEF Listed
      <4> QED
        BY <4>2, <4>3
    <3>2. \A u \in Threads, r \in Resources : /\ Going(u, r) => Going(u, r)'
                                              /\ Registering(u, r) => Registering(u, r)'
      BY <1>0, <2>0 DEF Going, Evicting, Invalidating, Registering
    <3> HIDE DEF Listed, Going, Registering
    <3> QED
      BY <2>0, <3>1, <3>2, FoundKept DEF maps
  <2> QED
    BY <2>2, <2>3, <2>4
<1>12. ASSUME NEW t \in Threads, InvalidateEvicts(t) PROVE NoneLost'
  <2>0. /\ pc' = [pc EXCEPT ![t] = "idle"] /\ pc[t] = "invalidated"
        /\ got' = [got EXCEPT ![t] = NoRes] /\ OnEvictedBody(got[t])
        /\ karg' = [karg EXCEPT ![t] = NoKey]
        /\ UNCHANGED <<now, list, evicted, inUse, owner, replaced>>
    BY <1>12 DEF InvalidateEvicts, Return, Goto
  <2>1. PICK r \in Resources \cup {NoRes} : r = got[t]
    BY <1>0
  <2>2. Spent'
    BY <1>2, <2>0
  <2>3. Looked'
    <3>1. LookedOf(t)'
      BY <1>0, <2>0 DEF LookedOf
    <3> QED
      BY <1>0, <2>0, <3>1, LookedKept
  <2>4. Found'
    <3>1. /\ r # NoRes => Going(t, r)
          /\ \A u \in Threads, q \in Resources :
               /\ Going(u, q) => Going(u, q)' \/ q = r
               /\ Registering(u, q) => Registering(u, q)'
      <4>1. evicted[t] = NoRes
        BY <2>0 DEF Records, Control, ControlOf
      <4> QED
        BY <1>0, <2>0, <2>1, <4>1 DEF Going, Evicting, Invalidating, Registering
    <3>2. OnEvictedBody(r)
      BY <2>0, <2>1
    <3> HIDE DEF Going, Registering
    <3> QED
      BY <2>0, <3>1, <3>2, FoundEvicted
  <2> QED
    BY <2>2, <2>3, <2>4
<1>13. ASSUME NEW t \in Threads, Checkin(t) PROVE NoneLost'
  <2>0. /\ pc[t] = "idle" /\ inUse[t] \in Resources
        /\ inUse' = [inUse EXCEPT ![t] = NoRes]
        /\ UNCHANGED <<now, list, pc, karg, got, evicted, owner, replaced>>
        /\ \/ UNCHANGED <<expiries, cleaned>>
           \/ /\ expiries' = expiries \ {inUse[t]}
              /\ cleaned' = [cleaned EXCEPT ![inUse[t]] = @ + 1]
    BY <1>0, <1>13 DEF Checkin, CleanUp, locks
  <2>1. Spent'
    BY <1>2, <2>0
  <2>2. Looked'
    BY <2>0 DEF Looked, LookedOf
  <2>3. Found'
    <3> SUFFICES ASSUME NEW r \in Resources \ replaced, owner[r] # NoKey, cleaned'[r] = 0
                 PROVE  \/ Listed(r)' \/ r \in expiries'
                        \/ \E u \in Threads : Going(u, r)' \/ Registering(u, r)'
      BY <2>0 DEF Found
    <3>1. cleaned[r] = 0 /\ (r \in expiries => r \in expiries')
      BY <2>0 DEF Records, Typed
    <3>2. \/ Listed(r) \/ r \in expiries
          \/ \E u \in Threads : Going(u, r) \/ Registering(u, r)
      BY <3>1 DEF Found
    <3>3. /\ Listed(r)' = Listed(r)
          /\ \A u \in Threads : /\ Going(u, r) => Going(u, r)'
                                /\ Registering(u, r) => Registering(u, r)'
      BY <1>0, <2>0 DEF Listed, Going, Evicting, Invalidating, Registering
    <3> HIDE DEF Listed, Going, Registering
    <3> QED
      BY <3>1, <3>2, <3>3
  <2> QED
    BY <2>1, <2>2, <2>3
<1>14. ASSUME Tick PROVE NoneLost'
  <2>0. /\ UNCHANGED <<list, maps, pc, karg, got, evicted, inUse, owner, cleaned, replaced>>
        /\ now' > now /\ now' \in Int
    BY <1>0, <1>14 DEF Tick, history
  <2>1. Spent'
    BY <1>0, <1>1, <2>0 DEF Spent
  <2>2. Looked'
    BY <1>0, <1>1, <2>0 DEF Looked, LookedOf
  <2>3. Found'
    BY <2>0, FoundKept DEF Listed, Going, Evicting, Invalidating, Registering, maps
  <2> QED
    BY <2>1, <2>2, <2>3
<1>15. ASSUME UNCHANGED vars PROVE NoneLost'
  <2>1. UNCHANGED <<now, list, maps, pc, karg, got, evicted, inUse, owner, cleaned, replaced>>
    BY <1>15 DEF vars, history
  <2>2. Spent' /\ Looked'
    BY <2>1 DEF Spent, Looked, LookedOf
  <2>3. Found'
    BY <2>1, FoundKept DEF Listed, Going, Evicting, Invalidating, Registering, maps
  <2> QED
    BY <2>2, <2>3
<1> QED
  BY <1>3, <1>4, <1>5, <1>6, <1>7, <1>8, <1>9, <1>10, <1>11, <1>12, <1>13, <1>14, <1>15
  DEF Next, Step

-----------------------------------------------------------------------------
\* The first layer holds in every reachable state.
LEMMA RecordsInvariant ==
  ASSUME IsFiniteSet(Threads)
  PROVE  Spec => []Records
<1>1. Records /\ [Next]_vars => Records'
  BY RecordsStep
<1> QED
  BY <1>1, RecordsInit, PTL DEF Spec

\* The counts of checkouts are the users there are, in every reachable state, however the
\* calls of Checkout, the checkin functions and Invalidate interleave and however long one
\* of them is paused.
THEOREM RecordsAreExact ==
  ASSUME IsFiniteSet(Threads)
  PROVE  Spec => []RecordsExact
<1>1. Records => RecordsExact
  <2> SUFFICES ASSUME Records PROVE TypeOK
    BY DEF Records, RecordsExact
  <2>1. \A i \in DOMAIN list : /\ list[i].key \in Keys
                               /\ list[i].value \in Resources \cup {NoRes}
                               /\ list[i].expiration \in Int
    <3>1. \A i \in DOMAIN list : list[i] \in Nodes
      BY LenProperties DEF Records, Typed
    <3> QED
      BY <3>1 DEF Nodes
  <2>2. checkouts \in [Resources -> -1..Cardinality(Threads)]
    <3> SUFFICES ASSUME NEW r \in Resources PROVE checkouts[r] \in -1..Cardinality(Threads)
      BY DEF Records, Typed
    <3>1. /\ Cardinality(Users(r)) \in Nat /\ Cardinality(Threads) \in Nat
          /\ Cardinality(Users(r)) <= Cardinality(Threads)
      <4>1. Users(r) \subseteq Threads
        BY DEF Users
      <4> QED
        BY <4>1, FS_Subset, FS_CardinalityType
    <3> QED
      BY <3>1 DEF Records, CheckoutsCountUsers
  <2> QED
    BY <2>1, <2>2 DEF Records, Typed, TypeOK
<1> QED
  BY <1>1, RecordsInvariant, PTL

\* Checkout, checkin and Invalidate block each other in one way only, however many there
\* are: one in newResource, with c.mu, waits for the ttl cache, and one in Get, with the
\* ttl cache, for c.mu.  Who waits for the lock of a key waits for one of these.
THEOREM NothingElseBlocks ==
  ASSUME IsFiniteSet(Threads)
  PROVE  Spec => []OnlyCycleBlocks
<1>1. Records => OnlyCycleBlocks
  <2> SUFFICES ASSUME Records,
                      NEW t \in Threads, pc[t] # "idle",
                      \A u \in Threads : pc[u] = "idle" \/ WaitsForLock(u)
               PROVE  ~NoLockCycle
    BY DEF OnlyCycleBlocks
  <2>1. /\ tmu \in Threads \cup {NoThread} /\ cmu \in Threads \cup {NoThread}
        /\ \A u \in Threads : /\ tmu = u => pc[u] \in {"evict", "onEvicted"}
                              /\ cmu = u => pc[u] = "put"
    BY DEF Records, Typed, Control, ControlOf
  <2>2. tmu # NoThread => cmu # NoThread
    BY <2>1 DEF WaitsForLock
  <2>3. cmu # NoThread => tmu # NoThread
    BY <2>1 DEF WaitsForLock
  <2>4. tmu # NoThread \/ cmu # NoThread
    BY DEF WaitsForLock
  <2>5. tmu \in Threads /\ cmu \in Threads
    BY <2>1, <2>2, <2>3, <2>4
  <2>6. pc[cmu] = "put" /\ pc[tmu] = "onEvicted"
    BY <2>1, <2>5 DEF WaitsForLock
  <2> QED
    BY <2>5, <2>6 DEF NoLockCycle
<1> QED
  BY <1>1, RecordsInvariant, PTL

\* Every id that was not overtaken is in one place at a time.
LEMMA InPlaceInvariant ==
  ASSUME IsFiniteSet(Threads)
  PROVE  Spec => []InPlace
<1>1. Records /\ InPlace /\ [Next]_vars => InPlace'
  BY StagesStep, OvertakesStep DEF InPlace
<1> QED
  BY <1>1, InPlaceInit, RecordsInvariant, PTL DEF Spec

\* What a caller has checked out is kept until it checks it in, whatever the other callers
\* invalidate, whatever expires meanwhile and however long a call is paused, with one
\* exception: a resource that was cleaned up while a call had found it and not used it yet.
THEOREM UsersKeepResources ==
  ASSUME IsFiniteSet(Threads)
  PROVE  Spec => []CheckedOutIsKept
<1>1. Records /\ InPlace => CheckedOutIsKept
  <2> SUFFICES ASSUME Records, InPlace,
                      NEW t \in Threads, inUse[t] # NoRes, inUse[t] \notin overtaken
               PROVE  Kept(inUse[t])
    BY DEF CheckedOutIsKept
  <2>1. inUse[t] \in Resources
    BY DEF Records, Typed
  <2>2. Intact(inUse[t])
    BY <2>1 DEF InPlace, Stages, StageOf
  <2> QED
    BY <2>2 DEF Intact
<1> QED
  BY <1>1, RecordsInvariant, InPlaceInvariant, PTL

\* No id is lost but one whose node was given to the next resource of the key.
LEMMA NoneLostInvariant ==
  ASSUME IsFiniteSet(Threads)
  PROVE  Spec => []NoneLost
<1>1. Records /\ InPlace /\ NoneLost /\ [Next]_vars => NoneLost'
  BY NoneLostStep
<1> QED
  BY <1>1, NoneLostInit, RecordsInvariant, InPlaceInvariant, PTL DEF Spec

\* Every resource that was created and not overtaken is cleaned up at most once; and until
\* one has been cleaned up somebody is going to, unless its node was replaced: the list still
\* has it, a call is about to evict it, or its last user checks it in.
THEOREM ResourcesAreCleanedUp ==
  ASSUME IsFiniteSet(Threads)
  PROVE  Spec => []CleanedExactlyOnce
<1>1. Records /\ InPlace /\ NoneLost => CleanedExactlyOnce
  <2> SUFFICES ASSUME Records, InPlace, NoneLost PROVE CleanedOnce /\ NoResourceLost
    BY DEF CleanedExactlyOnce
  <2>1. CleanedOnce
    BY DEF InPlace, Stages, StageOf, CleanedOnce
  <2>2. NoResourceLost
    <3> SUFFICES ASSUME NEW r \in Resources \ replaced, owner[r] # NoKey, ~(cleaned[r] > 0)
                 PROVE  \/ \E i \in DOMAIN list : list[i].value = r
                        \/ \E t \in Threads : \/ evicted[t] = r
                                             \/ (pc[t] = "put" /\ inUse[t] = r)
                                             \/ (pc[t] = "invalidated" /\ got[t] = r)
                        \/ (r \in expiries /\ Users(r) # {})
      BY DEF NoResourceLost
    <3>1. cleaned[r] = 0
      BY DEF Records, Typed
    <3>2. CASE Listed(r)
      BY <3>2 DEF Listed, In
    <3>3. CASE \E t \in Threads : Going(t, r) \/ Registering(t, r)
      BY <3>3 DEF Going, Evicting, Invalidating, Registering
    <3>4. CASE r \in expiries
      <4>1. checkouts[r] > 0
        BY <3>1, <3>4 DEF InPlace, Stages, Overtakes, StageOf
      <4>2. Users(r) # {}
        <5>1. Cardinality({}) = 0
          BY FS_EmptySet
        <5>2. checkouts[r] \in Int /\ checkouts[r] # -1
          BY <4>1 DEF Records, Typed
        <5> QED
          BY <4>1, <5>1, <5>2 DEF Records, CheckoutsCountUsers
      <4> QED
        BY <3>4, <4>2
    <3> QED
      BY <3>1, <3>2, <3>3, <3>4 DEF NoneLost, Found
  <2> QED
    BY <2>1, <2>2
<1> QED
  BY <1>1, RecordsInvariant, InPlaceInvariant, NoneLostInvariant, PTL

\* Two resources of one key are never live at the same time: newResource creates one only
\* when the one before it has left the list or has come to its expiration.  With the exact
\* counts that is what the keys of the cache stand for.
THEOREM KeysHaveOneResource ==
  ASSUME IsFiniteSet(Threads)
  PROVE  Spec => []OneResourcePerKey
<1>1. Records /\ NoneLost => OneLivePerKey
  <2> SUFFICES ASSUME Records, NoneLost,
                      NEW q \in Resources, NEW r \in Resources,
                      Live(q), Live(r), owner[q] = owner[r]
               PROVE  q = r
    BY DEF OneLivePerKey
  <2>0. q # NoRes /\ r # NoRes
    BY NoResNotResource
  <2>1. \A p \in {q, r} : Listed(p) \/ \E t \in Threads : Registering(t, p)
    BY DEF Live, Going, Evicting, Invalidating, NoneLost, Found
  <2>2. \A p \in {q, r} : \A x \in In(list) : x.value = p =>
          x.key = owner[p] /\ x.expiration > now
    <3>1. ASSUME NEW p \in {q, r}, NEW x \in In(list), x.value = p
          PROVE  x.key = owner[p] /\ x.expiration > now
      <4>1. x.key = owner[p]
        BY <2>0, <3>1 DEF Records, Known
      <4>2. x \in NodesOf(list, owner[p])
        BY <4>1, NodesOfIs
      <4> QED
        BY <3>1, <4>1, <4>2 DEF Live, Valid
    <3> QED
      BY <3>1
  <2>3. ASSUME NEW t \in Threads, NEW p \in {q, r}, Registering(t, p)
        PROVE  owner[p] = karg[t] /\ \A x \in In(list) : x.key = owner[p] => x.expiration <= now
    BY <2>3 DEF Registering, Records, Known, Control, ControlOf, NoneLost, Looked, LookedOf
  <2>4. CASE Listed(q) /\ Listed(r)
    <3>1. PICK x \in In(list), y \in In(list) : x.value = q /\ y.value = r
      BY <2>4 DEF Listed
    <3>2. x = y
      BY <2>2, <3>1, OneNode DEF Records, Typed
    <3> QED
      BY <3>1, <3>2
  <2>5. CASE \E t \in Threads : Registering(t, q) \/ Registering(t, r)
    <3>1. PICK t \in Threads, p \in {q, r} : Registering(t, p)
      BY <2>5
    <3>2. \A x \in In(list) : x.key = owner[q] => x.expiration <= now
      BY <2>3, <3>1
    <3>3. ~Listed(q) /\ ~Listed(r)
      <4>1. \A x \in In(list) : x.expiration \in Int /\ now \in Int
        BY NodeTypes DEF Records, Typed
      <4>2. \A x \in In(list) : x.expiration <= now => ~(x.expiration > now)
        BY <4>1
      <4> QED
        BY <2>2, <3>2, <4>2 DEF Listed
    <3>4. PICK u \in Threads, v \in Threads : Registering(u, q) /\ Registering(v, r)
      BY <2>1, <3>3
    <3>5. u = v
      BY <3>4 DEF Registering, Records, Control, ControlOf
    <3> QED
      BY <3>4, <3>5 DEF Registering
  <2> QED
    BY <2>1, <2>4, <2>5
<1>2. Spec => []OneLivePerKey
  BY <1>1, RecordsInvariant, NoneLostInvariant, PTL
<1>3. OneLivePerKey /\ RecordsExact => OneResourcePerKey
  BY DEF OneResourcePerKey
<1> QED
  BY <1>2, <1>3, RecordsAreExact, PTL

-----------------------------------------------------------------------------
(***************************************************************************)
(* CacheTTL: the pointers. A list that links the nodes in both directions   *)
(* still does when a node is unlinked, or linked in at a place. While add   *)
(* walks, the nodes without the one to insert are linked, and all it has    *)
(* passed expire later: where the walk ends is the place TTLList gives. The *)
(* clean-up is always at the head.                                          *)
(***************************************************************************)
CONSTANTS Values, TTLs, Root, Nil
VARIABLES m, next, prev, node, op, cur, cn,
          step                   \* where the call of the ttl cache is

Cache == INSTANCE CacheTTL WITH pc <- step

\* The ttls are durations; the sentinel and the nil pointer are none of the nodes.
CacheConstants == /\ TTLs \subseteq Int /\ MaxTime \in Nat
                  /\ Root \notin Keys /\ Nil \notin Keys \cup {Root}

Entries == [key : Keys, value : Values \cup {Nil}, ttl : Int, expiration : Int]

\* The types, with those of the nodes; a node has the key it is at.
CacheTyped == /\ Cache!TypeOK
              /\ node \in [Keys -> Entries] /\ \A k \in Keys : node[k].key = k
              /\ list \in Seq(Entries)

\* The list is l with the node to insert at its place; the walk has come to the place q of
\* l, whose nodes are linked, and all behind it expire later.
Inserting(l, q) == /\ Distinct(l) /\ (\A x \in In(l) : x.key # cur)
                   /\ Cache!Linked(next, prev, l)
                   /\ list = Add(l, node[cur])
                   /\ cn = Cache!KeyAt(l, q)
                   /\ \A i \in q+1..Len(l) : l[i].expiration > node[cur].expiration

Walking == /\ cur \in Keys /\ next[Root] # Nil
           /\ \E l \in Seq(Entries) : \E q \in 0..Len(l) : Inserting(l, q)

\* The map has just the nodes of the list.
InMap == /\ m = {x.key : x \in In(list)} /\ Distinct(list)
         /\ \A x \in In(list) : x = node[x.key]

\* Except in add, the pointers are those of the list; the clean-up is at its head.
CacheInv == /\ CacheTyped /\ InMap /\ Sorted(list)
            /\ step = "add" => Walking
            /\ step # "add" => IF next[Root] = Nil THEN list = <<>> ELSE Cache!Linked(next, prev, list)
            /\ step = "clean" => cn = next[Root]

\* The operators of TTLList are the same in CacheTTL.
LEMMA SameList ==
  /\ \A s, n : Cache!Add(s, n) = Add(s, n)
  /\ \A s, k : Cache!Without(s, k) = Without(s, k)
  /\ \A s, k : Cache!NodesOf(s, k) = NodesOf(s, k)
  /\ \A s, k, v, d, n : Cache!PutNode(s, k, v, d, n) = PutNode(s, k, v, d, n)
  /\ \A s, n, t : Cache!Refresh(s, n, t) = Refresh(s, n, t)
  /\ \A k, v, d, e : Cache!Node(k, v, d, e) = Node(k, v, d, e)
<1>1. \A s, n : Cache!Add(s, n) = Add(s, n)
  BY DEF Cache!Add, Cache!Place, Add, Place
<1>2. \A s, k : Cache!Without(s, k) = Without(s, k)
  BY DEF Cache!Without, Cache!At, Without, At
<1>3. \A s, k : Cache!NodesOf(s, k) = NodesOf(s, k)
  BY DEF Cache!NodesOf, Cache!At, NodesOf, At
<1>4. \A k, v, d, e : Cache!Node(k, v, d, e) = Node(k, v, d, e)
  BY DEF Cache!Node, Node
<1>5. \A s, k, v, d, n : Cache!PutNode(s, k, v, d, n) = PutNode(s, k, v, d, n)
  BY <1>1, <1>2, <1>3, <1>4 DEF Cache!PutNode, PutNode
<1>6. \A s, n, t : Cache!Refresh(s, n, t) = Refresh(s, n, t)
  BY <1>1, <1>2 DEF Cache!Refresh, Refresh
<1> QED
  BY <1>1, <1>2, <1>3, <1>4, <1>5, <1>6

\* The key at each place of a list, which is in no other place of it.
LEMMA KeyAtIs ==
  ASSUME CacheConstants, NEW s \in Seq(Entries), Distinct(s)
  PROVE  /\ Len(s) \in Nat /\ DOMAIN s = 1..Len(s)
         /\ \A i \in 1..Len(s) : s[i] \in Entries /\ Cache!KeyAt(s, i) = s[i].key /\ s[i].key \in Keys
         /\ Cache!KeyAt(s, 0) = Root /\ Cache!KeyAt(s, Len(s) + 1) = Root
         /\ \A i \in 0..Len(s)+1 : Cache!KeyAt(s, i) \in Keys \cup {Root}
         /\ \A i, j \in 0..Len(s) : Cache!KeyAt(s, i) = Cache!KeyAt(s, j) => i = j
         /\ \A i, j \in 1..Len(s)+1 : Cache!KeyAt(s, i) = Cache!KeyAt(s, j) => i = j
<1>1. Len(s) \in Nat /\ DOMAIN s = 1..Len(s) /\ \A i \in 1..Len(s) : s[i] \in Entries
  BY LenProperties
<1>2. \A i \in 1..Len(s) : Cache!KeyAt(s, i) = s[i].key /\ s[i].key \in Keys
  BY <1>1 DEF Cache!KeyAt, Entries
<1>3. Cache!KeyAt(s, 0) = Root /\ Cache!KeyAt(s, Len(s) + 1) = Root
  BY <1>1 DEF Cache!KeyAt
<1>4. \A i, j \in 1..Len(s) : Cache!KeyAt(s, i) = Cache!KeyAt(s, j) => i = j
  BY <1>1, <1>2 DEF Distinct
<1>5. \A i \in 0..Len(s)+1 : i \in 1..Len(s) \/ i = 0 \/ i = Len(s) + 1
  BY <1>1
<1>6. Root \notin Keys
  BY DEF CacheConstants
<1>7. \A i \in 0..Len(s)+1 : Cache!KeyAt(s, i) \in Keys \cup {Root}
  BY <1>2, <1>3, <1>5
<1>8. \A i, j \in 0..Len(s) : Cache!KeyAt(s, i) = Cache!KeyAt(s, j) => i = j
  <2>1. \A i \in 0..Len(s) : i = 0 \/ i \in 1..Len(s)
    BY <1>1
  <2> QED
    BY <2>1, <1>2, <1>3, <1>4, <1>6
<1>9. \A i, j \in 1..Len(s)+1 : Cache!KeyAt(s, i) = Cache!KeyAt(s, j) => i = j
  <2>1. \A i \in 1..Len(s)+1 : i = Len(s) + 1 \/ i \in 1..Len(s)
    BY <1>1
  <2> QED
    BY <2>1, <1>2, <1>3, <1>4, <1>6
<1> QED
  BY <1>1, <1>2, <1>3, <1>7, <1>8, <1>9

\* Unlinking the node at a place leaves the others linked.
LEMMA Unlinked ==
  ASSUME CacheConstants, NEW s \in Seq(Entries), Distinct(s), NEW p \in 1..Len(s),
         NEW nx \in [Keys \cup {Root} -> Keys \cup {Root, Nil}],
         NEW pv \in [Keys \cup {Root} -> Keys \cup {Root, Nil}],
         Cache!Linked(nx, pv, s)
  PROVE  LET k == s[p].key
             t == SubSeq(s, 1, p-1) \o SubSeq(s, p+1, Len(s))
         IN  /\ k \in Keys
             /\ pv[k] \in Keys \cup {Root} /\ nx[k] \in Keys \cup {Root}
             /\ Cache!Linked([nx EXCEPT ![pv[k]] = nx[k]], [pv EXCEPT ![nx[k]] = pv[k]], t)
<1> DEFINE k == s[p].key
           t == SubSeq(s, 1, p-1) \o SubSeq(s, p+1, Len(s))
           Pos(i) == Cache!KeyAt(s, i)
           nx2 == [nx EXCEPT ![pv[k]] = nx[k]]
           pv2 == [pv EXCEPT ![nx[k]] = pv[k]]
<1>1. /\ Len(s) \in Nat /\ DOMAIN s = 1..Len(s)
      /\ \A i \in 1..Len(s) : Pos(i) = s[i].key /\ s[i].key \in Keys
      /\ Pos(0) = Root /\ Pos(Len(s) + 1) = Root
      /\ \A i \in 0..Len(s)+1 : Pos(i) \in Keys \cup {Root}
      /\ \A i, j \in 0..Len(s) : Pos(i) = Pos(j) => i = j
      /\ \A i, j \in 1..Len(s)+1 : Pos(i) = Pos(j) => i = j
  BY KeyAtIs
<1>2. \A i \in 0..Len(s) : nx[Pos(i)] = Pos(i + 1) /\ pv[Pos(i + 1)] = Pos(i)
  BY DEF Cache!Linked
<1>3. /\ t \in Seq(Entries) /\ Len(t) = Len(s) - 1
      /\ \A i \in 1..Len(s)-1 : t[i] = IF i < p THEN s[i] ELSE s[i+1]
  BY Removed
<1> HIDE DEF Pos, t
<1>4. k = Pos(p) /\ k \in Keys
  BY <1>1
<1>5. nx[k] = Pos(p + 1) /\ pv[k] = Pos(p - 1)
  <2>1. p \in 0..Len(s) /\ p - 1 \in 0..Len(s) /\ p - 1 + 1 = p
    BY <1>1
  <2> QED
    BY <1>2, <1>4, <2>1
<1>6. Pos(p + 1) \in Keys \cup {Root} /\ Pos(p - 1) \in Keys \cup {Root}
  BY <1>1
<1> HIDE DEF k
<1>7. /\ nx2[Pos(p - 1)] = Pos(p + 1)
      /\ \A x \in Keys \cup {Root} : x # Pos(p - 1) => nx2[x] = nx[x]
      /\ pv2[Pos(p + 1)] = Pos(p - 1)
      /\ \A x \in Keys \cup {Root} : x # Pos(p + 1) => pv2[x] = pv[x]
  BY <1>5, <1>6
<1> HIDE DEF nx2, pv2
<1>8. \A i \in 0..Len(s) : Cache!KeyAt(t, i) = IF i < p THEN Pos(i) ELSE Pos(i + 1)
  <2>1. DOMAIN t = 1..Len(s)-1
    BY <1>1, <1>3, LenProperties
  <2> SUFFICES ASSUME NEW i \in 0..Len(s)
               PROVE  Cache!KeyAt(t, i) = IF i < p THEN Pos(i) ELSE Pos(i + 1)
    OBVIOUS
  <2>2. CASE i \in 1..Len(s)-1
    <3>1. Cache!KeyAt(t, i) = t[i].key
      BY <2>1, <2>2 DEF Cache!KeyAt
    <3>2. i \in 1..Len(s) /\ i+1 \in 1..Len(s)
      BY <1>1, <2>2
    <3> QED
      BY <1>1, <1>3, <2>2, <3>1, <3>2
  <2>3. CASE i \notin 1..Len(s)-1
    <3>1. Cache!KeyAt(t, i) = Root
      BY <2>1, <2>3 DEF Cache!KeyAt
    <3>2. (i = 0 /\ i < p) \/ (i = Len(s) /\ ~(i < p))
      <4>1. Len(s) \in Nat /\ p \in Nat /\ i \in Nat /\ 1 <= p /\ p <= Len(s) /\ i <= Len(s)
        BY <1>1
      <4>2. ~(1 <= i /\ i <= Len(s) - 1)
        BY <2>3, <4>1
      <4> QED
        BY <4>1, <4>2
    <3> QED
      BY <1>1, <3>1, <3>2
  <2> QED
    BY <2>2, <2>3
<1>9. ASSUME NEW i \in 0..Len(t)
      PROVE  nx2[Cache!KeyAt(t, i)] = Cache!KeyAt(t, i + 1) /\ pv2[Cache!KeyAt(t, i + 1)] = Cache!KeyAt(t, i)
  <2>1. i \in 0..Len(s) /\ i + 1 \in 0..Len(s) /\ i \in Nat /\ i + 1 <= Len(s)
    BY <1>1, <1>3
  <2>2. CASE i < p - 1
    <3>1. Cache!KeyAt(t, i) = Pos(i) /\ Cache!KeyAt(t, i + 1) = Pos(i + 1)
      BY <1>8, <2>1, <2>2
    <3>2. Pos(i) # Pos(p - 1) /\ Pos(i + 1) # Pos(p + 1)
      <4>1. p - 1 \in 0..Len(s) /\ i + 1 \in 1..Len(s)+1 /\ p + 1 \in 1..Len(s)+1 /\ i # p - 1 /\ i + 1 # p + 1
        BY <1>1, <2>1, <2>2
      <4> QED
        BY <1>1, <2>1, <4>1
    <3>3. Pos(i) \in Keys \cup {Root} /\ Pos(i + 1) \in Keys \cup {Root}
      BY <1>1, <2>1
    <3> QED
      BY <1>2, <1>7, <2>1, <3>1, <3>2, <3>3
  <2>3. CASE i = p - 1
    <3>1. Cache!KeyAt(t, i) = Pos(p - 1) /\ Cache!KeyAt(t, i + 1) = Pos(p + 1)
      BY <1>8, <2>1, <2>3
    <3> QED
      BY <1>7, <3>1
  <2>4. CASE ~(i <= p - 1)
    <3>1. Cache!KeyAt(t, i) = Pos(i + 1) /\ Cache!KeyAt(t, i + 1) = Pos(i + 2)
      BY <1>8, <2>1, <2>4
    <3>2. Pos(i + 1) # Pos(p - 1) /\ Pos(i + 2) # Pos(p + 1)
      <4>1. /\ p - 1 \in 0..Len(s) /\ i + 2 \in 1..Len(s)+1 /\ p + 1 \in 1..Len(s)+1
            /\ i + 1 # p - 1 /\ i + 2 # p + 1
        BY <1>1, <2>1, <2>4
      <4> QED
        BY <1>1, <2>1, <4>1
    <3>3. /\ Pos(i + 1) \in Keys \cup {Root} /\ Pos(i + 2) \in Keys \cup {Root}
          /\ nx[Pos(i + 1)] = Pos(i + 2) /\ pv[Pos(i + 2)] = Pos(i + 1)
      <4>1. i + 1 + 1 = i + 2 /\ i + 2 \in 0..Len(s)+1
        BY <1>1, <2>1
      <4> QED
        BY <1>1, <1>2, <2>1, <4>1
    <3> QED
      BY <1>7, <3>1, <3>2, <3>3
  <2> QED
    BY <1>1, <2>1, <2>2, <2>3, <2>4
<1>10. Cache!Linked(nx2, pv2, t)
  BY <1>9 DEF Cache!Linked
<1> QED
  BY <1>4, <1>5, <1>6, <1>10 DEF nx2, pv2, t, k

\* Pointers that differ at a node that is not in the list link it as well.
LEMMA LinkedElsewhere ==
  ASSUME CacheConstants, NEW s \in Seq(Entries), Distinct(s), NEW k \in Keys,
         \A x \in In(s) : x.key # k,
         NEW nx \in [Keys \cup {Root} -> Keys \cup {Root, Nil}],
         NEW pv \in [Keys \cup {Root} -> Keys \cup {Root, Nil}],
         Cache!Linked(nx, pv, s)
  PROVE  Cache!Linked([nx EXCEPT ![k] = Nil], [pv EXCEPT ![k] = Nil], s)
<1> DEFINE Pos(i) == Cache!KeyAt(s, i)
<1>1. /\ Len(s) \in Nat /\ DOMAIN s = 1..Len(s)
      /\ \A i \in 1..Len(s) : Pos(i) = s[i].key
      /\ Pos(0) = Root /\ Pos(Len(s) + 1) = Root
      /\ \A i \in 0..Len(s)+1 : Pos(i) \in Keys \cup {Root}
  BY KeyAtIs
<1>2. \A i \in 0..Len(s) : nx[Pos(i)] = Pos(i + 1) /\ pv[Pos(i + 1)] = Pos(i)
  BY DEF Cache!Linked
<1> HIDE DEF Pos
<1>3. \A i \in 0..Len(s)+1 : Pos(i) # k
  <2>1. \A i \in 1..Len(s) : s[i].key # k
    BY <1>1 DEF In
  <2>2. \A i \in 0..Len(s)+1 : i \in 1..Len(s) \/ i = 0 \/ i = Len(s) + 1
    BY <1>1
  <2> QED
    BY <1>1, <2>1, <2>2 DEF CacheConstants
<1>4. \A i \in 0..Len(s) : i \in 0..Len(s)+1 /\ i + 1 \in 0..Len(s)+1
  BY <1>1
<1>5. \A i \in 0..Len(s) : /\ [nx EXCEPT ![k] = Nil][Pos(i)] = Pos(i + 1)
                           /\ [pv EXCEPT ![k] = Nil][Pos(i + 1)] = Pos(i)
  BY <1>1, <1>2, <1>3, <1>4
<1> QED
  BY <1>5 DEF Cache!Linked, Pos

\* Linking a node in after the one at a place.
LEMMA LinkedIn ==
  ASSUME CacheConstants, NEW s \in Seq(Entries), Distinct(s), NEW n \in Entries,
         \A x \in In(s) : x.key # n.key, NEW q \in 0..Len(s),
         NEW nx \in [Keys \cup {Root} -> Keys \cup {Root, Nil}],
         NEW pv \in [Keys \cup {Root} -> Keys \cup {Root, Nil}],
         Cache!Linked(nx, pv, s), NEW c, c = Cache!KeyAt(s, q)
  PROVE  Cache!Linked([nx EXCEPT ![c] = n.key, ![n.key] = nx[c]],
                      [pv EXCEPT ![n.key] = c, ![nx[c]] = n.key], Insert(s, q, n))
<1> DEFINE k == n.key
           t == Insert(s, q, n)
           Pos(i) == Cache!KeyAt(s, i)
           nx2 == [nx EXCEPT ![c] = n.key, ![n.key] = nx[c]]
           pv2 == [pv EXCEPT ![n.key] = c, ![nx[c]] = n.key]
<1>1. /\ Len(s) \in Nat /\ DOMAIN s = 1..Len(s)
      /\ \A i \in 1..Len(s) : Pos(i) = s[i].key
      /\ Pos(0) = Root /\ Pos(Len(s) + 1) = Root
      /\ \A i \in 0..Len(s)+1 : Pos(i) \in Keys \cup {Root}
      /\ \A i, j \in 0..Len(s) : Pos(i) = Pos(j) => i = j
      /\ \A i, j \in 1..Len(s)+1 : Pos(i) = Pos(j) => i = j
  BY KeyAtIs
<1>2. \A i \in 0..Len(s) : nx[Pos(i)] = Pos(i + 1) /\ pv[Pos(i + 1)] = Pos(i)
  BY DEF Cache!Linked
<1>3. /\ t \in Seq(Entries) /\ Len(t) = Len(s) + 1
      /\ \A i \in 1..Len(s)+1 : t[i] = IF i <= q THEN s[i] ELSE IF i = q+1 THEN n ELSE s[i-1]
  BY Inserted
<1> HIDE DEF Pos, t
<1>4. k \in Keys /\ c = Pos(q) /\ c \in Keys \cup {Root} /\ nx[c] = Pos(q + 1) /\ nx[c] \in Keys \cup {Root}
  BY <1>1, <1>2 DEF Entries, Pos
<1>5. \A i \in 0..Len(s)+1 : Pos(i) # k
  <2>1. \A i \in 1..Len(s) : s[i].key # k
    BY <1>1 DEF In
  <2>2. \A i \in 0..Len(s)+1 : i \in 1..Len(s) \/ i = 0 \/ i = Len(s) + 1
    BY <1>1
  <2> QED
    BY <1>1, <1>4, <2>1, <2>2 DEF CacheConstants
<1>6. c # k /\ nx[c] # k
  <2>1. q \in 0..Len(s)+1 /\ q + 1 \in 0..Len(s)+1
    BY <1>1
  <2> QED
    BY <1>4, <1>5, <2>1
<1> HIDE DEF k
<1>7. /\ nx2[c] = k /\ nx2[k] = Pos(q + 1)
      /\ \A x \in Keys \cup {Root} : x \notin {c, k} => nx2[x] = nx[x]
      /\ pv2[k] = c /\ pv2[Pos(q + 1)] = k
      /\ \A x \in Keys \cup {Root} : x \notin {k, Pos(q + 1)} => pv2[x] = pv[x]
  BY <1>4, <1>6 DEF k
<1> HIDE DEF nx2, pv2
<1>8. \A i \in 0..Len(s)+2 : Cache!KeyAt(t, i) = IF i <= q THEN Pos(i) ELSE IF i = q+1 THEN k ELSE Pos(i - 1)
  <2>1. DOMAIN t = 1..Len(s)+1
    BY <1>1, <1>3, LenProperties
  <2> SUFFICES ASSUME NEW i \in 0..Len(s)+2
               PROVE  Cache!KeyAt(t, i) = IF i <= q THEN Pos(i) ELSE IF i = q+1 THEN k ELSE Pos(i - 1)
    OBVIOUS
  <2>2. CASE i \in 1..Len(s)+1
    <3>1. Cache!KeyAt(t, i) = t[i].key
      BY <2>1, <2>2 DEF Cache!KeyAt
    <3>2. (i <= q => i \in 1..Len(s)) /\ (~(i <= q) /\ i # q + 1 => i - 1 \in 1..Len(s))
      BY <1>1, <2>2
    <3> QED
      BY <1>1, <1>3, <2>2, <3>1, <3>2 DEF k
  <2>3. CASE i \notin 1..Len(s)+1
    <3>1. Cache!KeyAt(t, i) = Root
      BY <2>1, <2>3 DEF Cache!KeyAt
    <3>2. (i = 0 /\ i <= q) \/ (i - 1 = Len(s) + 1 /\ ~(i <= q) /\ i # q + 1)
      <4>1. Len(s) \in Nat /\ q \in Nat /\ i \in Nat /\ q <= Len(s) /\ i <= Len(s) + 2
        BY <1>1
      <4>2. ~(1 <= i /\ i <= Len(s) + 1)
        BY <2>3, <4>1
      <4> QED
        BY <4>1, <4>2
    <3> QED
      BY <1>1, <3>1, <3>2
  <2> QED
    BY <2>2, <2>3
<1>9. ASSUME NEW i \in 0..Len(t)
      PROVE  nx2[Cache!KeyAt(t, i)] = Cache!KeyAt(t, i + 1) /\ pv2[Cache!KeyAt(t, i + 1)] = Cache!KeyAt(t, i)
  <2>1. i \in 0..Len(s)+1 /\ i \in 0..Len(s)+2 /\ i + 1 \in 0..Len(s)+2 /\ i \in Nat
    BY <1>1, <1>3
  <2>2. CASE i < q
    <3>1. Cache!KeyAt(t, i) = Pos(i) /\ Cache!KeyAt(t, i + 1) = Pos(i + 1)
      BY <1>8, <2>1, <2>2
    <3>2. Pos(i) # Pos(q) /\ Pos(i + 1) # Pos(q + 1)
      <4>1. i \in 0..Len(s) /\ i + 1 \in 1..Len(s)+1 /\ q + 1 \in 1..Len(s)+1 /\ i # q /\ i + 1 # q + 1
        BY <1>1, <2>1, <2>2
      <4> QED
        BY <1>1, <2>1, <4>1
    <3>3. Pos(i) \in Keys \cup {Root} /\ Pos(i + 1) \in Keys \cup {Root} /\ Pos(i) # k /\ Pos(i + 1) # k /\ i \in 0..Len(s)
      <4>1. i + 1 \in 0..Len(s)+1 /\ i \in 0..Len(s)
        BY <1>1, <2>1, <2>2
      <4> QED
        BY <1>1, <1>5, <2>1, <4>1
    <3> QED
      BY <1>2, <1>4, <1>7, <3>1, <3>2, <3>3
  <2>3. CASE i = q
    <3>1. Cache!KeyAt(t, i) = c /\ Cache!KeyAt(t, i + 1) = k
      BY <1>4, <1>8, <2>1, <2>3
    <3> QED
      BY <1>7, <3>1
  <2>4. CASE i = q + 1
    <3>1. Cache!KeyAt(t, i) = k /\ Cache!KeyAt(t, i + 1) = Pos(q + 1)
      BY <1>8, <2>1, <2>4
    <3> QED
      BY <1>7, <3>1
  <2>5. CASE i > q + 1
    <3>1. Cache!KeyAt(t, i) = Pos(i - 1) /\ Cache!KeyAt(t, i + 1) = Pos(i)
      BY <1>8, <2>1, <2>5
    <3>2. Pos(i - 1) # Pos(q) /\ Pos(i) # Pos(q + 1)
      <4>1. i - 1 \in 0..Len(s) /\ i \in 1..Len(s)+1 /\ q + 1 \in 1..Len(s)+1 /\ i - 1 # q /\ i # q + 1
        BY <1>1, <2>1, <2>5
      <4> QED
        BY <1>1, <2>1, <4>1
    <3>3. /\ Pos(i - 1) \in Keys \cup {Root} /\ Pos(i) \in Keys \cup {Root} /\ Pos(i - 1) # k /\ Pos(i) # k
          /\ nx[Pos(i - 1)] = Pos(i) /\ pv[Pos(i)] = Pos(i - 1)
      <4>1. i - 1 \in 0..Len(s) /\ i - 1 \in 0..Len(s)+1 /\ i - 1 + 1 = i
        BY <1>1, <2>1, <2>5
      <4> QED
        BY <1>1, <1>2, <1>5, <2>1, <4>1
    <3> QED
      BY <1>4, <1>7, <3>1, <3>2, <3>3
  <2> QED
    BY <2>1, <2>2, <2>3, <2>4, <2>5
<1>10. Cache!Linked(nx2, pv2, t)
  BY <1>9 DEF Cache!Linked
<1> QED
  BY <1>10 DEF nx2, pv2, t, k

\* The walk of add ends at the place of the node.
LEMMA WalkEnds ==
  ASSUME NEW s \in Seq(Entries), NEW n \in Entries, NEW q \in 0..Len(s),
         q > 0 => s[q].expiration <= n.expiration,
         \A i \in q+1..Len(s) : s[i].expiration > n.expiration
  PROVE  Add(s, n) = Insert(s, q, n)
<1> DEFINE p == Place(s, n.expiration)
<1>1. (\A x \in Entries : x.expiration \in Int) /\ n.expiration \in Int
  BY DEF Entries
<1>2. /\ p \in 0..Len(s) /\ (p > 0 => s[p].expiration <= n.expiration)
      /\ \A i \in p+1..Len(s) : s[i].expiration > n.expiration
  BY <1>1, PlaceIs
<1> HIDE DEF p
<1>3. Len(s) \in Nat /\ \A i \in 1..Len(s) : s[i].expiration \in Int
  BY <1>1, LenProperties
<1>4. ~(p < q) /\ ~(q < p)
  <2>1. ASSUME p < q PROVE FALSE
    <3>1. q \in p+1..Len(s) /\ q > 0 /\ q \in 1..Len(s)
      BY <1>2, <1>3, <2>1
    <3> QED
      BY <1>1, <1>2, <1>3, <3>1
  <2>2. ASSUME q < p PROVE FALSE
    <3>1. p \in q+1..Len(s) /\ p > 0 /\ p \in 1..Len(s)
      BY <1>2, <1>3, <2>2
    <3> QED
      BY <1>1, <1>2, <1>3, <3>1
  <2> QED
    BY <2>1, <2>2
<1>5. p = q
  BY <1>2, <1>3, <1>4
<1> QED
  BY <1>5 DEF Add, Insert, p

\* Where the node of a key is that leaves the list.
LEMMA WithoutAt ==
  ASSUME NEW s \in Seq(Entries), NEW k
  PROVE  \/ (\A x \in In(s) : x.key # k) /\ Without(s, k) = s
         \/ \E p \in 1..Len(s) : /\ s[p].key = k
                                 /\ Without(s, k) = SubSeq(s, 1, p-1) \o SubSeq(s, p+1, Len(s))
<1>1. DOMAIN s = 1..Len(s)
  BY LenProperties
<1>2. CASE At(s, k) = {}
  BY <1>2 DEF Without, At, In
<1>3. CASE At(s, k) # {}
  <2> DEFINE p == CHOOSE i \in At(s, k) : TRUE
  <2>1. p \in 1..Len(s) /\ s[p].key = k
    BY <1>1, <1>3 DEF At
  <2>2. Without(s, k) = SubSeq(s, 1, p-1) \o SubSeq(s, p+1, Len(s))
    BY <1>3 DEF Without
  <2> HIDE DEF p
  <2> QED
    BY <2>1, <2>2
<1> QED
  BY <1>2, <1>3

\* The map follows a node that replaces that of its key.
LEMMA MapReplaced ==
  ASSUME CacheConstants, CacheTyped, InMap, Sorted(list), NEW k \in Keys, NEW z \in Entries, z.key = k,
         node' = [node EXCEPT ![k] = z], m' = m \cup {k}, list' = Add(Without(list, k), z)
  PROVE  /\ list' \in Seq(Entries) /\ InMap' /\ Sorted(list)' /\ z \in In(list')
         /\ Without(list, k) \in Seq(Entries) /\ Distinct(Without(list, k))
         /\ \A x \in In(Without(list, k)) : x.key # k
<1> DEFINE w == Without(list, k)
<1>1. \A x \in Entries : x.expiration \in Int
  BY DEF Entries
<1>2. list \in Seq(Entries) /\ Distinct(list) /\ node \in [Keys -> Entries]
  BY DEF CacheTyped, InMap
<1>3. /\ w \in Seq(Entries) /\ Distinct(w) /\ Sorted(w)
      /\ In(w) = {x \in In(list) : x.key # k}
  BY <1>1, <1>2, WithoutIs
<1> HIDE DEF w
<1>4. /\ list' \in Seq(Entries) /\ In(list') = In(w) \cup {z} /\ Sorted(list') /\ Distinct(list')
  <2>1. list' = Add(w, z)
    BY DEF w
  <2>2. \A x \in In(w) : x.key # z.key
    BY <1>3
  <2>3. /\ Add(w, z) \in Seq(Entries) /\ In(Add(w, z)) = In(w) \cup {z}
        /\ Sorted(Add(w, z)) /\ Distinct(Add(w, z))
    BY <1>1, <1>3, <2>2, AddIs
  <2> QED
    BY <2>1, <2>3
<1>5. m' = {x.key : x \in In(list')}
  BY <1>3, <1>4 DEF InMap
<1>6. ASSUME NEW x \in In(list') PROVE x = node'[x.key]
  <2>1. CASE x = z
    BY <1>2, <2>1
  <2>2. CASE x # z
    <3>1. x \in In(list) /\ x.key # k
      BY <1>3, <1>4, <1>6, <2>2
    <3>2. x = node[x.key] /\ x.key \in Keys
      BY <1>2, <3>1, InIs DEF InMap, Entries
    <3> QED
      BY <1>2, <3>1, <3>2
  <2> QED
    BY <2>1, <2>2
<1>7. InMap'
  BY <1>4, <1>5, <1>6 DEF InMap
<1> QED
  BY <1>3, <1>4, <1>7 DEF w

\* The first node: the pointers of an empty list have not been set.
LEMMA FirstNode ==
  ASSUME CacheConstants, CacheInv, step = "idle", next[Root] = Nil,
         NEW k \in Keys, NEW z \in Entries, z.key = k, z.ttl \in TTLs,
         node' = [node EXCEPT ![k] = z], m' = m \cup {k}, list' = Add(Without(list, k), z),
         next' = [next EXCEPT ![Root] = k, ![k] = Root],
         prev' = [prev EXCEPT ![Root] = k, ![k] = Root],
         op' \in {"get", "put"}, UNCHANGED <<now, step, cn, cur>>
  PROVE  CacheInv'
<1>1. list = <<>> /\ CacheTyped /\ InMap /\ Sorted(list) /\ Cache!TypeOK
  BY DEF CacheInv, CacheTyped
<1>2. list' \in Seq(Entries) /\ InMap' /\ Sorted(list)'
  BY <1>1, MapReplaced
<1>3. list' = <<z>>
  <2>1. PICK e \in Seq(Entries) : e = <<>> /\ Len(e) = 0
    <3>1. <<>> \in Seq(Entries)
      OBVIOUS
    <3> QED
      BY <3>1
  <2>2. Without(e, k) = e
    <3>1. \A p \in 1..Len(e) : FALSE
      BY <2>1
    <3> QED
      BY <3>1, WithoutAt
  <2>3. Add(e, z) = Insert(e, 0, z)
    <3>1. 0 \in 0..Len(e) /\ \A i \in 0+1..Len(e) : FALSE
      BY <2>1
    <3> QED
      BY <3>1, WalkEnds
  <2>4. Insert(e, 0, z) \in Seq(Entries) /\ Len(Insert(e, 0, z)) = 1 /\ Insert(e, 0, z)[1] = z
    <3>1. 0 \in 0..Len(e) /\ 1 \in 1..Len(e)+1
      BY <2>1
    <3>2. /\ Insert(e, 0, z) \in Seq(Entries) /\ Len(Insert(e, 0, z)) = Len(e) + 1
          /\ \A i \in 1..Len(e)+1 : Insert(e, 0, z)[i] = IF i <= 0 THEN e[i]
                                                       ELSE IF i = 0+1 THEN z ELSE e[i-1]
      BY <3>1, Inserted
    <3> HIDE DEF Insert
    <3> QED
      BY <2>1, <3>1, <3>2
  <2>5. \A t \in Seq(Entries) : Len(t) = 1 /\ t[1] = z => t = <<z>>
    OBVIOUS
  <2>6. list' = Insert(e, 0, z)
    BY <1>1, <2>1, <2>2, <2>3
  <2> QED
    BY <2>4, <2>5, <2>6
<1>4. /\ next' \in [Keys \cup {Root} -> Keys \cup {Root, Nil}]
      /\ prev' \in [Keys \cup {Root} -> Keys \cup {Root, Nil}]
      /\ next'[Root] = k /\ next'[k] = Root /\ prev'[Root] = k /\ prev'[k] = Root
  BY <1>1 DEF Cache!TypeOK, Cache!AllNodes, CacheConstants
<1>5. Cache!Linked(next', prev', list')
  <2>1. Cache!KeyAt(list', 0) = Root /\ Cache!KeyAt(list', 1) = k /\ Cache!KeyAt(list', 2) = Root
    BY <1>3 DEF Cache!KeyAt
  <2>2. Len(list') = 1 /\ \A i \in 0..1 : i = 0 \/ i = 1
    BY <1>3
  <2> QED
    BY <1>4, <2>1, <2>2 DEF Cache!Linked
<1>6. CacheTyped'
  <2>1. node' \in [Keys -> Entries] /\ \A j \in Keys : node'[j].key = j
    BY <1>1 DEF CacheTyped
  <2>2. \A j \in m' : node'[j].ttl \in TTLs
    BY <1>1 DEF CacheTyped, Cache!TypeOK
  <2>3. \A i \in DOMAIN list' : list'[i].key \in Keys
    BY <1>3
  <2>4. Cache!TypeOK'
    BY <1>1, <1>4, <2>1, <2>2, <2>3 DEF Cache!TypeOK, Cache!AllNodes
  <2> QED
    BY <1>2, <2>1, <2>4 DEF CacheTyped
<1> QED
  BY <1>2, <1>4, <1>5, <1>6 DEF CacheInv, CacheConstants

\* A node, new or taken out of the list, is to be added: the walk begins at the tail.
LEMMA WalkBegins ==
  ASSUME CacheConstants, CacheInv, step = "idle", next[Root] # Nil,
         NEW k \in Keys, NEW z \in Entries, z.key = k, z.ttl \in TTLs,
         node' = [node EXCEPT ![k] = z], m' = m \cup {k}, list' = Add(Without(list, k), z),
         next' = IF k \in m THEN Cache!NextWithout(k) ELSE next,
         prev' = IF k \in m THEN Cache!PrevWithout(k) ELSE prev,
         op' \in {"get", "put"}, step' = "add", cn' = prev'[Root], cur' = k, now' = now
  PROVE  CacheInv'
<1>1. CacheTyped /\ InMap /\ Sorted(list) /\ Cache!TypeOK /\ Cache!Linked(next, prev, list)
  BY DEF CacheInv, CacheTyped
<1>2. /\ list' \in Seq(Entries) /\ InMap' /\ Sorted(list)'
      /\ Without(list, k) \in Seq(Entries) /\ Distinct(Without(list, k))
      /\ \A x \in In(Without(list, k)) : x.key # k
  BY <1>1, MapReplaced
<1>0. PICK w \in Seq(Entries) : w = Without(list, k)
  BY <1>2
<1>3. /\ next \in [Keys \cup {Root} -> Keys \cup {Root, Nil}]
      /\ prev \in [Keys \cup {Root} -> Keys \cup {Root, Nil}]
      /\ list \in Seq(Entries) /\ Distinct(list) /\ DOMAIN list = 1..Len(list)
  BY <1>1, LenProperties DEF Cache!TypeOK, Cache!AllNodes, CacheTyped, InMap
<1>4. /\ Cache!Linked(next', prev', w)
      /\ next' \in [Keys \cup {Root} -> Keys \cup {Root, Nil}]
      /\ prev' \in [Keys \cup {Root} -> Keys \cup {Root, Nil}]
  <2>1. CASE k \notin m
    <3>1. \A x \in In(list) : x.key # k
      BY <1>1, <2>1 DEF InMap
    <3>2. w = list
      <4>1. \A p \in 1..Len(list) : list[p].key # k
        BY <1>3, <3>1 DEF In
      <4> QED
        BY <1>0, <1>3, <4>1, WithoutAt
    <3> QED
      BY <1>1, <1>3, <2>1, <3>2
  <2>2. CASE k \in m
    <3>1. PICK x \in In(list) : x.key = k
      BY <1>1, <2>2 DEF InMap
    <3>2. PICK p \in 1..Len(list) : /\ list[p].key = k
                                    /\ w = SubSeq(list, 1, p-1) \o SubSeq(list, p+1, Len(list))
      BY <1>0, <1>3, <3>1, WithoutAt
    <3>3. /\ prev[k] \in Keys \cup {Root} /\ next[k] \in Keys \cup {Root}
          /\ Cache!Linked([next EXCEPT ![prev[k]] = next[k]], [prev EXCEPT ![next[k]] = prev[k]], w)
      BY <1>1, <1>3, <3>2, Unlinked
    <3>4. next' = [next EXCEPT ![prev[k]] = next[k]] /\ prev' = [prev EXCEPT ![next[k]] = prev[k]]
      BY <2>2 DEF Cache!NextWithout, Cache!PrevWithout
    <3>5. Cache!Linked(next', prev', w)
      BY <3>3, <3>4
    <3>6. /\ next' \in [Keys \cup {Root} -> Keys \cup {Root, Nil}]
          /\ prev' \in [Keys \cup {Root} -> Keys \cup {Root, Nil}]
      <4>1. next[k] \in Keys \cup {Root, Nil} /\ prev[k] \in Keys \cup {Root, Nil}
        BY <3>3
      <4>2. \A f \in [Keys \cup {Root} -> Keys \cup {Root, Nil}] :
              \A a, b \in Keys \cup {Root, Nil} :
                [f EXCEPT ![a] = b] \in [Keys \cup {Root} -> Keys \cup {Root, Nil}]
        OBVIOUS
      <4> QED
        BY <1>3, <3>4, <4>1, <4>2
    <3> QED
      BY <3>5, <3>6
  <2> QED
    BY <2>1, <2>2
<1>5. /\ Len(w) \in Nat /\ Cache!KeyAt(w, 0) = Root /\ Cache!KeyAt(w, Len(w) + 1) = Root
      /\ \A i \in 0..Len(w)+1 : Cache!KeyAt(w, i) \in Keys \cup {Root}
  BY <1>0, <1>2, KeyAtIs
<1>6. cn' = Cache!KeyAt(w, Len(w)) /\ next'[Root] # Nil
  <2>1. \A i \in 0..Len(w) : /\ next'[Cache!KeyAt(w, i)] = Cache!KeyAt(w, i + 1)
                             /\ prev'[Cache!KeyAt(w, i + 1)] = Cache!KeyAt(w, i)
    BY <1>4 DEF Cache!Linked
  <2>2. 0 \in 0..Len(w) /\ Len(w) \in 0..Len(w) /\ 0 + 1 \in 0..Len(w)+1
    BY <1>5
  <2> QED
    BY <1>5, <2>1, <2>2 DEF CacheConstants
<1>7. node'[cur'] = z /\ cur' \in Keys
  BY <1>1 DEF CacheTyped
<1>8. Inserting(w, Len(w))'
  <2>1. \A i \in Len(w)+1..Len(w) : w[i].expiration > node'[cur'].expiration
    BY <1>5
  <2>2. /\ Distinct(w) /\ (\A x \in In(w) : x.key # cur') /\ Cache!Linked(next', prev', w)
        /\ list' = Add(w, node'[cur']) /\ cn' = Cache!KeyAt(w, Len(w))
    BY <1>0, <1>2, <1>4, <1>6, <1>7
  <2> QED
    BY <2>1, <2>2 DEF Inserting, Cache!Linked, Cache!KeyAt
<1>9. CacheTyped'
  <2>1. node' \in [Keys -> Entries] /\ \A j \in Keys : node'[j].key = j
    BY <1>1 DEF CacheTyped
  <2>2. \A j \in m' : node'[j].ttl \in TTLs
    BY <1>1 DEF CacheTyped, Cache!TypeOK
  <2>3. \A i \in DOMAIN list' : list'[i].key \in Keys
    <3>1. DOMAIN list' = 1..Len(list') /\ \A i \in 1..Len(list') : list'[i] \in Entries
      BY <1>2, LenProperties
    <3> QED
      BY <3>1 DEF Entries
  <2>4. cn' \in Keys \cup {Root}
    <3>1. Len(w) \in 0..Len(w)+1
      BY <1>5
    <3> QED
      BY <1>5, <1>6, <3>1
  <2>5. Cache!TypeOK'
    BY <1>1, <1>4, <2>1, <2>2, <2>3, <2>4 DEF Cache!TypeOK, Cache!AllNodes
  <2> QED
    BY <1>2, <2>1, <2>5 DEF CacheTyped
<1>10. Walking'
  <2>1. Len(w) \in 0..Len(w)
    BY <1>5
  <2> QED
    BY <1>6, <1>7, <1>8, <2>1 DEF Walking
<1> QED
  BY <1>2, <1>9, <1>10 DEF CacheInv

\* What CacheInv says of pointers and list: the types in one place.
LEMMA CacheFacts ==
  ASSUME CacheConstants, CacheInv
  PROVE  /\ next \in [Keys \cup {Root} -> Keys \cup {Root, Nil}]
         /\ prev \in [Keys \cup {Root} -> Keys \cup {Root, Nil}]
         /\ list \in Seq(Entries) /\ Distinct(list) /\ DOMAIN list = 1..Len(list) /\ Len(list) \in Nat
         /\ node \in [Keys -> Entries] /\ \A k \in Keys : node[k].key = k
         /\ \A x \in In(list) : x \in Entries /\ x.key \in Keys /\ x = node[x.key]
         /\ CacheTyped /\ Cache!TypeOK /\ InMap /\ Sorted(list)
<1>1. CacheTyped /\ Cache!TypeOK /\ InMap /\ Sorted(list)
  BY DEF CacheInv, CacheTyped
<1>2. list \in Seq(Entries) /\ Distinct(list) /\ node \in [Keys -> Entries]
      /\ \A k \in Keys : node[k].key = k
  BY <1>1 DEF CacheTyped, InMap
<1>3. DOMAIN list = 1..Len(list) /\ Len(list) \in Nat
  BY <1>2, LenProperties
<1>4. \A x \in In(list) : x \in Entries /\ x.key \in Keys /\ x = node[x.key]
  BY <1>1, <1>2, InIs DEF InMap, Entries
<1> QED
  BY <1>1, <1>2, <1>3, <1>4 DEF Cache!TypeOK, Cache!AllNodes

\* Put.
LEMMA PutCache ==
  ASSUME CacheConstants, CacheInv, NEW k \in Keys, NEW v \in Values, NEW d \in TTLs, Cache!Put(k, v, d)
  PROVE  CacheInv'
<1> DEFINE z == Node(k, v, IF k \in m THEN node[k].ttl ELSE d, now + d)
<1>1. /\ list \in Seq(Entries) /\ Distinct(list) /\ node \in [Keys -> Entries]
      /\ \A x \in In(list) : x \in Entries /\ x.key \in Keys /\ x = node[x.key]
      /\ InMap /\ Cache!TypeOK /\ now \in Int /\ d \in Int
  BY CacheFacts DEF Cache!TypeOK, CacheConstants
<1>2. z \in Entries /\ z.key = k /\ z.ttl \in TTLs
  <2>1. (k \in m => node[k].ttl \in TTLs) /\ now + d \in Int
    BY <1>1 DEF Cache!TypeOK
  <2>2. z.ttl \in TTLs /\ z.key = k /\ z.value = v /\ z.expiration = now + d
    BY <2>1 DEF Node
  <2>3. TTLs \subseteq Int
    BY DEF CacheConstants
  <2> QED
    BY <2>1, <2>2, <2>3 DEF Node, Entries
<1>3. node' = [node EXCEPT ![k] = z]
  BY <1>1, SameList DEF Cache!Put
<1>4. list' = Add(Without(list, k), z)
  <2>1. list' = PutNode(list, k, v, d, now)
    BY SameList DEF Cache!Put
  <2>2. NodesOf(list, k) = {x \in In(list) : x.key = k}
    BY NodesOfIs
  <2>3. CASE k \in m
    <3>1. NodesOf(list, k) = {node[k]}
      BY <1>1, <2>2, <2>3 DEF InMap
    <3>2. (CHOOSE n \in NodesOf(list, k) : TRUE) = node[k] /\ NodesOf(list, k) # {}
      BY <3>1
    <3> QED
      BY <2>1, <2>3, <3>2 DEF PutNode
  <2>4. CASE k \notin m
    <3>1. NodesOf(list, k) = {}
      BY <1>1, <2>2, <2>4 DEF InMap
    <3> QED
      BY <2>1, <2>4, <3>1 DEF PutNode
  <2> QED
    BY <2>3, <2>4
<1> HIDE DEF z
<1>5. m' = m \cup {k} /\ step = "idle" /\ op' \in {"get", "put"} /\ now' = now
  BY DEF Cache!Put
<1>6. CASE next[Root] = Nil
  <2>1. /\ next' = [next EXCEPT ![Root] = k, ![k] = Root]
        /\ prev' = [prev EXCEPT ![Root] = k, ![k] = Root]
        /\ UNCHANGED <<now, step, cn, cur>>
    BY <1>6 DEF Cache!Put
  <2> QED
    BY <1>2, <1>3, <1>4, <1>5, <1>6, <2>1, FirstNode
<1>7. CASE next[Root] # Nil
  <2>1. /\ next' = IF k \in m THEN Cache!NextWithout(k) ELSE next
        /\ prev' = IF k \in m THEN Cache!PrevWithout(k) ELSE prev
        /\ step' = "add" /\ cn' = prev'[Root] /\ cur' = k
    BY <1>7 DEF Cache!Put
  <2> QED
    BY <1>2, <1>3, <1>4, <1>5, <1>7, <2>1, WalkBegins
<1> QED
  BY <1>6, <1>7

\* Get, up to its first loop.
LEMMA GetCache ==
  ASSUME CacheConstants, CacheInv, NEW k \in Keys, Cache!Get(k)
  PROVE  CacheInv'
<1>1. /\ list \in Seq(Entries) /\ Distinct(list) /\ node \in [Keys -> Entries] /\ Len(list) \in Nat
      /\ \A j \in Keys : node[j].key = j
      /\ \A x \in In(list) : x \in Entries /\ x.key \in Keys /\ x = node[x.key]
      /\ InMap /\ Cache!TypeOK /\ CacheTyped /\ now \in Int
      /\ next \in [Keys \cup {Root} -> Keys \cup {Root, Nil}]
  BY CacheFacts DEF Cache!TypeOK
<1>2. /\ step = "idle" /\ op' = "get" /\ UNCHANGED <<now, m>>
      /\ \/ /\ k \in m
            /\ next' = Cache!NextWithout(k) /\ prev' = Cache!PrevWithout(k)
            /\ node' = [node EXCEPT ![k].expiration = now + node[k].ttl]
            /\ \E n \in Cache!NodesOf(list, k) : list' = Cache!Refresh(list, n, now)
            /\ step' = "add" /\ cn' = prev'[Root] /\ cur' = k
         \/ /\ step' = "clean" /\ cn' = next[Root]
            /\ UNCHANGED <<next, prev, node, list, cur>>
  BY DEF Cache!Get
<1>3. CASE step' = "add"
  <2> DEFINE z == [node[k] EXCEPT !.expiration = now + node[k].ttl]
  <2>1. /\ k \in m /\ next' = Cache!NextWithout(k) /\ prev' = Cache!PrevWithout(k)
        /\ node' = [node EXCEPT ![k].expiration = now + node[k].ttl]
        /\ \E n \in Cache!NodesOf(list, k) : list' = Cache!Refresh(list, n, now)
        /\ cn' = prev'[Root] /\ cur' = k
    BY <1>2, <1>3
  <2>2. node' = [node EXCEPT ![k] = z]
    BY <2>1
  <2>3. z \in Entries /\ z.key = k /\ z.ttl = node[k].ttl
    <3>1. node[k] \in Entries /\ node[k].key = k
      BY <1>1
    <3>2. now + node[k].ttl \in Int
      BY <1>1, <3>1 DEF Entries
    <3>3. \A x \in Entries : \A e \in Int :
            /\ [x EXCEPT !.expiration = e] \in Entries
            /\ [x EXCEPT !.expiration = e].key = x.key /\ [x EXCEPT !.expiration = e].ttl = x.ttl
      BY DEF Entries
    <3> QED
      BY <3>1, <3>2, <3>3
  <2>4. z.ttl \in TTLs
    BY <1>1, <2>1, <2>3 DEF Cache!TypeOK
  <2>5. list' = Add(Without(list, k), z)
    <3>1. PICK n \in NodesOf(list, k) : list' = Refresh(list, n, now)
      BY <2>1, SameList
    <3>2. n = node[k] /\ n.key = k
      BY <1>1, NodesOfIs
    <3> QED
      BY <3>1, <3>2 DEF Refresh
  <2>6. next[Root] # Nil
    <3>1. \E x \in In(list) : TRUE
      BY <1>1, <2>1 DEF InMap
    <3>2. list # <<>>
      BY <3>1 DEF In
    <3> QED
      BY <1>2, <3>2 DEF CacheInv
  <2>7. m' = m \cup {k} /\ now' = now /\ op' \in {"get", "put"}
    BY <1>2, <2>1
  <2> HIDE DEF z
  <2> QED
    BY <1>2, <1>3, <2>1, <2>2, <2>3, <2>4, <2>5, <2>6, <2>7, WalkBegins
<1>4. CASE step' # "add"
  <2>1. /\ step' = "clean" /\ cn' = next[Root] /\ UNCHANGED <<now, m, next, prev, node, list, cur>>
    BY <1>2, <1>4
  <2>2. CacheTyped'
    BY <1>1, <1>2, <2>1 DEF CacheTyped, Cache!TypeOK, Cache!AllNodes
  <2> QED
    BY <1>2, <2>1, <2>2 DEF CacheInv, InMap, Sorted, Cache!Linked, Cache!KeyAt
<1> QED
  BY <1>3, <1>4

\* A step of the walk, and the insertion where it ends.
LEMMA AddCache ==
  ASSUME CacheConstants, CacheInv, Cache!AddStep
  PROVE  CacheInv'
<1>1. /\ next \in [Keys \cup {Root} -> Keys \cup {Root, Nil}]
      /\ prev \in [Keys \cup {Root} -> Keys \cup {Root, Nil}]
      /\ list \in Seq(Entries) /\ node \in [Keys -> Entries] /\ Distinct(list)
      /\ \A k \in Keys : node[k].key = k
      /\ \A x \in In(list) : x \in Entries /\ x.key \in Keys /\ x = node[x.key]
      /\ InMap /\ Cache!TypeOK /\ CacheTyped /\ Sorted(list)
  BY CacheFacts
<1>2. step = "add" /\ Walking /\ UNCHANGED <<now, m, node, op, list>>
  BY DEF Cache!AddStep, CacheInv
<1>0. PICK l \in Seq(Entries) : \E q \in 0..Len(l) : Inserting(l, q)
  BY <1>2 DEF Walking
<1>3. PICK q \in 0..Len(l) : Inserting(l, q)
  BY <1>0
<1>4. /\ cur \in Keys /\ next[Root] # Nil /\ Distinct(l) /\ (\A x \in In(l) : x.key # cur)
      /\ Cache!Linked(next, prev, l) /\ list = Add(l, node[cur]) /\ cn = Cache!KeyAt(l, q)
      /\ \A i \in q+1..Len(l) : l[i].expiration > node[cur].expiration
  BY <1>2, <1>3 DEF Walking, Inserting
<1>5. /\ Len(l) \in Nat /\ DOMAIN l = 1..Len(l)
      /\ \A i \in 1..Len(l) : l[i] \in Entries /\ Cache!KeyAt(l, i) = l[i].key /\ l[i].key \in Keys
      /\ Cache!KeyAt(l, 0) = Root
      /\ \A i \in 0..Len(l)+1 : Cache!KeyAt(l, i) \in Keys \cup {Root}
  BY <1>4, KeyAtIs
<1>6. \A x \in Entries : x.expiration \in Int
  BY DEF Entries
<1>7. q # 0 => cn = l[q].key /\ cn \in Keys /\ node[cn] = l[q] /\ q \in 1..Len(l)
  <2> SUFFICES ASSUME q # 0 PROVE cn = l[q].key /\ cn \in Keys /\ node[cn] = l[q] /\ q \in 1..Len(l)
    OBVIOUS
  <2>1. q \in 1..Len(l)
    BY <1>5
  <2>2. cn = l[q].key /\ cn \in Keys
    BY <1>4, <1>5, <2>1
  <2>3. In(list) = In(l) \cup {node[cur]}
    <3>1. node[cur] \in Entries
      BY <1>1, <1>4
    <3>2. \A n \in Entries : In(Add(l, n)) = In(l) \cup {n}
      BY <1>6, AddIs
    <3> QED
      BY <1>4, <3>1, <3>2
  <2>4. l[q] \in In(l)
    BY <1>5, <2>1 DEF In
  <2> QED
    BY <1>1, <2>1, <2>2, <2>3, <2>4
<1>8. node[cur] \in Entries /\ node[cur].key = cur /\ Root \notin Keys /\ Nil \notin Keys \cup {Root}
  BY <1>1, <1>4 DEF CacheConstants
<1>9. CASE ~Cache!NotBefore(cur, cn)
  <2>1. cn' = prev[cn] /\ UNCHANGED <<next, prev, step, cur>>
    BY <1>9 DEF Cache!AddStep
  <2>2. cn # Root /\ ~(node[cur].expiration >= node[cn].expiration)
    BY <1>9 DEF Cache!NotBefore
  <2>3. q # 0
    BY <1>4, <1>5, <2>2
  <2>4. q - 1 \in 0..Len(l) /\ q - 1 + 1 = q
    BY <1>5, <2>3
  <2>5. cn' = Cache!KeyAt(l, q - 1)
    BY <1>4, <2>1, <2>4 DEF Cache!Linked
  <2>6. \A i \in q-1+1..Len(l) : l[i].expiration > node[cur].expiration
    <3> SUFFICES ASSUME NEW i \in q..Len(l) PROVE l[i].expiration > node[cur].expiration
      BY <2>4
    <3>1. CASE i = q
      <4>1. l[q].expiration = node[cn].expiration /\ l[q].expiration \in Int /\ node[cur].expiration \in Int
        BY <1>5, <1>6, <1>7, <1>8, <2>3
      <4> QED
        BY <2>2, <3>1, <4>1
    <3>2. CASE i # q
      <4>1. i \in q+1..Len(l)
        BY <1>5, <3>2
      <4> QED
        BY <1>4, <4>1
    <3> QED
      BY <3>1, <3>2
  <2>7. Inserting(l, q - 1)'
    BY <1>2, <1>4, <2>1, <2>5, <2>6 DEF Inserting, Cache!Linked, Cache!KeyAt
  <2>8. Walking'
    BY <1>4, <2>1, <2>4, <2>7 DEF Walking
  <2>9. cn' \in Keys \cup {Root}
    <3>1. q - 1 \in 0..Len(l)+1
      BY <1>5, <2>4
    <3> QED
      BY <1>5, <2>5, <3>1
  <2>10. CacheTyped'
    BY <1>1, <1>2, <2>1, <2>9 DEF CacheTyped, Cache!TypeOK, Cache!AllNodes
  <2> QED
    BY <1>1, <1>2, <2>1, <2>8, <2>10 DEF CacheInv, InMap, Sorted
<1>10. CASE Cache!NotBefore(cur, cn)
  <2>1. /\ next' = [next EXCEPT ![cn] = cur, ![cur] = next[cn]]
        /\ prev' = [prev EXCEPT ![cur] = cn, ![next[cn]] = cur]
        /\ step' = IF op = "get" THEN "clean" ELSE "idle"
        /\ cn' = IF op = "get" THEN next'[Root] ELSE Nil
        /\ cur' = Nil
    BY <1>10 DEF Cache!AddStep
  <2>2. q > 0 => l[q].expiration <= node[cur].expiration
    <3> SUFFICES ASSUME q > 0 PROVE l[q].expiration <= node[cur].expiration
      OBVIOUS
    <3>1. q # 0
      BY <1>5
    <3>2. cn # Root
      BY <1>7, <1>8, <3>1
    <3>3. node[cur].expiration >= node[cn].expiration
      BY <1>10, <3>2 DEF Cache!NotBefore
    <3>4. node[cn].expiration = l[q].expiration /\ l[q].expiration \in Int /\ node[cur].expiration \in Int
      BY <1>5, <1>6, <1>7, <1>8, <3>1
    <3> QED
      BY <3>3, <3>4
  <2>3. list = Insert(l, q, node[cur])
    BY <1>4, <1>8, <2>2, WalkEnds
  <2>4. Cache!Linked(next', prev', list)
    <3>1. PICK n \in Entries : n = node[cur] /\ n.key = cur
      BY <1>8
    <3>2. Cache!Linked([next EXCEPT ![cn] = n.key, ![n.key] = next[cn]],
                       [prev EXCEPT ![n.key] = cn, ![next[cn]] = n.key], Insert(l, q, n))
      BY <1>1, <1>4, <3>1, LinkedIn
    <3> QED
      BY <2>1, <2>3, <3>1, <3>2
  <2>5. /\ next' \in [Keys \cup {Root} -> Keys \cup {Root, Nil}]
        /\ prev' \in [Keys \cup {Root} -> Keys \cup {Root, Nil}]
    <3>1. q \in 0..Len(l)+1 /\ q + 1 \in 0..Len(l)+1
      BY <1>5
    <3>2. cn \in Keys \cup {Root} /\ next[cn] \in Keys \cup {Root}
      BY <1>4, <1>5, <3>1 DEF Cache!Linked
    <3>3. \A f \in [Keys \cup {Root} -> Keys \cup {Root, Nil}] :
            \A x, y \in Keys \cup {Root} : \A u, v \in Keys \cup {Root} :
              [f EXCEPT ![x] = u, ![y] = v] \in [Keys \cup {Root} -> Keys \cup {Root, Nil}]
      OBVIOUS
    <3>4. cur \in Keys \cup {Root}
      BY <1>4
    <3> QED
      BY <1>1, <2>1, <3>2, <3>3, <3>4
  <2>6. next'[Root] # Nil
    <3>1. /\ Len(list) \in Nat /\ Cache!KeyAt(list, 0) = Root
          /\ \A i \in 0..Len(list)+1 : Cache!KeyAt(list, i) \in Keys \cup {Root}
      BY <1>1, KeyAtIs
    <3>2. 0 \in 0..Len(list) /\ 0 + 1 \in 0..Len(list)+1
      BY <3>1
    <3>3. next'[Root] = Cache!KeyAt(list, 0 + 1)
      BY <2>4, <3>1, <3>2 DEF Cache!Linked
    <3> QED
      BY <1>8, <3>1, <3>2, <3>3
  <2>7. CacheTyped'
    <3>1. next'[Root] \in Keys \cup {Root, Nil}
      BY <2>5
    <3> QED
      BY <1>1, <1>2, <2>1, <2>5, <3>1 DEF CacheTyped, Cache!TypeOK, Cache!AllNodes
  <2>8. Cache!Linked(next, prev, list)'
    BY <1>2, <2>4 DEF Cache!Linked, Cache!KeyAt
  <2>9. InMap' /\ Sorted(list)'
    BY <1>1, <1>2 DEF InMap, Sorted
  <2>10. step' # "add" /\ (step' = "clean" => cn' = next'[Root])
    BY <2>1
  <2> QED
    BY <2>6, <2>7, <2>8, <2>9, <2>10 DEF CacheInv
<1> QED
  BY <1>9, <1>10

\* The clean-up of a node: the head of the list leaves it and the map.
LEMMA CleanCache ==
  ASSUME CacheConstants, CacheInv, Cache!CleanStep
  PROVE  CacheInv'
<1>1. /\ next \in [Keys \cup {Root} -> Keys \cup {Root, Nil}]
      /\ prev \in [Keys \cup {Root} -> Keys \cup {Root, Nil}]
      /\ list \in Seq(Entries) /\ Distinct(list) /\ Len(list) \in Nat
      /\ node \in [Keys -> Entries] /\ \A k \in Keys : node[k].key = k
      /\ \A x \in In(list) : x \in Entries /\ x.key \in Keys /\ x = node[x.key]
      /\ InMap /\ Cache!TypeOK /\ CacheTyped /\ Sorted(list)
  BY CacheFacts
<1>2. /\ step = "clean" /\ cn \notin {Nil, Root} /\ cn = next[Root]
      /\ next' = [Cache!NextWithout(cn) EXCEPT ![cn] = Nil]
      /\ prev' = [Cache!PrevWithout(cn) EXCEPT ![cn] = Nil]
      /\ node' = [node EXCEPT ![cn] = Node(cn, Nil, 0, 0)]
      /\ m' = m \ {cn} /\ list' = Without(list, cn) /\ cn' = next[cn]
      /\ UNCHANGED <<now, step, op, cur>>
  BY SameList DEF Cache!CleanStep, Cache!AtExpired, CacheInv
<1>3. Cache!Linked(next, prev, list)
  BY <1>2 DEF CacheInv
<1>4. /\ DOMAIN list = 1..Len(list)
      /\ \A i \in 1..Len(list) : /\ list[i] \in Entries /\ Cache!KeyAt(list, i) = list[i].key
                                 /\ list[i].key \in Keys
      /\ Cache!KeyAt(list, 0) = Root /\ Cache!KeyAt(list, Len(list) + 1) = Root
      /\ \A i \in 0..Len(list)+1 : Cache!KeyAt(list, i) \in Keys \cup {Root}
  BY <1>1, KeyAtIs
<1>5. /\ next[Root] = Cache!KeyAt(list, 1)
      /\ \A i \in 0..Len(list) : /\ next[Cache!KeyAt(list, i)] = Cache!KeyAt(list, i + 1)
                                 /\ prev[Cache!KeyAt(list, i + 1)] = Cache!KeyAt(list, i)
  <2>1. \A i \in 0..Len(list) : /\ next[Cache!KeyAt(list, i)] = Cache!KeyAt(list, i + 1)
                                /\ prev[Cache!KeyAt(list, i + 1)] = Cache!KeyAt(list, i)
    BY <1>3 DEF Cache!Linked
  <2>2. 0 \in 0..Len(list) /\ 0 + 1 = 1
    BY <1>1
  <2> QED
    BY <1>4, <2>1, <2>2
<1>6. 1 \in 1..Len(list) /\ cn = list[1].key /\ cn \in Keys
  <2>1. Len(list) # 0
    BY <1>2, <1>4, <1>5
  <2>2. 1 \in 1..Len(list)
    BY <1>1, <2>1
  <2> QED
    BY <1>2, <1>4, <1>5, <2>2
<1>7. prev[cn] = Root /\ next[cn] \in Keys \cup {Root}
  <2>1. 0 \in 0..Len(list) /\ 0 + 1 = 1 /\ 1 \in 0..Len(list) /\ 1 + 1 \in 0..Len(list)+1
    BY <1>1, <1>6
  <2> QED
    BY <1>2, <1>4, <1>5, <2>1
<1>8. PICK w \in Seq(Entries) :
        /\ w = Without(list, cn) /\ Distinct(w) /\ Sorted(w)
        /\ In(w) = {x \in In(list) : x.key # cn}
  <2>1. \A x \in Entries : x.expiration \in Int
    BY DEF Entries
  <2> QED
    BY <1>1, <2>1, WithoutIs
<1>9. PICK nx \in [Keys \cup {Root} -> Keys \cup {Root, Nil}] : nx = Cache!NextWithout(cn)
  BY <1>1, <1>7 DEF Cache!NextWithout
<1>10. PICK pv \in [Keys \cup {Root} -> Keys \cup {Root, Nil}] : pv = Cache!PrevWithout(cn)
  BY <1>1, <1>7 DEF Cache!PrevWithout
<1>11. Cache!Linked(nx, pv, w)
  <2>1. PICK p \in 1..Len(list) : /\ list[p].key = cn
                                  /\ w = SubSeq(list, 1, p-1) \o SubSeq(list, p+1, Len(list))
    <3>1. list[1] \in In(list)
      BY <1>4, <1>6 DEF In
    <3> QED
      BY <1>1, <1>6, <1>8, <3>1, WithoutAt
  <2>2. Cache!Linked([next EXCEPT ![prev[cn]] = next[cn]], [prev EXCEPT ![next[cn]] = prev[cn]], w)
    BY <1>1, <1>3, <2>1, Unlinked
  <2> QED
    BY <1>9, <1>10, <2>2 DEF Cache!NextWithout, Cache!PrevWithout
<1>12. /\ next' = [nx EXCEPT ![cn] = Nil] /\ prev' = [pv EXCEPT ![cn] = Nil] /\ list' = w
       /\ next' \in [Keys \cup {Root} -> Keys \cup {Root, Nil}]
       /\ prev' \in [Keys \cup {Root} -> Keys \cup {Root, Nil}]
  BY <1>2, <1>6, <1>8, <1>9, <1>10
<1>13. Cache!Linked(next', prev', list')
  BY <1>6, <1>8, <1>11, <1>12, LinkedElsewhere
<1>14. next'[Root] = next[cn]
  <2>1. nx[Root] = next[cn]
    BY <1>1, <1>7, <1>9 DEF Cache!NextWithout
  <2> QED
    BY <1>2, <1>12, <2>1
<1>15. InMap'
  <2>1. m' = {x.key : x \in In(list')}
    <3>1. In(list') = {x \in In(list) : x.key # cn} /\ m = {x.key : x \in In(list)}
      BY <1>1, <1>8, <1>12 DEF InMap
    <3>2. m' = m \ {cn}
      BY <1>2
    <3> QED
      BY <3>1, <3>2
  <2>2. \A x \in In(list') : x = node'[x.key]
    BY <1>1, <1>2, <1>8, <1>12
  <2> QED
    BY <1>8, <1>12, <2>1, <2>2 DEF InMap
<1>16. CacheTyped'
  <2>1. Node(cn, Nil, 0, 0) \in Entries /\ Node(cn, Nil, 0, 0).key = cn
    BY <1>6 DEF Node, Entries
  <2>2. node' \in [Keys -> Entries] /\ \A k \in Keys : node'[k].key = k
    BY <1>1, <1>2, <2>1
  <2>3. \A k \in m' : node'[k].ttl \in TTLs
    BY <1>1, <1>2 DEF CacheTyped, Cache!TypeOK
  <2>4. \A i \in DOMAIN list' : list'[i].key \in Keys
    <3>1. DOMAIN w = 1..Len(w) /\ \A i \in 1..Len(w) : w[i] \in Entries
      BY LenProperties
    <3> QED
      BY <1>12, <3>1 DEF Entries
  <2>5. Cache!TypeOK'
    BY <1>1, <1>2, <1>7, <1>12, <2>2, <2>3, <2>4 DEF Cache!TypeOK, Cache!AllNodes
  <2> QED
    BY <1>8, <1>12, <2>2, <2>5 DEF CacheTyped
<1>17. next'[Root] # Nil
  BY <1>7, <1>14 DEF CacheConstants
<1> QED
  BY <1>2, <1>8, <1>12, <1>13, <1>14, <1>15, <1>16, <1>17 DEF CacheInv

\* Every step.
LEMMA CacheNext ==
  ASSUME CacheConstants, CacheInv, [Cache!Next]_(Cache!vars)
  PROVE  CacheInv'
<1>1. ASSUME NEW k \in Keys, NEW v \in Values, NEW d \in TTLs, Cache!Put(k, v, d) PROVE CacheInv'
  BY <1>1, PutCache
<1>2. ASSUME NEW k \in Keys, Cache!Get(k) PROVE CacheInv'
  BY <1>2, GetCache
<1>3. CASE Cache!AddStep
  BY <1>3, AddCache
<1>4. CASE Cache!CleanStep
  BY <1>4, CleanCache
<1>5. ASSUME UNCHANGED <<m, next, prev, node, op, list>>, now' \in 0..MaxTime,
             \/ UNCHANGED <<step, cn, cur>>
             \/ step = "clean" /\ step' = "idle" /\ cn' = Nil /\ cur' = Nil
      PROVE  CacheInv'
  <2>1. CacheTyped'
    BY <1>5 DEF CacheInv, CacheTyped, Cache!TypeOK, Cache!AllNodes
  <2>2. InMap' /\ Sorted(list)'
    BY <1>5 DEF CacheInv, InMap, Sorted
  <2>3. Cache!Linked(next, prev, list) => Cache!Linked(next, prev, list)'
    BY <1>5 DEF Cache!Linked, Cache!KeyAt
  <2>4. ASSUME step' = "add" PROVE Walking'
    <3>1. step = "add" /\ Walking /\ UNCHANGED <<cn, cur>>
      BY <1>5, <2>4 DEF CacheInv
    <3> QED
      BY <1>5, <3>1 DEF Walking, Inserting, Cache!Linked, Cache!KeyAt
  <2>5. step' # "add" => IF next'[Root] = Nil THEN list' = <<>> ELSE Cache!Linked(next, prev, list)'
    BY <1>5, <2>3 DEF CacheInv
  <2>6. step' = "clean" => cn' = next'[Root]
    BY <1>5 DEF CacheInv
  <2> QED
    BY <2>1, <2>2, <2>4, <2>5, <2>6 DEF CacheInv
<1>6. now \in 0..MaxTime /\ MaxTime \in Nat
  BY DEF CacheInv, CacheTyped, Cache!TypeOK, CacheConstants
<1>7. CASE Cache!CleanEnd
  BY <1>5, <1>6, <1>7 DEF Cache!CleanEnd
<1>8. CASE Cache!Tick
  <2>1. now' \in 0..MaxTime /\ UNCHANGED <<m, next, prev, node, step, op, cur, cn, list>>
    BY <1>6, <1>8 DEF Cache!Tick
  <2> QED
    BY <1>5, <2>1
<1>9. CASE UNCHANGED Cache!vars
  BY <1>5, <1>6, <1>9 DEF Cache!vars
<1> QED
  BY <1>1, <1>2, <1>3, <1>4, <1>7, <1>8, <1>9 DEF Cache!Next

\* A new cache has no nodes.
LEMMA CacheInit ==
  ASSUME CacheConstants, Cache!Init
  PROVE  CacheInv
<1>1. /\ now = 0 /\ m = {} /\ step = "idle" /\ op = "get" /\ cur = Nil /\ cn = Nil /\ list = <<>>
      /\ next = [x \in Keys \cup {Root} |-> Nil] /\ prev = [x \in Keys \cup {Root} |-> Nil]
      /\ node = [k \in Keys |-> Node(k, Nil, 0, 0)]
  BY SameList DEF Cache!Init, Cache!AllNodes
<1>2. node \in [Keys -> Entries] /\ \A k \in Keys : node[k].key = k
  BY <1>1 DEF Node, Entries
<1>3. list \in Seq(Entries) /\ DOMAIN list = {} /\ In(list) = {}
  BY <1>1 DEF In
<1>4. Cache!TypeOK
  BY <1>1, <1>2, <1>3 DEF Cache!TypeOK, Cache!AllNodes, CacheConstants
<1>5. CacheTyped /\ InMap /\ Sorted(list)
  BY <1>1, <1>2, <1>3, <1>4 DEF CacheTyped, InMap, Distinct, Sorted
<1> QED
  BY <1>1, <1>5 DEF CacheInv

\* The pointers of the nodes, in both directions, and the map are, between two calls, the
\* sorted list with one node per key which ResourceCache builds on: no node is lost, none
\* stays in memory that the clean-up cannot meet.  For any keys, values, ttls and clock.
THEOREM PointersAreList == CacheConstants /\ Cache!Spec => []Cache!RepresentsList
<1> SUFFICES ASSUME CacheConstants PROVE Cache!Spec => []Cache!RepresentsList
  OBVIOUS
<1>1. CacheInv => Cache!RepresentsList
  <2> SUFFICES ASSUME CacheInv PROVE Cache!RepresentsList
    OBVIOUS
  <2>1. Cache!TypeOK /\ Cache!ChainIsList
    BY DEF CacheInv, CacheTyped, Cache!ChainIsList
  <2>2. Cache!MapIsList
    BY DEF CacheInv, InMap, In, Distinct, Cache!MapIsList
  <2>3. Cache!Sorted
    BY DEF CacheInv, Sorted, Cache!Sorted
  <2> QED
    BY <2>1, <2>2, <2>3 DEF Cache!RepresentsList
<1> QED
  BY <1>1, CacheInit, CacheNext, PTL DEF Cache!Spec

\* When Get returns, nothing that had expired is left: where the clean-up stops nothing
\* behind expires earlier.
THEOREM GetLeavesNothingExpired == CacheConstants /\ Cache!Spec => Cache!GetCleansUp
<1> SUFFICES ASSUME CacheConstants PROVE Cache!Spec => Cache!GetCleansUp
  OBVIOUS
<1>1. ASSUME CacheInv, [Cache!Next]_(Cache!vars) PROVE [Cache!CleansUp]_(Cache!vars)
  <2> SUFFICES ASSUME step = "clean", step' = "idle" PROVE \A k \in m' : ~Cache!Expired(node'[k], now')
    BY DEF Cache!CleansUp
  <2>1. Cache!CleanEnd
    BY <1>1 DEF Cache!Next, Cache!vars, Cache!Put, Cache!Get, Cache!AddStep, Cache!CleanStep,
                Cache!Tick
  <2>2. ~Cache!AtExpired /\ UNCHANGED <<m, node, now>>
    BY <2>1 DEF Cache!CleanEnd
  <2>3. /\ list \in Seq(Entries) /\ Distinct(list) /\ Len(list) \in Nat /\ DOMAIN list = 1..Len(list)
        /\ \A x \in In(list) : x \in Entries /\ x.key \in Keys /\ x = node[x.key]
        /\ InMap /\ Sorted(list) /\ now \in Int
    BY <1>1, CacheFacts DEF Cache!TypeOK
  <2>4. cn = next[Root] /\ IF cn = Nil THEN list = <<>> ELSE Cache!Linked(next, prev, list)
    BY <1>1 DEF CacheInv
  <2> SUFFICES ASSUME NEW k \in m PROVE ~Cache!Expired(node[k], now)
    BY <2>2
  <2>5. PICK i \in 1..Len(list) : list[i].key = k /\ node[k] = list[i]
    BY <2>3 DEF InMap, In
  <2>6. list # <<>> /\ 1 \in 1..Len(list)
    BY <2>3, <2>5
  <2>7. cn = list[1].key
    <3>1. Cache!KeyAt(list, 0) = Root /\ Cache!KeyAt(list, 1) = list[1].key
      BY <2>3, <2>6 DEF Cache!KeyAt
    <3>2. 0 \in 0..Len(list) /\ 0 + 1 = 1
      BY <2>3
    <3> QED
      BY <2>4, <2>6, <3>1, <3>2 DEF Cache!Linked
  <2>8. list[1] \in Entries /\ list[1] = node[cn] /\ cn \in Keys /\ list[i] \in Entries
    BY <2>3, <2>6, <2>7 DEF In
  <2>9. ~(now > list[1].expiration)
    BY <2>2, <2>8 DEF Cache!AtExpired, Cache!Expired, CacheConstants
  <2>10. list[1].expiration <= list[i].expiration
    <3>1. list[1].expiration \in Int
      BY <2>8 DEF Entries
    <3>2. CASE i = 1
      BY <3>1, <3>2
    <3>3. CASE i # 1
      BY <2>3, <2>5, <2>6, <3>3 DEF Sorted
    <3> QED
      BY <3>2, <3>3
  <2>11. list[1].expiration \in Int /\ list[i].expiration \in Int
    BY <2>8 DEF Entries
  <2> QED
    BY <2>3, <2>5, <2>9, <2>10, <2>11 DEF Cache!Expired
<1> QED
  BY <1>1, CacheInit, CacheNext, PTL DEF Cache!Spec, Cache!GetCleansUp

=============================================================================
