------------------------------- MODULE TTLList -------------------------------
(***************************************************************************)
(* The list of a cachettl.Cache as a sequence of nodes, head first: what   *)
(* its pointer operations compute (CacheTTL shows that they do).           *)
(***************************************************************************)
EXTENDS Integers, Sequences

\* A node: the key, what is stored for it, the ttl it was created with, its expiration.
Node(k, v, d, e) == [key |-> k, value |-> v, ttl |-> d, expiration |-> e]

\* add: the walk from the tail ends at the first node that does not expire later than
\* e, or at the root (0).
Place(list, e) ==
  CHOOSE p \in 0..Len(list) : /\ p > 0 => list[p].expiration <= e
                              /\ \A i \in p+1..Len(list) : list[i].expiration > e

\* add: n goes after the node at which the walk ends.
Add(list, n) == LET p == Place(list, n.expiration)
                IN  SubSeq(list, 1, p) \o <<n>> \o SubSeq(list, p+1, Len(list))

\* The places of the node of a key: none or one.
At(list, k) == {i \in DOMAIN list : list[i].key = k}

\* remove, of the node of a key.
Without(list, k) ==
  IF At(list, k) = {} THEN list
  ELSE LET p == CHOOSE i \in At(list, k) : TRUE
       IN  SubSeq(list, 1, p-1) \o SubSeq(list, p+1, Len(list))

\* The node of a key in the map c.m, as the set of at most one node.
NodesOf(list, k) == {list[i] : i \in At(list, k)}

\* n.expiration.After(now): the value of n may still be returned.
Valid(n, now) == n.expiration > now

\* now.After(n.expiration): n may be evicted.  Neither holds when they are equal.
Expired(n, now) == now > n.expiration

\* Put: an existing node keeps the ttl it was created with.
PutNode(list, k, v, d, now) ==
  LET old == NodesOf(list, k)
      ttl == IF old = {} THEN d ELSE (CHOOSE n \in old : TRUE).ttl
  IN  Add(Without(list, k), Node(k, v, ttl, now + d))

\* The refresh of a hit: the node moves to the place of its new expiration.
Refresh(list, n, now) == Add(Without(list, n.key), [n EXCEPT !.expiration = now + n.ttl])
=============================================================================
