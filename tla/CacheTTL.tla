------------------------------- MODULE CacheTTL -------------------------------
(***************************************************************************)
(* cachettl/cachettl.go: a map of nodes that are also linked in a double    *)
(* list sorted by expiration, with a sentinel root whose expiration is the  *)
(* zero time.  Every operation runs under mu; its loops are steps here      *)
(* because now() is called again in each of them.  The history variable     *)
(* list is what TTLList, which ResourceCache builds on, says the list is.   *)
(***************************************************************************)
EXTENDS TTLList

CONSTANTS Keys, Values,
          TTLs,        \* the ttls given to Put (a negative one invalidates)
          MaxTime,     \* bound: the last reading of the clock
          RefreshTTL,  \* cachettl.WithNoRefreshTTL not given
          Root,        \* the sentinel
          Nil          \* the nil pointer, and the zero value

VARIABLES now,
          m,           \* the keys of c.m; a key names its node
          next, prev,  \* the pointers of the nodes, and of root
          node,        \* value, ttl and expiration of the nodes
          pc, op, cur, \* loop, operation and node to insert of the call in progress
          cn,          \* the loop variable of add and of the clean-up
          list         \* history: the list as a sequence

vars == <<now, m, next, prev, node, pc, op, cur, cn, list>>
AllNodes == Keys \cup {Root}

TypeOK == /\ now \in 0..MaxTime
          /\ m \subseteq Keys
          /\ next \in [AllNodes -> AllNodes \cup {Nil}] /\ prev \in [AllNodes -> AllNodes \cup {Nil}]
          /\ DOMAIN node = Keys
          /\ pc \in {"idle", "add", "clean"} /\ op \in {"get", "put"}
          /\ cur \in Keys \cup {Nil} /\ cn \in AllNodes \cup {Nil}
          /\ \A k \in m : node[k].ttl \in TTLs
          /\ \A i \in DOMAIN list : list[i].key \in Keys

Init == /\ now = 0
        /\ m = {}
        /\ next = [x \in AllNodes |-> Nil] /\ prev = [x \in AllNodes |-> Nil]
        /\ node = [k \in Keys |-> Node(k, Nil, 0, 0)]
        /\ pc = "idle" /\ op = "get" /\ cur = Nil /\ cn = Nil
        /\ list = <<>>

\* The pointers after n.remove().
NextWithout(n) == [next EXCEPT ![prev[n]] = next[n]]
PrevWithout(n) == [prev EXCEPT ![next[n]] = prev[n]]

\* The root sorts before every node.
NotBefore(n, x) == IF x = Root THEN TRUE ELSE node[n].expiration >= node[x].expiration

\* Put(k, v, d) up to the loop of add.  The first insertion links the node by hand.
Put(k, v, d) ==
  /\ pc = "idle"
  /\ node' = [node EXCEPT ![k] = Node(k, v, IF k \in m THEN @.ttl ELSE d, now + d)]
  /\ m' = m \cup {k}
  /\ list' = PutNode(list, k, v, d, now)
  /\ op' = "put"
  /\ \/ /\ next[Root] = Nil
        /\ next' = [next EXCEPT ![Root] = k, ![k] = Root]
        /\ prev' = [prev EXCEPT ![Root] = k, ![k] = Root]
        /\ UNCHANGED <<pc, cn, cur>>
     \/ /\ next[Root] # Nil
        /\ cur' = k
        /\ next' = IF k \in m THEN NextWithout(k) ELSE next
        /\ prev' = IF k \in m THEN PrevWithout(k) ELSE prev
        /\ pc' = "add" /\ cn' = prev'[Root]
  /\ UNCHANGED now

\* Get(k) up to its first loop: add for a hit that is refreshed, else the clean-up.
Get(k) ==
  /\ pc = "idle"
  /\ op' = "get"
  /\ \/ /\ RefreshTTL /\ k \in m /\ Valid(node[k], now)
        /\ next' = NextWithout(k) /\ prev' = PrevWithout(k)
        /\ node' = [node EXCEPT ![k].expiration = now + node[k].ttl]
        /\ \E n \in NodesOf(list, k) : list' = Refresh(list, n, now)
        /\ pc' = "add" /\ cn' = prev'[Root] /\ cur' = k
     \/ /\ ~(RefreshTTL /\ k \in m /\ Valid(node[k], now))
        /\ pc' = "clean" /\ cn' = next[Root]
        /\ UNCHANGED <<next, prev, node, list, cur>>
  /\ UNCHANGED <<now, m>>

\* add: one step towards the root, or the insertion after cn.
AddStep ==
  /\ pc = "add"
  /\ \/ /\ ~NotBefore(cur, cn)
        /\ cn' = prev[cn]
        /\ UNCHANGED <<next, prev, pc, cur>>
     \/ /\ NotBefore(cur, cn)
        /\ next' = [next EXCEPT ![cn] = cur, ![cur] = next[cn]]
        /\ prev' = [prev EXCEPT ![cur] = cn, ![next[cn]] = cur]
        /\ pc' = IF op = "get" THEN "clean" ELSE "idle"
        /\ cn' = IF op = "get" THEN next'[Root] ELSE Nil
        /\ cur' = Nil
  /\ UNCHANGED <<now, m, node, op, list>>

\* Fault: the loop ends before the tail.
AtExpired_NotTail == IF cn \in {Nil, Root, prev[Root]} THEN FALSE ELSE Expired(node[cn], now)

\* The clean-up is at a node (not at root, not at nil in a list never used) that expired.
AtExpired == IF cn \in {Nil, Root} THEN FALSE ELSE Expired(node[cn], now)

\* Fault: the node stays in the map.
CleanStep_KeepsMap ==
  /\ pc = "clean" /\ AtExpired
  /\ next' = [NextWithout(cn) EXCEPT ![cn] = Nil]
  /\ prev' = [PrevWithout(cn) EXCEPT ![cn] = Nil]
  /\ node' = [node EXCEPT ![cn] = Node(cn, Nil, 0, 0)]
  /\ list' = Without(list, cn)
  /\ cn' = next[cn]
  /\ UNCHANGED <<now, m, pc, op, cur>>

\* The deferred clean-up of Get: an expired node leaves the list and the map, and
\* is garbage: the next Put of its key makes a new node.
CleanStep ==
  /\ pc = "clean" /\ AtExpired
  /\ next' = [NextWithout(cn) EXCEPT ![cn] = Nil]
  /\ prev' = [PrevWithout(cn) EXCEPT ![cn] = Nil]
  /\ node' = [node EXCEPT ![cn] = Node(cn, Nil, 0, 0)]
  /\ m' = m \ {cn}
  /\ list' = Without(list, cn)
  /\ cn' = next[cn]
  /\ UNCHANGED <<now, pc, op, cur>>

\* The clean-up ends at the first node that has not expired, and Get returns.
CleanEnd ==
  /\ pc = "clean"
  /\ ~AtExpired
  /\ pc' = "idle" /\ cn' = Nil /\ cur' = Nil
  /\ UNCHANGED <<now, m, next, prev, node, op, list>>

Tick == /\ now < MaxTime
        /\ now' = now + 1
        /\ UNCHANGED <<m, next, prev, node, pc, op, cur, cn, list>>

Next == \/ \E k \in Keys, v \in Values, d \in TTLs : Put(k, v, d)
        \/ \E k \in Keys : Get(k)
        \/ AddStep \/ CleanStep \/ CleanEnd
        \/ Tick

Spec == Init /\ [][Next]_vars /\ WF_vars(AddStep \/ CleanStep \/ CleanEnd)

-----------------------------------------------------------------------------
\* The key at a place of s; before the first and behind the last place is the root.
KeyAt(s, i) == IF i \in DOMAIN s THEN s[i].key ELSE Root

\* The pointers nx lead from the root through the keys of s and back to the root, the
\* pointers pv the other way round.
Linked(nx, pv, s) == \A i \in 0..Len(s) : /\ nx[KeyAt(s, i)] = KeyAt(s, i + 1)
                                         /\ pv[KeyAt(s, i + 1)] = KeyAt(s, i)

\* Between two calls the pointers run through exactly the nodes of the list, in both
\* directions; before the first Put there are none.
ChainIsList == pc = "idle" => IF next[Root] = Nil THEN list = <<>> ELSE Linked(next, prev, list)

\* The map has exactly the nodes of the list, with the same values and
\* expirations: no node stays in memory that the clean-up can never meet.
MapIsList == /\ m = {list[i].key : i \in DOMAIN list}
             /\ \A i, j \in DOMAIN list : list[i].key = list[j].key => i = j
             /\ \A i \in DOMAIN list : list[i] = node[list[i].key]

\* Doc of Cache: the list is sorted by expiration, lowest at the head.
Sorted == \A i, j \in DOMAIN list : i < j => list[i].expiration <= list[j].expiration

\* The two pointer fields, the map and the sorted sequence describe one list.
RepresentsList == TypeOK /\ ChainIsList /\ MapIsList /\ Sorted

\* When Get returns no node is left that had expired: the clean-up stopped at the
\* first live node because none behind it can have expired.
CleansUp == pc = "clean" /\ pc' = "idle" => \A k \in m' : ~Expired(node'[k], now')
GetCleansUp == [][CleansUp]_vars

\* Every Get and every Put returns: the walks end.
CallsReturn == pc # "idle" ~> pc = "idle"
=============================================================================
