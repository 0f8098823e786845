---------------------------- MODULE PriorityQueue ----------------------------
(***************************************************************************)
(* queue/priorityQueue.go driven by container/heap: an array of items, each *)
(* of which knows its own index so that Update can find it again.  Less is  *)
(* not a strict order: it is true both ways for equal priorities and equal  *)
(* timestamps, which heap's loops are not written for.  Checked here is     *)
(* that they still keep a heap, that index stays right, and what Pop gives. *)
(***************************************************************************)
EXTENDS Integers, Sequences

CONSTANTS Items,
          Priorities,
          MaxTime       \* bound: the last millisecond

VARIABLES pq,         \* the slice; position i of the sequence is index i-1
          index,      \* Item.index; 0 in an item that was never pushed
          prio, ts,   \* Item.Priority, Item.timeStamp
          now         \* makeTimestamp()

vars == <<pq, index, prio, ts, now>>

Members(q) == {q[i] : i \in DOMAIN q}

TypeOK == /\ pq \in Seq(Items)
          /\ index \in [Items -> Int]
          /\ prio \in [Items -> Priorities]
          /\ now \in 0..MaxTime
          /\ ts \in [Items -> 0..now]

Init == /\ pq = <<>>
        /\ index = [x \in Items |-> 0]
        /\ prio \in [Items -> Priorities]
        /\ ts = [x \in Items |-> 0]
        /\ now = 0

-----------------------------------------------------------------------------
\* Fault: of two items with the same priority the newer goes first.
Less_Newest(h, p, t, i, j) == IF p[h.q[i]] = p[h.q[j]] THEN t[h.q[i]] >= t[h.q[j]]
                                                     ELSE p[h.q[i]] > p[h.q[j]]

\* A heap is the slice and the index fields, h.q and h.ix; positions count from 1.
\* p gives the priorities, t the timestamps.
Less(h, p, t, i, j) == IF p[h.q[i]] = p[h.q[j]] THEN t[h.q[i]] <= t[h.q[j]]
                                              ELSE p[h.q[i]] > p[h.q[j]]

\* Two items change places, and their indices with them.
Swap(h, i, j) == [q |-> [h.q EXCEPT ![i] = h.q[j], ![j] = h.q[i]],
                  ix |-> [[h.ix EXCEPT ![h.q[j]] = i - 1] EXCEPT ![h.q[i]] = j - 1]]

\* container/heap up: swap with the parent while Less says so.
RECURSIVE Up(_, _, _, _)
Up(h, p, t, j) == IF j = 1 \/ ~Less(h, p, t, j, j \div 2) THEN h
                  ELSE Up(Swap(h, j \div 2, j), p, t, j \div 2)

\* The child that down compares with: the second if Less puts it before the first.
Child(h, p, t, i, n) == IF 2*i + 1 <= n /\ Less(h, p, t, 2*i + 1, 2*i) THEN 2*i + 1 ELSE 2*i

\* container/heap down within the first n positions.
RECURSIVE Down(_, _, _, _, _)
Down(h, p, t, i, n) ==
  IF 2*i > n THEN h
  ELSE LET c == Child(h, p, t, i, n)
       IN  IF Less(h, p, t, c, i) THEN Down(Swap(h, i, c), p, t, c, n) ELSE h

\* container/heap Fix: up only if down moved nothing.
Fix(h, p, t, i) == LET d == Down(h, p, t, i, Len(h.q))
                   IN  IF d = h THEN Up(h, p, t, i) ELSE d

SetHeap(h) == pq' = h.q /\ index' = h.ix

-----------------------------------------------------------------------------
\* makeTimestamp.
Timestamp == now

\* heap.Push(pq, x): append, stamp, up.
Push(x, p) ==
  /\ x \notin Members(pq)
  /\ prio' = [prio EXCEPT ![x] = p]
  /\ ts' = [ts EXCEPT ![x] = Timestamp]
  /\ LET h == [q |-> Append(pq, x), ix |-> [index EXCEPT ![x] = Len(pq)]]
     IN  SetHeap(Up(h, prio', ts', Len(h.q)))
  /\ UNCHANGED now

\* heap.Pop(pq): the root swapped with the last item, down, the last cut off.
Pop ==
  /\ pq # <<>>
  /\ LET n == Len(pq)
         h == Down(Swap([q |-> pq, ix |-> index], 1, n), prio, ts, 1, n - 1)
     IN  SetHeap([q |-> SubSeq(h.q, 1, n - 1), ix |-> [h.ix EXCEPT ![h.q[n]] = -1]])
  /\ UNCHANGED <<prio, ts, now>>

\* Update(x, p): ignored for an item that has been popped.  One that has not been
\* pushed yet has index 0, and Update looks at the root.
Update(x, p) ==
  /\ index[x] # -1
  /\ prio' = [prio EXCEPT ![x] = p]
  /\ IF pq = <<>> THEN UNCHANGED <<pq, index>>
     ELSE SetHeap(Fix([q |-> pq, ix |-> index], prio', ts, index[x] + 1))
  /\ UNCHANGED <<ts, now>>

\* A millisecond passes.
Tick == /\ now < MaxTime
        /\ now' = now + 1
        /\ UNCHANGED <<pq, index, prio, ts>>

Next == \/ \E x \in Items, p \in Priorities : Push(x, p) \/ Update(x, p)
        \/ Pop
        \/ Tick

Spec == Init /\ [][Next]_vars

-----------------------------------------------------------------------------
\* Every item in the queue knows where it is, so that Update repairs the heap
\* at the right place, and one that was popped has index -1, so that it is not.
IndexIsPosition == /\ \A i \in DOMAIN pq : index[pq[i]] = i - 1
                   /\ \A x \in Items \ Members(pq) : index[x] \in {-1, 0}

\* x goes before y: higher priority, or the same and older.
Precedes(x, y) == prio[x] > prio[y] \/ (prio[x] = prio[y] /\ ts[x] < ts[y])

\* Doc of PriorityQueue: no item is above one that goes before it, although Less
\* is not strict and Update changes priorities in the middle of the heap.
HeapOrder == \A i \in DOMAIN pq : i > 1 => ~Precedes(pq[i], pq[i \div 2])

\* The slice is a heap, and the items' indices point into it.
HeapIsValid == TypeOK /\ IndexIsPosition /\ HeapOrder

\* What Limiter relies on: one item leaves, and none that stays goes before it.
PopsOne == /\ Len(pq') = Len(pq) - 1
           /\ \E x \in Members(pq) : /\ Members(pq') = Members(pq) \ {x}
                                     /\ index'[x] = -1
                                     /\ \A y \in Members(pq') : ~Precedes(y, x)
=============================================================================
