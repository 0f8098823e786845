---------------------------- MODULE ClientProofs ----------------------------
(***************************************************************************)
(* Proofs about the clients of other systems. First EtcdWatcher, for any    *)
(* keys, configurations and number of changes. What the consumer knows of a *)
(* key is right as soon as the watcher has passed the key's last change:    *)
(* until then another event of the key is to come, whatever newer value the *)
(* gate has read meanwhile. So nothing is said of a key while it has a      *)
(* change after pos, and the rest is inductive. At the start of the watch   *)
(* it rests on the existing keys, each of which is still to be handled or   *)
(* among the initial events.                                                *)
(***************************************************************************)
EXTENDS EtcdWatcher, FiniteSetTheorems, TLAPS

-----------------------------------------------------------------------------
(* The inductive invariant. *)

\* The watch has begun, and goes on.
Watching == pc \in {"watching", "gate", "emit"}

\* An event is in hand, and has passed or will pass the gate.
InHand == pc \in {"initGate", "gate", "emit"}

\* An event says what the log has at its revision.
Logged(e) == e.rev \in DOMAIN log /\ e = Event(e.rev)

\* The key is not changed after revision p.
Quiet(k, p) == \A q \in p+1..Len(log) : log[q].key # k

\* The revisions that the watcher has seen exist.
Revisions == /\ base <= Len(log) /\ pos <= Len(log)
             /\ todo \subseteq 1..base
             /\ \A i \in DOMAIN events : Logged(events[i])
             /\ \A i \in DOMAIN out : out[i].type # "ERROR" => Logged(out[i])
             /\ InHand => cur \in Events /\ Logged(cur)
             /\ Watching => base <= pos

\* Filters accept every deletion, and everything if there is none.
Accepted == \A r \in DOMAIN log : log[r].type = "DELETE" \/ ~config.filter => log[r].accepted

\* Who has closed the sender has ended the context.  An error is the last the consumer gets.
Ends == /\ ~open => done
        /\ pc = "closed" => ~open
        /\ \A i \in DOMAIN out : out[i].type = "ERROR" => pc = "closed" /\ i = Len(out)

\* Each existing key is in one place: to be handled, at the gate, or an initial event.
OnePlace == /\ \A r, q \in todo : log[r].key = log[q].key => r = q
            /\ \A i, j \in DOMAIN events : events[i].key = events[j].key => i = j
            /\ \A r \in todo, i \in DOMAIN events : log[r].key # events[i].key
            /\ pc = "initGate" => /\ \A r \in todo : log[r].key # cur.key
                                  /\ \A i \in DOMAIN events : events[i].key # cur.key

\* There are no deletions among the initial events, and none at a gate.
Puts == /\ \A i \in DOMAIN events : events[i].type = "PUT"
        /\ pc \in {"initGate", "gate"} => cur.type = "PUT" /\ config.gate # "off"

\* What has been sent of the initial events.
Sent == /\ pc = "load" => todo = {} /\ events = <<>>
        /\ Loading => out = <<>>
        /\ pc \notin {"initial", "initGate", "closed"} => todo = {}
        /\ pc \in {"send", "watch"} => /\ Len(out) <= Len(events)
                                       /\ \A i \in DOMAIN out : out[i] = events[i]
        /\ pc = "watch" /\ open => Len(out) = Len(events)

\* Without a gate the initial events are not newer than the load, and what has been sent
\* is not newer than the watch.
Ordered == config.gate = "off" =>
             /\ \A i \in DOMAIN events : events[i].rev <= base
             /\ Watching => \A i \in DOMAIN out : out[i].rev <= pos
             /\ pc = "emit" => /\ cur.rev = pos /\ base < pos
                               /\ \A i \in DOMAIN out : out[i].rev < pos

\* emittedKeys has what was sent, in OnceMode.
Emitted == /\ Watching /\ config.mode = "ONCE" => \A i \in DOMAIN out : out[i].key \in emitted
           /\ Watching => config.mode # "NONE"
           /\ config.mode = "ALL" => emitted = {}

\* An event that the watch has in hand is that of pos, or a later one of the gate's.
InTime == /\ pc = "gate" => cur.rev = pos
          /\ pc = "emit" => pos <= cur.rev

SafeInv == /\ TypeOK /\ Revisions /\ Accepted /\ Ends /\ OnePlace /\ Puts /\ Sent
           /\ Ordered /\ Emitted /\ InTime /\ NothingTwice

-----------------------------------------------------------------------------
\* Filter and gate let everything through.
Passes == config.gate \in {"off", "open"} /\ ~config.filter

\* A key that does not exist is nowhere among the initial events.
Absent(k) == /\ \A r \in todo : log[r].key # k
             /\ \A i \in DOMAIN events : events[i].key # k
             /\ pc = "initGate" => cur.key # k

\* The put that a key has now is still to be handled, at the gate, or an initial event.
Coming(k) == \/ Current(k) \in todo
             \/ \E i \in DOMAIN events : events[i] = Event(Current(k))
             \/ pc = "initGate" /\ cur = Event(Current(k))

\* The initial events are right about the keys that have not changed since the load.
LoadRight ==
  SeesAll /\ pc \in {"initial", "initGate", "send", "watch"} =>
    \A k \in Keys : Quiet(k, base) => /\ Current(k) = 0 => Absent(k)
                                      /\ Passes /\ Current(k) # 0 => Coming(k)

\* The consumer is right about the keys that have no change after pos, but for the one
\* whose event is in hand.
ViewRight ==
  SeesAll /\ Watching /\ open =>
    \A k \in Keys : Quiet(k, pos) /\ ~(InHand /\ cur.key = k) =>
                      /\ Current(k) = 0 => View(k) = 0
                      /\ Passes => View(k) = Current(k)

IInv == SafeInv /\ LoadRight /\ ViewRight

-----------------------------------------------------------------------------
(* Sequences, and where a key occurs last. *)

\* The sequence of a set of no elements, or of one.
LEMMA SetToSeqSmall == SetToSeq({}) = <<>> /\ \A x : SetToSeq({x}) = <<x>>
<1>1. SetToSeq({}) = <<>>
  <2>1. Cardinality({}) = 0
    BY FS_EmptySet
  <2>2. \A f \in [1..0 -> {}] : f = <<>>
    OBVIOUS
  <2>3. <<>> \in [1..0 -> {}] /\ IsInjective(<<>>)
    BY DEF IsInjective
  <2> QED
    BY <2>1, <2>2, <2>3 DEF SetToSeq
<1>2. ASSUME NEW x PROVE SetToSeq({x}) = <<x>>
  <2>1. Cardinality({x}) = 1
    BY FS_Singleton
  <2>2. \A f \in [1..1 -> {x}] : f = <<x>>
    OBVIOUS
  <2>3. <<x>> \in [1..1 -> {x}] /\ IsInjective(<<x>>)
    BY DEF IsInjective
  <2> QED
    BY <2>1, <2>2, <2>3 DEF SetToSeq
<1> QED
  BY <1>1, <1>2

\* A key occurs last in one place at most.
LEMMA LastIsOne ==
  ASSUME NEW S, NEW s \in Seq(S), NEW k, NEW i \in LastOf(s, k), NEW j \in LastOf(s, k)
  PROVE  i = j
BY DEF LastOf

\* What is appended is the last of its key; the other keys are where they were.
LEMMA LastOfAppend ==
  ASSUME NEW S, NEW s \in Seq(S), NEW x \in S, NEW k
  PROVE  LastOf(Append(s, x), k) = IF x.key = k THEN {Len(s) + 1} ELSE LastOf(s, k)
<1> DEFINE t == Append(s, x)
<1>1. /\ t \in Seq(S) /\ Len(t) = Len(s) + 1 /\ DOMAIN t = 1..Len(s) + 1
      /\ t[Len(s) + 1] = x /\ \A i \in 1..Len(s) : t[i] = s[i]
  OBVIOUS
<1>2. DOMAIN s = 1..Len(s) /\ Len(s) \in Nat
  OBVIOUS
<1> HIDE DEF t
<1>3. CASE x.key = k
  BY <1>1, <1>2, <1>3 DEF LastOf
<1>4. CASE x.key # k
  BY <1>1, <1>2, <1>4 DEF LastOf
<1> QED
  BY <1>3, <1>4 DEF t

\* The put that a key has now is the key's last change.
LEMMA CurrentIsLast ==
  ASSUME TypeOK, NEW k, Current(k) # 0
  PROVE  /\ Current(k) \in DOMAIN log /\ log[Current(k)].key = k
         /\ log[Current(k)].type = "PUT" /\ Quiet(k, Current(k))
<1>1. PICK r \in LastOf(log, k) : log[r].type = "PUT"
  BY DEF Current
<1>2. Current(k) = r
  BY <1>1, LastIsOne DEF Current, TypeOK
<1> QED
  BY <1>1, <1>2 DEF LastOf, Quiet

\* A key's last change says what the key is now.
LEMMA LastIsCurrent ==
  ASSUME TypeOK, NEW k, NEW r \in DOMAIN log, log[r].key = k, Quiet(k, r)
  PROVE  Current(k) = IF log[r].type = "PUT" THEN r ELSE 0
<1>1. r \in LastOf(log, k)
  BY DEF LastOf, Quiet
<1>2. \A q \in LastOf(log, k) : q = r
  BY <1>1, LastIsOne DEF TypeOK
<1> QED
  BY <1>1, <1>2 DEF Current

\* The gate lets nothing through, or the event in hand, or what the key has now.
LEMMA GatedIs ==
  ASSUME TypeOK, cur \in Events, Logged(cur), NEW answer
  PROVE  \/ /\ Gated(answer) = {} /\ answer # "none"
            /\ answer = "met" => \/ Current(cur.key) = 0
                                 \/ ~log[Current(cur.key)].accepted
         \/ \E e \in Events : /\ Gated(answer) = {e} /\ Logged(e) /\ e.key = cur.key
                              /\ e = cur \/ (e = Event(Current(cur.key)) /\ Current(cur.key) # 0)
<1> DEFINE now == Current(cur.key)
<1>1. CASE answer = "none"
  BY <1>1 DEF Gated
<1>2. CASE answer = "met" /\ now # 0 /\ log[now].accepted
  <2>1. Gated(answer) = {Event(now)}
    BY <1>2 DEF Gated, Accept, Event
  <2>2. now \in DOMAIN log /\ log[now].key = cur.key /\ log[now].type = "PUT"
    BY <1>2, CurrentIsLast
  <2>3. Event(now) \in Events /\ Logged(Event(now)) /\ Event(now).key = cur.key
    BY <2>2, ConstantsAssumption DEF Event, Events, Logged, TypeOK, Change
  <2> QED
    BY <1>2, <2>1, <2>3
<1>3. CASE answer # "none" /\ ~(answer = "met" /\ now # 0 /\ log[now].accepted)
  BY <1>3 DEF Gated, Accept, Event
<1> QED
  BY <1>1, <1>2, <1>3

-----------------------------------------------------------------------------
(* The safety part: what the consumer gets. *)

\* A change of a key: what was there before stays.
LEMMA LogGrows ==
  ASSUME TypeOK, NEW c \in Change, log' = Append(log, c)
  PROVE  /\ Len(log') = Len(log) + 1 /\ DOMAIN log' = 1..Len(log) + 1
         /\ \A r \in DOMAIN log : log'[r] = log[r] /\ Event(r)' = Event(r)
         /\ log'[Len(log) + 1] = c
         /\ DOMAIN log = 1..Len(log) /\ Len(log) \in Nat
         /\ \A e : Logged(e) => Logged(e)'
<1>1. /\ Len(log') = Len(log) + 1 /\ DOMAIN log' = 1..Len(log) + 1
      /\ \A r \in DOMAIN log : log'[r] = log[r]
      /\ log'[Len(log) + 1] = c
      /\ DOMAIN log = 1..Len(log) /\ Len(log) \in Nat
  BY DEF TypeOK
<1>2. \A r \in DOMAIN log : Event(r)' = Event(r)
  BY <1>1 DEF Event
<1>3. ASSUME NEW e, Logged(e) PROVE Logged(e)'
  BY <1>1, <1>2, <1>3 DEF Logged
<1> QED
  BY <1>1, <1>2, <1>3

\* Nothing has been told at first.
LEMMA SafeInit == Init => SafeInv
<1> SUFFICES ASSUME Init PROVE SafeInv
  OBVIOUS
<1>1. /\ config \in Configs /\ log = <<>> /\ compacted = 0 /\ pc = "load" /\ done = FALSE
      /\ open = TRUE /\ base = 0 /\ todo = {} /\ events = <<>> /\ pos = 0 /\ cur = <<>>
      /\ emitted = {} /\ out = <<>>
  BY DEF Init
<1>2. TypeOK
  <2>1. log \in Seq(Change) /\ events \in Seq(Events) /\ out \in Seq(Events \cup {Failure})
    BY <1>1
  <2>2. Len(log) <= MaxRev /\ 0 \in 0..MaxRev
    BY <1>1, ConstantsAssumption
  <2> QED
    BY <1>1, <2>1, <2>2 DEF TypeOK, Labels
<1>3. Revisions /\ Accepted /\ Ends
  BY <1>1 DEF Revisions, Accepted, Ends, Watching, InHand
<1>4. OnePlace /\ Puts /\ Sent
  BY <1>1 DEF OnePlace, Puts, Sent, Loading
<1>5. Ordered /\ Emitted /\ InTime
  BY <1>1 DEF Ordered, Emitted, InTime, Watching
<1>6. NothingTwice
  BY <1>1 DEF NothingTwice, AtMostOnce, InOrder
<1> QED
  BY <1>2, <1>3, <1>4, <1>5, <1>6 DEF SafeInv

\* etcd gets a change: what was read of earlier revisions stays.
LEMMA WriteSafe ==
  ASSUME SafeInv, NEW k \in Keys, NEW type \in {"PUT", "DELETE"}, NEW a \in Accepts,
         Write(k, type, a)
  PROVE  SafeInv'
<1> DEFINE c == [key |-> k, type |-> type, accepted |-> a]
<1>0. a \in BOOLEAN /\ (~config.filter => a)
  BY ConstantsAssumption DEF Accepts, SafeInv, TypeOK, Configs
<1>1. /\ c \in Change /\ log' = Append(log, c) /\ Len(log) < MaxRev
      /\ type = "DELETE" => a
      /\ UNCHANGED <<config, compacted, pc, done, open, base, todo, events, pos, cur, emitted, out>>
  BY <1>0 DEF Write, Change
<1>2. c.type = "DELETE" \/ ~config.filter => c.accepted
  BY <1>0, <1>1
<1>3. TypeOK /\ Revisions /\ Accepted /\ OnePlace /\ Sent /\ Ordered /\ InTime
  BY DEF SafeInv
<1> HIDE DEF c
<1>4. /\ Len(log') = Len(log) + 1 /\ DOMAIN log' = 1..Len(log) + 1
      /\ \A r \in DOMAIN log : log'[r] = log[r] /\ Event(r)' = Event(r)
      /\ log'[Len(log) + 1] = c
      /\ DOMAIN log = 1..Len(log) /\ Len(log) \in Nat
      /\ \A e : Logged(e) => Logged(e)'
  BY <1>1, <1>3, LogGrows
<1>5. log' \in Seq(Change)
  BY <1>1, <1>3 DEF TypeOK
<1>6. TypeOK'
  BY <1>1, <1>3, <1>4, <1>5, ConstantsAssumption DEF TypeOK, Revisions
<1>7. Revisions'
  <2>1. base' <= Len(log') /\ pos' <= Len(log') /\ todo' \subseteq 1..base'
    BY <1>1, <1>3, <1>4 DEF Revisions, TypeOK
  <2>2. \A i \in DOMAIN events' : Logged(events[i])'
    BY <1>1, <1>3, <1>4 DEF Revisions
  <2>3. \A i \in DOMAIN out' : out'[i].type # "ERROR" => Logged(out[i])'
    BY <1>1, <1>3, <1>4 DEF Revisions
  <2>4. InHand' => cur' \in Events /\ Logged(cur)'
    BY <1>1, <1>3, <1>4 DEF Revisions, InHand
  <2>5. Watching' => base' <= pos'
    BY <1>1, <1>3 DEF Revisions, Watching
  <2> QED
    BY <2>1, <2>2, <2>3, <2>4, <2>5 DEF Revisions
<1>8. Accepted'
  BY <1>1, <1>2, <1>3, <1>4 DEF Accepted
<1>9. OnePlace'
  BY <1>1, <1>3, <1>4 DEF OnePlace, Revisions, TypeOK
<1>10. /\ Ends' /\ Puts' /\ Sent' /\ Ordered' /\ Emitted' /\ InTime' /\ NothingTwice'
  BY <1>1 DEF SafeInv, Ends, Puts, Sent, Ordered, Emitted, InTime, NothingTwice, AtMostOnce,
              InOrder, Loading, Watching, InHand
<1> QED
  BY <1>6, <1>7, <1>8, <1>9, <1>10 DEF SafeInv

\* The steps that change nothing of what was read and sent.
LEMMA IdleSafe ==
  ASSUME SafeInv, UNCHANGED <<config, log, pc, base, todo, events, pos, cur, emitted, out>>,
         compacted' \in 0..MaxRev, done' \in BOOLEAN, open' \in BOOLEAN,
         open' => open, ~open' => done'
  PROVE  SafeInv'
<1>1. TypeOK'
  BY DEF SafeInv, TypeOK
<1>2. Revisions' /\ Accepted'
  BY DEF SafeInv, Revisions, Accepted, InHand, Watching, Logged, Event
<1>3. Ends' /\ OnePlace' /\ Puts' /\ Sent'
  BY DEF SafeInv, TypeOK, Ends, OnePlace, Puts, Sent, Loading
<1>4. Ordered' /\ Emitted' /\ InTime' /\ NothingTwice'
  BY DEF SafeInv, Ordered, Emitted, InTime, NothingTwice, AtMostOnce, InOrder, Watching
<1> QED
  BY <1>1, <1>2, <1>3, <1>4 DEF SafeInv

\* The sender is closed, maybe after an error has been sent.
LEMMA ClosingSafe ==
  ASSUME SafeInv, pc # "closed", Close,
         UNCHANGED <<config, etcd, base, todo, events, pos, cur, emitted>>,
         out' = out \/ out' = Append(out, Failure)
  PROVE  SafeInv'
<1>1. /\ TypeOK /\ Revisions /\ Ends
      /\ pc' = "closed" /\ open' = FALSE /\ done' = TRUE
      /\ UNCHANGED <<config, log, compacted, base, todo, events, pos, cur, emitted>>
  BY DEF SafeInv, Close, etcd
<1>2. out \in Seq(Events \cup {Failure}) /\ \A i \in DOMAIN out : out[i].type # "ERROR"
  BY <1>1 DEF TypeOK, Ends
<1>3. /\ out' \in Seq(Events \cup {Failure})
      /\ \A i \in DOMAIN out' : \/ i \in DOMAIN out /\ out'[i] = out[i]
                                \/ i = Len(out') /\ out'[i] = Failure /\ out' # out
  BY <1>2
<1>4. TypeOK'
  BY <1>1, <1>3 DEF TypeOK, Labels
<1>5. Revisions'
  <2>1. \A i \in DOMAIN out' : out'[i].type # "ERROR" => Logged(out[i])'
    BY <1>1, <1>2, <1>3 DEF Revisions, Failure, Logged, Event
  <2>2. \A i \in DOMAIN events' : Logged(events[i])'
    BY <1>1 DEF Revisions, Logged, Event
  <2> QED
    BY <1>1, <2>1, <2>2 DEF Revisions, InHand, Watching
<1>6. Ends' /\ Accepted'
  BY <1>1, <1>2, <1>3 DEF SafeInv, Ends, Accepted
<1>7. OnePlace' /\ Puts'
  BY <1>1 DEF SafeInv, OnePlace, Puts
<1>8. Sent' /\ Ordered' /\ Emitted' /\ InTime'
  BY <1>1 DEF SafeInv, Sent, Ordered, Emitted, InTime, Loading, Watching
<1>9. NothingTwice'
  <2>1. \A i \in DOMAIN out : out[i].key # Failure.key
    BY <1>2, ConstantsAssumption DEF Events, Failure
  <2>2. AtMostOnce'
    BY <1>1, <1>2, <1>3, <2>1 DEF SafeInv, NothingTwice, AtMostOnce, Failure
  <2>3. InOrder'
    BY <1>1, <1>2, <1>3 DEF SafeInv, NothingTwice, InOrder, Failure
  <2> QED
    BY <2>2, <2>3 DEF NothingTwice
<1> QED
  BY <1>4, <1>5, <1>6, <1>7, <1>8, <1>9 DEF SafeInv

\* Existing keys: each has one revision, of a put.
LEMMA ExistingKeys ==
  ASSUME TypeOK
  PROVE  /\ Existing \subseteq 1..Len(log)
         /\ \A r \in Existing : log[r].type = "PUT" /\ Current(log[r].key) = r
         /\ \A r, q \in Existing : log[r].key = log[q].key => r = q
<1>1. ASSUME NEW r \in Existing
      PROVE  r \in 1..Len(log) /\ log[r].type = "PUT" /\ Current(log[r].key) = r
  <2>1. PICK k \in Keys : r = Current(k) /\ r # 0
    BY DEF Existing
  <2>2. r \in DOMAIN log /\ log[r].key = k /\ log[r].type = "PUT"
    BY <2>1, CurrentIsLast
  <2> QED
    BY <2>1, <2>2 DEF TypeOK
<1> QED
  BY <1>1

\* The first Get: each key that exists is still to be handled.
LEMMA LoadSafe == ASSUME SafeInv, Load PROVE SafeInv'
<1>1. /\ TypeOK /\ Revisions /\ Sent
      /\ pc = "load" /\ pc' = "initial" /\ base' = Len(log) /\ pos' = Len(log)
      /\ todo' = IF config.types = "DELETE" THEN {} ELSE Existing
      /\ UNCHANGED <<config, log, compacted, done, open, events, cur, emitted, out>>
  BY DEF SafeInv, Load, etcd
<1>2. events = <<>> /\ out = <<>>
  BY <1>1 DEF Sent, Loading
<1>3. /\ todo' \subseteq 1..Len(log)
      /\ \A r \in todo' : log[r].type = "PUT"
      /\ \A r, q \in todo' : log[r].key = log[q].key => r = q
  BY <1>1, ExistingKeys
<1>4. TypeOK'
  BY <1>1, <1>3, ConstantsAssumption DEF TypeOK, Labels
<1>5. Revisions' /\ Accepted'
  BY <1>1, <1>2, <1>3 DEF SafeInv, Revisions, Accepted, TypeOK, InHand, Watching
<1>6. Ends' /\ OnePlace' /\ Puts'
  BY <1>1, <1>2, <1>3 DEF SafeInv, Ends, OnePlace, Puts
<1>7. Sent' /\ Ordered' /\ Emitted' /\ InTime'
  BY <1>1, <1>2 DEF SafeInv, Sent, Ordered, Emitted, InTime, Loading, Watching
<1>8. NothingTwice'
  BY <1>1, <1>2 DEF NothingTwice, AtMostOnce, InOrder
<1> QED
  BY <1>4, <1>5, <1>6, <1>7, <1>8 DEF SafeInv

\* While the existing keys are handled: one leaves todo or the gate, and may become an
\* initial event.
LEMMA InitialSafe ==
  ASSUME SafeInv, pc \in {"initial", "initGate"}, pc' = "initial", todo' \subseteq todo,
         cur' = <<>> \/ cur' = cur,
         UNCHANGED <<config, etcd, done, open, base, pos, emitted, out>>,
         \/ UNCHANGED events
         \/ \E e \in Events : /\ events' = Append(events, e)
                              /\ Logged(e) /\ e.type = "PUT"
                              /\ config.gate = "off" => e.rev <= base
                              /\ \A r \in todo' : log[r].key # e.key
                              /\ \A i \in DOMAIN events : events[i].key # e.key
  PROVE  SafeInv'
<1>1. /\ TypeOK /\ Revisions /\ OnePlace /\ Puts /\ Sent /\ Ordered
      /\ UNCHANGED <<config, log, compacted, done, open, base, pos, emitted, out>>
  BY DEF SafeInv, etcd
<1>2. /\ events' \in Seq(Events)
      /\ \A i \in DOMAIN events' :
           /\ Logged(events'[i]) /\ events'[i].type = "PUT"
           /\ config.gate = "off" => events'[i].rev <= base
           /\ \A r \in todo' : log[r].key # events'[i].key
      /\ \A i, j \in DOMAIN events' : events'[i].key = events'[j].key => i = j
  <2>1. /\ events \in Seq(Events)
        /\ \A i \in DOMAIN events :
             /\ Logged(events[i]) /\ events[i].type = "PUT"
             /\ config.gate = "off" => events[i].rev <= base
             /\ \A r \in todo' : log[r].key # events[i].key
        /\ \A i, j \in DOMAIN events : events[i].key = events[j].key => i = j
    BY <1>1 DEF TypeOK, Revisions, OnePlace, Puts, Ordered
  <2>2. CASE UNCHANGED events
    BY <2>1, <2>2
  <2>3. CASE ~UNCHANGED events
    <3>1. PICK e \in Events : /\ events' = Append(events, e)
                              /\ Logged(e) /\ e.type = "PUT"
                              /\ config.gate = "off" => e.rev <= base
                              /\ \A r \in todo' : log[r].key # e.key
                              /\ \A i \in DOMAIN events : events[i].key # e.key
      BY <2>3
    <3>2. /\ events' \in Seq(Events) /\ DOMAIN events' = 1..Len(events) + 1
          /\ DOMAIN events = 1..Len(events) /\ Len(events) \in Nat
          /\ events'[Len(events) + 1] = e
          /\ \A i \in DOMAIN events : events'[i] = events[i]
      BY <2>1, <3>1
    <3>3. \A i \in DOMAIN events' : i \in DOMAIN events \/ i = Len(events) + 1
      BY <3>2
    <3>4. \A i \in DOMAIN events' :
             /\ Logged(events'[i]) /\ events'[i].type = "PUT"
             /\ config.gate = "off" => events'[i].rev <= base
             /\ \A r \in todo' : log[r].key # events'[i].key
      <4> TAKE i \in DOMAIN events'
      <4>1. CASE i \in DOMAIN events
        BY <2>1, <3>2, <4>1
      <4>2. CASE i = Len(events) + 1
        BY <3>1, <3>2, <4>2
      <4> QED
        BY <3>3, <4>1, <4>2
    <3>5. ASSUME NEW i \in DOMAIN events', NEW j \in DOMAIN events',
                 events'[i].key = events'[j].key
          PROVE  i = j
      <4>1. CASE i \in DOMAIN events /\ j \in DOMAIN events
        BY <2>1, <3>2, <3>5, <4>1
      <4>2. CASE i \in DOMAIN events /\ j = Len(events) + 1
        BY <3>1, <3>2, <3>5, <4>2
      <4>3. CASE i = Len(events) + 1 /\ j \in DOMAIN events
        BY <3>1, <3>2, <3>5, <4>3
      <4> QED
        BY <3>3, <4>1, <4>2, <4>3
    <3> QED
      BY <3>2, <3>4, <3>5
  <2> QED
    BY <2>2, <2>3
<1>3. TypeOK'
  BY <1>1, <1>2 DEF TypeOK, Labels
<1>4. Revisions'
  <2>1. \A i \in DOMAIN events' : Logged(events[i])'
    BY <1>1, <1>2 DEF Logged, Event
  <2>2. \A i \in DOMAIN out' : out'[i].type # "ERROR" => Logged(out[i])'
    BY <1>1 DEF Revisions, Logged, Event
  <2> QED
    BY <1>1, <2>1, <2>2 DEF Revisions, InHand, Watching
<1>5. OnePlace' /\ Puts'
  BY <1>1, <1>2 DEF OnePlace, Puts
<1>6. Sent' /\ Ordered' /\ Emitted' /\ InTime'
  BY <1>1, <1>2 DEF SafeInv, Sent, Ordered, Emitted, InTime, Loading, Watching
<1>7. Accepted' /\ Ends' /\ NothingTwice'
  BY <1>1 DEF SafeInv, Accepted, Ends, NothingTwice, AtMostOnce, InOrder
<1> QED
  BY <1>3, <1>4, <1>5, <1>6, <1>7 DEF SafeInv

\* A kv that was got becomes an initial event, or the one in hand, or is skipped.
LEMMA LoadKvSafe == ASSUME SafeInv, NEW r \in todo, LoadKv(r) PROVE SafeInv'
<1>1. /\ TypeOK /\ Revisions /\ OnePlace /\ Puts /\ Sent
      /\ pc = "initial" /\ todo' = todo \ {r}
      /\ UNCHANGED <<config, log, compacted, done, open, base, pos, emitted, out>>
      /\ UNCHANGED <<config, etcd, done, open, base, pos, emitted, out>>
  BY DEF SafeInv, LoadKv, etcd
<1> DEFINE e == Event(r)
<1>2. /\ e \in Events /\ Logged(e) /\ e.type = "PUT" /\ e.rev = r /\ r <= base
      /\ e.key = log[r].key
      /\ \A q \in todo' : log[q].key # e.key
      /\ \A i \in DOMAIN events : events[i].key # e.key
  <2>1. r \in DOMAIN log /\ log[r] \in Change /\ log[r].type = "PUT" /\ r \in 1..MaxRev
    BY <1>1, ConstantsAssumption DEF TypeOK, Revisions
  <2>2. e \in Events /\ Logged(e) /\ e.type = "PUT" /\ e.rev = r /\ e.key = log[r].key
    BY <2>1 DEF Event, Events, Logged, Change
  <2> QED
    BY <1>1, <2>2 DEF OnePlace, TypeOK
<1> HIDE DEF e
<1>3. CASE UNCHANGED <<pc, events, cur>>
  BY <1>1, <1>3, InitialSafe
<1>4. CASE events' = Append(events, e) /\ UNCHANGED <<pc, cur>>
  BY <1>1, <1>2, <1>4, InitialSafe
<1>5. CASE config.gate # "off" /\ cur' = e /\ pc' = "initGate" /\ UNCHANGED events
  <2>1. TypeOK'
    BY <1>1, <1>2, <1>5 DEF TypeOK, Labels
  <2>2. Revisions'
    BY <1>1, <1>2, <1>5 DEF Revisions, InHand, Watching, Logged, Event
  <2>3. OnePlace' /\ Puts'
    BY <1>1, <1>2, <1>5 DEF OnePlace, Puts
  <2>4. Sent' /\ Ordered' /\ Emitted' /\ InTime'
    BY <1>1, <1>5 DEF SafeInv, Sent, Ordered, Emitted, InTime, Loading, Watching
  <2>5. Accepted' /\ Ends' /\ NothingTwice'
    BY <1>1, <1>5 DEF SafeInv, Accepted, Ends, NothingTwice, AtMostOnce, InOrder
  <2> QED
    BY <2>1, <2>2, <2>3, <2>4, <2>5 DEF SafeInv
<1> QED
  BY <1>3, <1>4, <1>5 DEF LoadKv, e

\* The gate of an initial event may replace it by a newer one of the same key.
LEMMA InitGateSafe == ASSUME SafeInv, NEW answer, InitGate(answer) PROVE SafeInv'
<1>1. /\ TypeOK /\ Revisions /\ OnePlace /\ Puts
      /\ pc = "initGate" /\ pc' = "initial" /\ cur' = <<>>
      /\ events' = events \o SetToSeq(Gated(answer))
      /\ UNCHANGED <<config, etcd, done, open, base, todo, pos, emitted, out>>
  BY DEF SafeInv, InitGate
<1>2. cur \in Events /\ Logged(cur) /\ cur.type = "PUT" /\ config.gate # "off"
  BY <1>1 DEF Revisions, InHand, Puts
<1>3. CASE Gated(answer) = {}
  <2>1. events' = events
    BY <1>1, <1>3, SetToSeqSmall DEF TypeOK
  <2> QED
    BY <1>1, <2>1, InitialSafe
<1>4. CASE \E e \in Events : /\ Gated(answer) = {e} /\ Logged(e) /\ e.key = cur.key
                             /\ e = cur \/ (e = Event(Current(cur.key)) /\ Current(cur.key) # 0)
  <2>1. PICK e \in Events : /\ Gated(answer) = {e} /\ Logged(e) /\ e.key = cur.key
                            /\ e = cur \/ (e = Event(Current(cur.key)) /\ Current(cur.key) # 0)
    BY <1>4
  <2>2. events' = Append(events, e)
    <3>1. events \in Seq(Events) /\ SetToSeq({e}) = <<e>>
      BY <1>1, SetToSeqSmall DEF TypeOK
    <3>2. events \o <<e>> = Append(events, e)
      BY <3>1
    <3> QED
      BY <1>1, <2>1, <3>1, <3>2
  <2>3. e.type = "PUT"
    BY <1>1, <1>2, <2>1, CurrentIsLast DEF Event
  <2>4. /\ \A r \in todo' : log[r].key # e.key
        /\ \A i \in DOMAIN events : events[i].key # e.key
    BY <1>1, <2>1 DEF OnePlace
  <2> QED
    BY <1>1, <1>2, <2>1, <2>2, <2>3, <2>4, InitialSafe
<1> QED
  BY <1>1, <1>2, <1>3, <1>4, GatedIs

\* The initial events, or some of them, are sent.
LEMMA SentInitially ==
  ASSUME SafeInv, UNCHANGED <<config, base, log, events>>,
         out' \in Seq(Events \cup {Failure}),
         \A i \in DOMAIN out' : i \in DOMAIN events /\ out'[i] = events[i]
  PROVE  /\ NothingTwice'
         /\ \A i \in DOMAIN out' : out'[i].type # "ERROR" /\ Logged(out[i])'
<1>1. /\ \A i \in DOMAIN out' : /\ out'[i].type = "PUT" /\ out'[i].rev \in DOMAIN log
                                /\ out'[i] = Event(out'[i].rev)
                                /\ config.gate = "off" => out'[i].rev <= base
      /\ \A i, j \in DOMAIN out' : out'[i].key = out'[j].key => i = j
  BY DEF SafeInv, Revisions, Logged, OnePlace, Puts, Ordered
<1>2. \A i \in DOMAIN out' : out'[i].type # "ERROR" /\ Logged(out[i])'
  BY <1>1 DEF Logged, Event
<1>3. \A i, j \in DOMAIN out' : out'[i].rev = out'[j].rev => i = j
  BY <1>1
<1>4. \A i, j \in DOMAIN out' : i < j => i # j
  OBVIOUS
<1>5. AtMostOnce' /\ InOrder'
  <2>1. base \in Nat /\ (\A i \in DOMAIN out' : out'[i].rev \in Nat)
    BY <1>1 DEF SafeInv, TypeOK
  <2>2. AtMostOnce'
    BY <1>1 DEF AtMostOnce
  <2>3. InOrder'
    BY <1>1, <1>3, <1>4, <2>1 DEF InOrder
  <2> QED
    BY <2>2, <2>3
<1> QED
  BY <1>2, <1>5 DEF NothingTwice

\* The initial events go out at once, or one by one.
LEMMA LoadedSafe == ASSUME SafeInv, Loaded PROVE SafeInv'
<1>1. /\ TypeOK /\ Revisions /\ OnePlace /\ Puts /\ Sent /\ Ordered /\ Ends
      /\ pc = "initial" /\ todo = {} /\ pc' \in {"send", "watch"}
      /\ out = <<>> /\ (out' = events \/ (out' = <<>> /\ pc' = "send"))
      /\ UNCHANGED <<config, log, compacted, done, open, base, todo, events, pos, cur, emitted>>
  BY DEF SafeInv, Loaded, etcd, Sent, Loading
<1>2. /\ \A i \in DOMAIN out' : i \in DOMAIN events /\ out'[i] = events[i]
      /\ Len(out') <= Len(events)
      /\ pc' = "watch" => Len(out') = Len(events)
      /\ out' \in Seq(Events \cup {Failure})
  <2>1. events \in Seq(Events) /\ Len(events) \in Nat /\ DOMAIN events = 1..Len(events)
    BY <1>1 DEF TypeOK
  <2>2. CASE out' = events
    <3>1. events \in Seq(Events \cup {Failure})
      BY <2>1
    <3> QED
      BY <2>1, <2>2, <3>1
  <2>3. CASE out' = <<>> /\ pc' = "send"
    BY <2>1, <2>3
  <2> QED
    BY <1>1, <2>2, <2>3
<1>3. /\ NothingTwice'
      /\ \A i \in DOMAIN out' : out'[i].type # "ERROR" /\ Logged(out[i])'
  BY <1>1, <1>2, SentInitially
<1>4. TypeOK'
  BY <1>1, <1>2 DEF TypeOK, Labels
<1>5. Revisions'
  <2>1. \A i \in DOMAIN events' : Logged(events[i])'
    BY <1>1 DEF Revisions, Logged, Event
  <2> QED
    BY <1>1, <1>3, <2>1 DEF Revisions, InHand, Watching
<1>6. Accepted' /\ Ends' /\ OnePlace' /\ Puts'
  BY <1>1, <1>3 DEF SafeInv, Accepted, Ends, OnePlace, Puts
<1>7. Sent'
  BY <1>1, <1>2 DEF Sent, Loading
<1>8. Ordered' /\ Emitted' /\ InTime'
  BY <1>1 DEF SafeInv, Ordered, Emitted, InTime, Watching
<1> QED
  BY <1>3, <1>4, <1>5, <1>6, <1>7, <1>8 DEF SafeInv

\* One more of the initial events goes out.
LEMMA SendInitialSafe == ASSUME SafeInv, SendInitial PROVE SafeInv'
<1>1. /\ TypeOK /\ Revisions /\ OnePlace /\ Puts /\ Sent /\ Ordered /\ Ends
      /\ pc = "send" /\ todo = {}
      /\ UNCHANGED <<config, log, compacted, done, open, base, todo, events, pos, cur, emitted>>
  BY DEF SafeInv, SendInitial, etcd, Sent
<1>2. /\ out \in Seq(Events \cup {Failure}) /\ events \in Seq(Events)
      /\ Len(out) <= Len(events) /\ (\A i \in DOMAIN out : out[i] = events[i])
  BY <1>1 DEF TypeOK, Sent
<1>3. /\ \A i \in DOMAIN out' : i \in DOMAIN events /\ out'[i] = events[i]
      /\ Len(out') <= Len(events)
      /\ pc' \in {"send", "watch"}
      /\ pc' = "watch" /\ open => Len(out') = Len(events)
      /\ out' \in Seq(Events \cup {Failure})
  <2>1. CASE open /\ Len(out) < Len(events)
    <3>1. out' = Append(out, events[Len(out) + 1]) /\ pc' = pc
      BY <2>1 DEF SendInitial, Send
    <3>2. Len(out) + 1 \in DOMAIN events /\ events[Len(out) + 1] \in Events
      BY <1>2, <2>1
    <3> DEFINE e == events[Len(out) + 1]
    <3>3. /\ out' \in Seq(Events \cup {Failure}) /\ Len(out') = Len(out) + 1
          /\ DOMAIN out' = 1..Len(out) + 1 /\ out'[Len(out) + 1] = e
          /\ \A i \in DOMAIN out : out'[i] = out[i]
          /\ DOMAIN out = 1..Len(out) /\ DOMAIN events = 1..Len(events)
      BY <1>2, <3>1, <3>2
    <3> QED
      BY <1>1, <1>2, <2>1, <3>1, <3>2, <3>3
  <2>2. CASE ~(open /\ Len(out) < Len(events))
    BY <1>2, <2>2 DEF SendInitial
  <2> QED
    BY <2>1, <2>2
<1>4. /\ NothingTwice'
      /\ \A i \in DOMAIN out' : out'[i].type # "ERROR" /\ Logged(out[i])'
  BY <1>1, <1>3, SentInitially
<1>5. TypeOK'
  BY <1>1, <1>3 DEF TypeOK, Labels
<1>6. Revisions'
  <2>1. \A i \in DOMAIN events' : Logged(events[i])'
    BY <1>1 DEF Revisions, Logged, Event
  <2> QED
    BY <1>1, <1>3, <1>4, <2>1 DEF Revisions, InHand, Watching
<1>7. Accepted' /\ Ends' /\ OnePlace' /\ Puts'
  BY <1>1, <1>3, <1>4 DEF SafeInv, Accepted, Ends, OnePlace, Puts
<1>8. Sent'
  BY <1>1, <1>3 DEF Sent, Loading
<1>9. Ordered' /\ Emitted' /\ InTime'
  BY <1>1, <1>3 DEF SafeInv, Ordered, Emitted, InTime, Watching
<1> QED
  BY <1>4, <1>5, <1>6, <1>7, <1>8, <1>9 DEF SafeInv

\* The watch begins after the revision of the Get; the keys told of are remembered.
LEMMA StartWatchSafe == ASSUME SafeInv, StartWatch PROVE SafeInv'
<1>1. /\ TypeOK /\ Revisions /\ OnePlace /\ Puts /\ Sent /\ Ordered /\ Ends
      /\ pc = "watch" /\ pc' = "watching" /\ todo = {} /\ config.mode # "NONE"
      /\ pos' = base /\ emitted' = InitialKeys /\ events' = <<>>
      /\ UNCHANGED <<config, log, compacted, done, open, base, todo, cur, out>>
  BY DEF SafeInv, StartWatch, etcd, Sent, WatchAfter
<1>2. /\ \A i \in DOMAIN out : i \in DOMAIN events /\ out[i] = events[i]
      /\ \A i \in DOMAIN out : out[i].key \in {e.key : e \in ToSet(events)}
  <2>1. /\ out \in Seq(Events \cup {Failure}) /\ events \in Seq(Events)
        /\ Len(out) <= Len(events) /\ \A i \in DOMAIN out : out[i] = events[i]
    BY <1>1 DEF TypeOK, Sent
  <2>2. \A i \in DOMAIN out : i \in DOMAIN events /\ out[i] = events[i]
    BY <2>1
  <2> QED
    BY <2>2 DEF ToSet
<1>3. TypeOK'
  <2>1. emitted' \subseteq Keys
    <3>1. events \in Seq(Events)
      BY <1>1 DEF TypeOK
    <3>2. \A i \in DOMAIN events : events[i].key \in Keys
      <4>1. \A i \in DOMAIN events : events[i] \in Events
        BY <3>1
      <4> QED
        BY <4>1 DEF Events
    <3> QED
      BY <1>1, <3>2 DEF InitialKeys, ToSet
  <2> QED
    BY <1>1, <2>1 DEF TypeOK, Labels
<1>4. Revisions'
  <2>1. \A i \in DOMAIN out' : out'[i].type # "ERROR" => Logged(out[i])'
    BY <1>1 DEF Revisions, Logged, Event
  <2> QED
    BY <1>1, <2>1 DEF TypeOK, Revisions, InHand, Watching
<1>5. Accepted' /\ Ends' /\ OnePlace' /\ Puts' /\ Sent'
  BY <1>1 DEF SafeInv, Accepted, Ends, OnePlace, Puts, Sent, Loading
<1>6. Ordered' /\ InTime'
  BY <1>1, <1>2 DEF Ordered, InTime
<1>7. Emitted'
  BY <1>1, <1>2 DEF Emitted, InitialKeys
<1>8. NothingTwice'
  BY <1>1 DEF SafeInv, NothingTwice, AtMostOnce, InOrder
<1> QED
  BY <1>3, <1>4, <1>5, <1>6, <1>7, <1>8 DEF SafeInv

\* The next revision comes, to be told, to be gated, or skipped.
LEMMA ReceiveSafe == ASSUME SafeInv, Receive PROVE SafeInv'
<1> DEFINE e == Event(pos + 1)
<1>1. /\ TypeOK /\ Revisions /\ Ends /\ Sent /\ Ordered /\ Emitted
      /\ pc = "watching" /\ pos < Len(log) /\ pos' = pos + 1
      /\ \/ UNCHANGED <<cur, pc>>
         \/ /\ cur' = e
            /\ (pc' = "gate" /\ e.type = "PUT" /\ config.gate # "off") \/ pc' = "emit"
      /\ UNCHANGED <<config, log, compacted, done, open, base, todo, events, emitted, out>>
  BY DEF SafeInv, Receive, etcd
<1>2. /\ e \in Events /\ Logged(e) /\ e.rev = pos + 1 /\ pos + 1 \in 1..MaxRev
      /\ pos \in Nat /\ base \in Nat /\ base <= pos
  <2>1. pos + 1 \in DOMAIN log /\ log[pos + 1] \in Change /\ pos + 1 \in 1..MaxRev
    BY <1>1, ConstantsAssumption DEF TypeOK
  <2> QED
    BY <1>1, <2>1 DEF Event, Events, Logged, Change, TypeOK, Revisions, Watching
<1>3. \A i \in DOMAIN out : out[i].type # "ERROR" /\ out[i].rev \in Nat
  BY <1>1 DEF Ends, Revisions, Logged, TypeOK
<1> HIDE DEF e
<1>4. TypeOK'
  BY <1>1, <1>2 DEF TypeOK, Labels
<1>5. Revisions'
  <2>1. \A i \in DOMAIN out' : out'[i].type # "ERROR" => Logged(out[i])'
    BY <1>1 DEF Revisions, Logged, Event
  <2>2. \A i \in DOMAIN events' : Logged(events[i])'
    BY <1>1 DEF Revisions, Logged, Event
  <2>3. InHand' => cur' \in Events /\ Logged(cur)'
    BY <1>1, <1>2 DEF InHand, Logged, Event
  <2>4. base' <= Len(log') /\ pos' <= Len(log') /\ todo' \subseteq 1..base' /\ base' <= pos'
    BY <1>1, <1>2 DEF TypeOK, Revisions
  <2> QED
    BY <2>1, <2>2, <2>3, <2>4 DEF Revisions
<1>6. Accepted' /\ Ends' /\ OnePlace' /\ Puts' /\ Sent'
  BY <1>1 DEF SafeInv, Accepted, Ends, OnePlace, Puts, Sent, Loading
<1>7. Ordered'
  BY <1>1, <1>2, <1>3 DEF Ordered, Watching
<1>8. InTime' /\ Emitted'
  BY <1>1, <1>2 DEF InTime, Emitted, Watching
<1>9. NothingTwice'
  BY <1>1 DEF SafeInv, NothingTwice, AtMostOnce, InOrder
<1> QED
  BY <1>4, <1>5, <1>6, <1>7, <1>8, <1>9 DEF SafeInv

\* The gate of an event of the watch.
LEMMA GateSafe == ASSUME SafeInv, NEW answer, Gate(answer) PROVE SafeInv'
<1>1. /\ TypeOK /\ Revisions /\ Ends /\ Sent /\ Puts /\ Emitted /\ InTime
      /\ pc = "gate" /\ pc' \in {"watching", "emit"}
      /\ pc' = "emit" => cur' \in Gated(answer)
      /\ cur' = <<>> \/ cur' \in Gated(answer)
      /\ pc' = "watching" => cur' = <<>>
      /\ UNCHANGED <<config, log, compacted, done, open, base, todo, events, pos, emitted, out>>
  BY DEF SafeInv, Gate, etcd
<1>2. cur \in Events /\ Logged(cur) /\ cur.rev = pos /\ config.gate # "off"
  BY <1>1 DEF Revisions, InHand, InTime, Puts
<1>3. \A e \in Gated(answer) : /\ e \in Events /\ Logged(e) /\ pos <= e.rev
  <2>1. CASE Gated(answer) = {}
    BY <2>1
  <2>2. CASE \E e \in Events : /\ Gated(answer) = {e} /\ Logged(e) /\ e.key = cur.key
                               /\ e = cur \/ (e = Event(Current(cur.key)) /\ Current(cur.key) # 0)
    <3>1. PICK e \in Events : /\ Gated(answer) = {e} /\ Logged(e) /\ e.key = cur.key
                              /\ e = cur \/ (e = Event(Current(cur.key)) /\ Current(cur.key) # 0)
      BY <2>2
    <3>2. CASE e = cur
      BY <1>1, <1>2, <3>1, <3>2 DEF TypeOK
    <3>3. CASE e = Event(Current(cur.key)) /\ Current(cur.key) # 0
      <4> DEFINE r == Current(cur.key)
      <4>1. r \in DOMAIN log /\ Quiet(cur.key, r) /\ e.rev = r
        BY <1>1, <3>3, CurrentIsLast DEF Event
      <4>2. pos \in DOMAIN log /\ log[pos].key = cur.key
        BY <1>2 DEF Logged, Event
      <4>3. pos \in 1..Len(log) /\ r \in 1..Len(log) /\ Len(log) \in Nat
        BY <1>1, <4>1, <4>2 DEF TypeOK
      <4>4. pos <= r
        BY <4>1, <4>2, <4>3 DEF Quiet
      <4> QED
        BY <3>1, <4>1, <4>4
    <3> QED
      BY <3>1, <3>2, <3>3
  <2> QED
    BY <1>1, <1>2, <2>1, <2>2, GatedIs
<1>4. TypeOK'
  BY <1>1, <1>3 DEF TypeOK, Labels
<1>5. Revisions'
  <2>1. \A i \in DOMAIN out' : out'[i].type # "ERROR" => Logged(out[i])'
    BY <1>1 DEF Revisions, Logged, Event
  <2>2. \A i \in DOMAIN events' : Logged(events[i])'
    BY <1>1 DEF Revisions, Logged, Event
  <2>3. InHand' => cur' \in Events /\ Logged(cur)'
    BY <1>1, <1>3 DEF InHand, Logged, Event
  <2> QED
    BY <1>1, <2>1, <2>2, <2>3 DEF Revisions, Watching
<1>6. Accepted' /\ Ends' /\ OnePlace' /\ Puts' /\ Sent'
  BY <1>1 DEF SafeInv, Accepted, Ends, OnePlace, Puts, Sent, Loading
<1>7. Ordered' /\ InTime' /\ Emitted'
  BY <1>1, <1>2, <1>3 DEF Ordered, InTime, Emitted, Watching
<1>8. NothingTwice'
  BY <1>1 DEF SafeInv, NothingTwice, AtMostOnce, InOrder
<1> QED
  BY <1>4, <1>5, <1>6, <1>7, <1>8 DEF SafeInv

\* The event in hand goes out, but for a deletion of a key that was not told of, or a key
\* told once.
LEMMA EmitSafe == ASSUME SafeInv, Emit PROVE SafeInv'
<1>1. /\ TypeOK /\ Revisions /\ Ends /\ Sent /\ Ordered /\ Emitted /\ InTime /\ NothingTwice
      /\ pc = "emit" /\ pc' = "watching" /\ cur' = <<>>
      /\ UNCHANGED <<config, log, compacted, done, open, base, todo, events, pos>>
  BY DEF SafeInv, Emit, etcd
<1>2. /\ cur \in Events /\ Logged(cur) /\ base <= pos /\ base \in Nat /\ pos \in Nat
      /\ cur.rev \in Nat /\ cur.key \in Keys /\ cur.type # "ERROR" /\ pos <= cur.rev
  BY <1>1, ConstantsAssumption DEF Revisions, InHand, Watching, TypeOK, Events, InTime
<1>3. \/ UNCHANGED <<emitted, out>>
      \/ /\ cur.key \notin emitted
         /\ emitted' = IF config.mode = "ONCE" THEN emitted \cup {cur.key} ELSE emitted
         /\ out' = out \/ out' = Append(out, cur)
  BY DEF Emit, Send
<1>4. /\ out \in Seq(Events \cup {Failure})
      /\ \A i \in DOMAIN out : out[i].type # "ERROR" /\ Logged(out[i]) /\ out[i].rev \in Nat
  BY <1>1 DEF TypeOK, Ends, Revisions, Logged
<1>5. /\ out' \in Seq(Events \cup {Failure})
      /\ \A i \in DOMAIN out' :
           \/ i \in DOMAIN out /\ out'[i] = out[i]
           \/ i = Len(out) + 1 /\ out'[i] = cur /\ cur.key \notin emitted
      /\ DOMAIN out = 1..Len(out) /\ Len(out) \in Nat
      /\ \A i \in DOMAIN out' : i \in Nat
  <2>1. DOMAIN out = 1..Len(out) /\ Len(out) \in Nat
    BY <1>4
  <2>2. CASE out' = out
    BY <1>4, <2>1, <2>2
  <2>3. CASE out' = Append(out, cur) /\ cur.key \notin emitted
    <3>1. /\ out' \in Seq(Events \cup {Failure}) /\ DOMAIN out' = 1..Len(out) + 1
          /\ out'[Len(out) + 1] = cur /\ \A i \in DOMAIN out : out'[i] = out[i]
      BY <1>2, <1>4, <2>3
    <3> QED
      BY <2>1, <2>3, <3>1
  <2> QED
    BY <1>3, <2>2, <2>3
<1>6. emitted' \subseteq Keys /\ emitted \subseteq emitted'
      /\ (config.mode = "ONCE" => \/ out' = out
                                  \/ emitted' = emitted \cup {cur.key})
      /\ (config.mode = "ALL" => emitted' = {})
  BY <1>1, <1>2, <1>3 DEF TypeOK, Emitted
<1>7. TypeOK'
  BY <1>1, <1>5, <1>6 DEF TypeOK, Labels
<1>8. Revisions'
  <2>1. \A i \in DOMAIN out' : Logged(out[i])'
    BY <1>1, <1>2, <1>4, <1>5 DEF Logged, Event
  <2>2. \A i \in DOMAIN events' : Logged(events[i])'
    BY <1>1 DEF Revisions, Logged, Event
  <2> QED
    BY <1>1, <1>2, <2>1, <2>2 DEF Revisions, InHand
<1>9. Accepted' /\ OnePlace' /\ Puts' /\ Sent'
  BY <1>1 DEF SafeInv, Accepted, OnePlace, Puts, Sent, Loading
<1>10. Ends'
  BY <1>1, <1>2, <1>4, <1>5 DEF Ends
<1>11. Ordered' /\ InTime'
  BY <1>1, <1>2, <1>4, <1>5 DEF Ordered, InTime, Watching
<1>12. Emitted'
  <2>1. config.mode = "ONCE" => \A i \in DOMAIN out' : out'[i].key \in emitted'
    BY <1>1, <1>5, <1>6 DEF Emitted, Watching
  <2> QED
    BY <1>1, <1>6, <2>1 DEF Emitted, Watching
<1>13. AtMostOnce'
  <2>1. config.mode \in {"ALL", "ONCE", "NONE"} /\ config.mode # "NONE"
    BY <1>1, ConstantsAssumption DEF TypeOK, Configs, Emitted, Watching
  <2>2. config.mode = "ONCE" =>
          \A i \in DOMAIN out : out[i].key \in emitted
    BY <1>1 DEF Emitted, Watching
  <2>3. config.mode = "ONCE" =>
          \A i, j \in DOMAIN out : i # j => out[i].key # out[j].key
    BY <1>1, <1>4 DEF NothingTwice, AtMostOnce
  <2>4. config.mode = "ONCE" =>
          \A i, j \in DOMAIN out' : i # j => out'[i].key # out'[j].key
    BY <1>5, <2>2, <2>3
  <2> QED
    BY <1>1, <2>1, <2>4 DEF AtMostOnce
<1>14. InOrder'
  <2> SUFFICES ASSUME config.gate = "off"
               PROVE  \A i, j \in DOMAIN out' :
                        i < j => /\ out'[i].rev # out'[j].rev
                                 /\ out'[j].rev > base => out'[i].rev < out'[j].rev
    BY <1>1 DEF InOrder
  <2>1. \A i \in DOMAIN out : out[i].rev < cur.rev
    BY <1>1, <1>2, <1>4 DEF Ordered
  <2>2. \A i, j \in DOMAIN out :
          i < j => /\ out[i].rev # out[j].rev
                   /\ out[j].rev > base => out[i].rev < out[j].rev
    BY <1>1, <1>4 DEF NothingTwice, InOrder
  <2> QED
    BY <1>2, <1>4, <1>5, <2>1, <2>2
<1> QED
  BY <1>7, <1>8, <1>9, <1>10, <1>11, <1>12, <1>13, <1>14 DEF SafeInv, NothingTwice

\* Every step.
LEMMA SafeNext == SafeInv /\ [Next]_vars => SafeInv'
<1> SUFFICES ASSUME SafeInv, [Next]_vars PROVE SafeInv'
  OBVIOUS
<1>0. TypeOK /\ Ends /\ Sent
  BY DEF SafeInv
<1>1. ASSUME NEW k \in Keys, NEW type \in {"PUT", "DELETE"}, NEW a \in Accepts, Write(k, type, a)
      PROVE  SafeInv'
  BY <1>1, WriteSafe
<1>2. CASE Compact
  <2>1. compacted' \in 0..MaxRev
    BY <1>0, <1>2, ConstantsAssumption DEF Compact, TypeOK
  <2> QED
    BY <1>0, <1>2, <2>1, IdleSafe DEF Compact, TypeOK, Ends
<1>3. CASE Stop
  BY <1>0, <1>3, IdleSafe DEF Stop, TypeOK, etcd
<1>4. CASE ParentEnds
  BY <1>0, <1>4, IdleSafe DEF ParentEnds, TypeOK, etcd
<1>5. CASE Load
  BY <1>5, LoadSafe
<1>6. ASSUME NEW r \in todo, LoadKv(r) PROVE SafeInv'
  BY <1>6, LoadKvSafe
<1>7. ASSUME NEW answer \in Answers, InitGate(answer) PROVE SafeInv'
  BY <1>7, InitGateSafe
<1>8. ASSUME NEW answer \in Answers, Gate(answer) PROVE SafeInv'
  BY <1>8, GateSafe
<1>9. CASE Loaded
  BY <1>9, LoadedSafe
<1>10. CASE SendInitial
  BY <1>10, SendInitialSafe
<1>11. CASE StopAfterLoad
  BY <1>11, ClosingSafe DEF StopAfterLoad
<1>12. CASE StartWatch
  BY <1>12, StartWatchSafe
<1>13. CASE Receive
  BY <1>13, ReceiveSafe
<1>14. CASE Emit
  BY <1>14, EmitSafe
<1>15. CASE Compacted
  BY <1>15, ClosingSafe DEF Compacted, Send
<1>16. CASE Stopped
  BY <1>16, ClosingSafe DEF Stopped
<1>17. CASE Fails
  <2>1. pc # "closed"
    BY <1>17 DEF Fails, Loading
  <2>2. Loading => <<Failure>> = Append(out, Failure)
    BY <1>0 DEF Sent
  <2> QED
    BY <1>17, <2>1, <2>2, ClosingSafe DEF Fails, Send
<1>18. CASE UNCHANGED vars
  BY <1>0, <1>18, IdleSafe DEF vars, etcd, TypeOK, Ends
<1> QED
  BY <1>1, <1>2, <1>3, <1>4, <1>5, <1>6, <1>7, <1>8, <1>9, <1>10, <1>11, <1>12, <1>13, <1>14,
     <1>15, <1>16, <1>17, <1>18 DEF Next, Watcher

\* No consumer is told a key twice in OnceMode, nor without a gate a change twice or after
\* a later one: loadInitialData's revision is where the watch goes on, and emittedKeys
\* starts with the keys that were there.
THEOREM ToldOnce == Spec => []NothingTwice
<1>1. SafeInv => NothingTwice
  BY DEF SafeInv
<1> QED
  BY <1>1, SafeInit, SafeNext, PTL DEF Spec

\* The events channel is not closed under a consumer whose context goes on, unless the
\* last thing it got is an error: every call of etcd that fails, and a compacted revision.
THEOREM EndsAreTold == Spec => ClosedWithError
<1>1. ASSUME SafeInv, [Next]_vars, ~done, pc' = "closed", config.mode # "NONE"
      PROVE  LastIsError'
  <2>1. /\ open /\ pc # "closed"
        /\ out \in Seq(Events \cup {Failure}) /\ (Loading => out = <<>>)
    BY <1>1 DEF SafeInv, TypeOK, Ends, Sent
  <2>2. Append(out, Failure) # <<>> /\ Last(Append(out, Failure)).type = "ERROR"
    BY <2>1 DEF Last, Failure
  <2>3. Loading => <<Failure>> = Append(out, Failure)
    BY <2>1
  <2>4. CASE Fails
    BY <2>1, <2>2, <2>3, <2>4 DEF Fails, Send, LastIsError
  <2>5. CASE Compacted
    BY <2>1, <2>2, <2>5 DEF Compacted, Send, LastIsError
  <2>6. CASE StopAfterLoad \/ Stopped
    BY <1>1, <2>6 DEF StopAfterLoad, Stopped
  <2>7. CASE Emit
    BY <1>1, <2>7 DEF Emit
  <2>8. CASE Receive
    BY <1>1, <2>1, <2>8 DEF Receive
  <2>9. CASE Load \/ Loaded \/ SendInitial \/ StartWatch
    BY <1>1, <2>1, <2>9 DEF Load, Loaded, SendInitial, StartWatch
  <2>10. CASE \E r \in todo : LoadKv(r)
    BY <1>1, <2>1, <2>10 DEF LoadKv
  <2>11. CASE \E answer \in Answers : InitGate(answer) \/ Gate(answer)
    BY <1>1, <2>1, <2>11 DEF InitGate, Gate
  <2>12. CASE \/ \E k \in Keys, type \in {"PUT", "DELETE"}, a \in Accepts : Write(k, type, a)
              \/ Compact \/ Stop \/ ParentEnds
    BY <1>1, <2>1, <2>12 DEF Write, Compact, Stop, ParentEnds
  <2>13. CASE UNCHANGED vars
    BY <1>1, <2>1, <2>13 DEF vars
  <2> QED
    BY <1>1, <2>4, <2>5, <2>6, <2>7, <2>8, <2>9, <2>10, <2>11, <2>12, <2>13 DEF Next, Watcher
<1>2. SafeInv /\ [Next]_vars => [~done /\ pc' = "closed" /\ config.mode # "NONE" => LastIsError']_vars
  BY <1>1
<1> QED
  BY <1>2, SafeInit, SafeNext, PTL DEF Spec, ClosedWithError

-----------------------------------------------------------------------------
(* What the consumer knows. *)

\* What is sent is what the consumer knows of its key, and of no other.
LEMMA ViewAppend ==
  ASSUME NEW S, out \in Seq(S), NEW x \in S, out' = Append(out, x), NEW k
  PROVE  View(k)' = IF x.key # k THEN View(k) ELSE IF x.type = "PUT" THEN x.rev ELSE 0
<1>1. /\ out' \in Seq(S) /\ out'[Len(out) + 1] = x /\ Len(out) \in Nat
      /\ \A i \in DOMAIN out : out'[i] = out[i]
  OBVIOUS
<1>2. LastOf(out, k)' = IF x.key = k THEN {Len(out) + 1} ELSE LastOf(out, k)
  BY LastOfAppend DEF LastOf
<1>3. CASE x.key = k
  BY <1>1, <1>2, <1>3 DEF View
<1>4. CASE x.key # k
  <2>1. \A i \in LastOf(out, k) : i \in DOMAIN out
    BY DEF LastOf
  <2>2. LastOf(out, k)' = LastOf(out, k)
    BY <1>2, <1>4
  <2>3. CASE \E i \in LastOf(out, k) : out[i].type = "PUT"
    <3>1. (CHOOSE i \in LastOf(out, k) : TRUE) \in LastOf(out, k)
      BY <2>3
    <3>2. \E i \in LastOf(out, k)' : out'[i].type = "PUT"
      BY <1>1, <2>1, <2>2, <2>3
    <3> QED
      BY <1>1, <1>4, <2>1, <2>2, <2>3, <3>1, <3>2 DEF View
  <2>4. CASE ~\E i \in LastOf(out, k) : out[i].type = "PUT"
    BY <1>1, <1>4, <2>1, <2>2, <2>4 DEF View
  <2> QED
    BY <2>3, <2>4
<1> QED
  BY <1>3, <1>4

\* What the consumer knows when it got each key once at most.
LEMMA ViewOfOnce ==
  ASSUME out \in Seq(Events \cup {Failure}),
         \A i, j \in DOMAIN out : out[i].key = out[j].key => i = j, NEW k
  PROVE  /\ (\A i \in DOMAIN out : out[i].key # k) => View(k) = 0
         /\ \A i \in DOMAIN out : out[i].key = k /\ out[i].type = "PUT" => View(k) = out[i].rev
<1>1. ASSUME \A i \in DOMAIN out : out[i].key # k PROVE View(k) = 0
  BY <1>1 DEF View, LastOf
<1>2. ASSUME NEW i \in DOMAIN out, out[i].key = k, out[i].type = "PUT" PROVE View(k) = out[i].rev
  <2>1. LastOf(out, k) = {i}
    BY <1>2 DEF LastOf
  <2> QED
    BY <1>2, <2>1 DEF View
<1> QED
  BY <1>1, <1>2

\* A change of a key leaves it unquiet, and what the others are as it was.
LEMMA WriteOthers ==
  ASSUME TypeOK, NEW c \in Change, log' = Append(log, c), NEW k, NEW p \in 0..Len(log),
         Quiet(k, p)'
  PROVE  Quiet(k, p) /\ Current(k)' = Current(k)
<1>1. /\ Len(log') = Len(log) + 1 /\ DOMAIN log' = 1..Len(log) + 1
      /\ \A r \in DOMAIN log : log'[r] = log[r]
      /\ log'[Len(log) + 1] = c
      /\ DOMAIN log = 1..Len(log) /\ Len(log) \in Nat
  BY LogGrows
<1>2. c.key # k
  BY <1>1 DEF Quiet
<1>3. Quiet(k, p)
  BY <1>1 DEF Quiet
<1>4. LastOf(log, k)' = LastOf(log, k)
  BY <1>2, LastOfAppend DEF LastOf, TypeOK
<1>5. \A r \in LastOf(log, k) : log'[r] = log[r]
  BY <1>1 DEF LastOf
<1>6. Current(k)' = Current(k)
  <2>1. (\E r \in LastOf(log, k)' : log'[r].type = "PUT")
          <=> \E r \in LastOf(log, k) : log[r].type = "PUT"
    BY <1>4, <1>5
  <2>2. ASSUME NEW r \in LastOf(log, k), log[r].type = "PUT" PROVE Current(k)' = Current(k)
    <3>1. \A q \in LastOf(log, k) : q = r
      BY <2>2, LastIsOne DEF TypeOK
    <3>2. Current(k) = r
      BY <2>2, <3>1 DEF Current
    <3>3. \A q \in LastOf(log, k)' : q = r
      BY <1>4, <3>1
    <3>4. r \in LastOf(log, k)' /\ log'[r].type = "PUT"
      BY <1>4, <1>5, <2>2
    <3>5. Current(k)' = r
      BY <3>3, <3>4 DEF Current
    <3> QED
      BY <3>2, <3>5
  <2>3. ASSUME ~\E r \in LastOf(log, k) : log[r].type = "PUT" PROVE Current(k)' = Current(k)
    BY <2>1, <2>3 DEF Current
  <2> QED
    BY <2>2, <2>3
<1> QED
  BY <1>3, <1>6

\* A change of a key, seen from the initial events and from the consumer.
LEMMA WriteRight ==
  ASSUME IInv, NEW k0 \in Keys, NEW type \in {"PUT", "DELETE"}, NEW a \in Accepts,
         Write(k0, type, a)
  PROVE  LoadRight' /\ ViewRight'
<1> DEFINE c == [key |-> k0, type |-> type, accepted |-> a]
<1>1. /\ c \in Change /\ log' = Append(log, c) /\ TypeOK /\ Revisions
      /\ UNCHANGED <<config, compacted, pc, done, open, base, todo, events, pos, cur, emitted, out>>
  BY ConstantsAssumption DEF Write, Change, Accepts, IInv, SafeInv, TypeOK, Configs
<1> HIDE DEF c
<1>2. /\ \A r \in DOMAIN log : log'[r] = log[r] /\ Event(r)' = Event(r)
      /\ DOMAIN log = 1..Len(log)
  BY <1>1, LogGrows
<1>3. base \in 0..Len(log) /\ pos \in 0..Len(log)
  BY <1>1 DEF TypeOK, Revisions
<1>4. LoadRight'
  <2> SUFFICES ASSUME SeesAll', pc' \in {"initial", "initGate", "send", "watch"},
                      NEW k \in Keys, Quiet(k, base)'
               PROVE  /\ Current(k)' = 0 => Absent(k)'
                      /\ Passes' /\ Current(k)' # 0 => Coming(k)'
    BY DEF LoadRight
  <2>2. PICK b \in 0..Len(log) : b = base /\ b = base'
    BY <1>1, <1>3
  <2>3. Quiet(k, b)'
    BY <2>2 DEF Quiet
  <2>4. Quiet(k, base) /\ Current(k)' = Current(k)
    BY <1>1, <2>2, <2>3, WriteOthers
  <2>5. /\ Current(k) = 0 => Absent(k)
        /\ Passes /\ Current(k) # 0 => Coming(k)
    BY <1>1, <2>4 DEF IInv, LoadRight, SeesAll
  <2>6. todo \subseteq DOMAIN log
    BY <1>1, <1>2, <1>3 DEF Revisions
  <2>7. Current(k) = 0 => Absent(k)'
    BY <1>1, <1>2, <2>5, <2>6 DEF Absent
  <2>8. ASSUME Passes, Current(k) # 0 PROVE Coming(k)'
    <3>1. Coming(k) /\ Current(k) \in DOMAIN log
      BY <1>1, <2>5, <2>8, CurrentIsLast
    <3>2. Event(Current(k))' = Event(Current(k))
      BY <1>2, <2>4, <3>1 DEF Event
    <3> QED
      BY <1>1, <2>4, <3>1, <3>2 DEF Coming
  <2> QED
    BY <1>1, <2>4, <2>7, <2>8 DEF Passes
<1>5. ViewRight'
  <2> SUFFICES ASSUME SeesAll', Watching', open',
                      NEW k \in Keys, Quiet(k, pos)', ~(InHand /\ cur.key = k)'
               PROVE  /\ Current(k)' = 0 => View(k)' = 0
                      /\ Passes' => View(k)' = Current(k)'
    BY DEF ViewRight
  <2>1. PICK b \in 0..Len(log) : b = pos /\ b = pos'
    BY <1>1, <1>3
  <2>2. Quiet(k, b)'
    BY <2>1 DEF Quiet
  <2>3. Quiet(k, pos) /\ Current(k)' = Current(k)
    BY <1>1, <2>1, <2>2, WriteOthers
  <2>4. View(k)' = View(k)
    BY <1>1 DEF View, LastOf
  <2>5. /\ Current(k) = 0 => View(k) = 0
        /\ Passes => View(k) = Current(k)
    BY <1>1, <2>3 DEF IInv, ViewRight, SeesAll, Watching, InHand
  <2> QED
    BY <1>1, <2>3, <2>4, <2>5 DEF Passes
<1> QED
  BY <1>4, <1>5

\* Nothing of what counts here changes, but that the sender may be closed.
LEMMA IdleRight ==
  ASSUME IInv, UNCHANGED <<config, log, pc, base, todo, events, pos, cur, out>>, open' => open
  PROVE  LoadRight' /\ ViewRight'
<1>1. \A k : Current(k)' = Current(k) /\ View(k)' = View(k)
  BY DEF Current, View, LastOf
<1>2. \A k : Quiet(k, base)' = Quiet(k, base) /\ Quiet(k, pos)' = Quiet(k, pos)
  BY DEF Quiet
<1>3. \A k : Absent(k)' = Absent(k) /\ Coming(k)' = Coming(k)
  BY <1>1 DEF Absent, Coming, Event
<1>4. LoadRight'
  BY <1>1, <1>2, <1>3 DEF IInv, LoadRight, SeesAll, Passes
<1>5. ViewRight'
  BY <1>1, <1>2 DEF IInv, ViewRight, SeesAll, Passes, Watching, InHand
<1> QED
  BY <1>4, <1>5

\* A step of the watcher does not change the keys.
LEMMA SameLog ==
  ASSUME UNCHANGED log
  PROVE  /\ \A k : Current(k)' = Current(k)
         /\ \A r : Event(r)' = Event(r)
         /\ \A k, p : Quiet(k, p)' <=> Quiet(k, p)
BY DEF Current, Event, Quiet

\* After the Get each key that exists is in one place, to be handled.
LEMMA LoadRightStep ==
  ASSUME IInv, Load
  PROVE  LoadRight' /\ ViewRight'
<1>1. /\ TypeOK /\ pc = "load" /\ pc' = "initial" /\ base' = Len(log)
      /\ todo' = IF config.types = "DELETE" THEN {} ELSE Existing
      /\ UNCHANGED <<config, log, events>> /\ events = <<>>
  BY DEF IInv, SafeInv, Load, etcd, Sent
<1>2. ViewRight'
  BY <1>1 DEF ViewRight, Watching
<1>3. ASSUME SeesAll', NEW k \in Keys
      PROVE  /\ Current(k)' = 0 => Absent(k)'
             /\ Current(k)' # 0 => Coming(k)'
  <2>1. todo' = Existing
    BY <1>1, <1>3 DEF SeesAll
  <2>2. Current(k)' = Current(k)
    BY <1>1, SameLog
  <2>3. ASSUME Current(k) = 0 PROVE Absent(k)'
    <3>1. \A r \in Existing : Current(log[r].key) = r /\ r # 0
      BY <1>1, ExistingKeys DEF Existing
    <3> QED
      BY <1>1, <2>1, <2>3, <3>1 DEF Absent
  <2>4. ASSUME Current(k) # 0 PROVE Coming(k)'
    BY <2>1, <2>2, <2>4 DEF Existing, Coming
  <2> QED
    BY <2>2, <2>3, <2>4
<1>4. LoadRight'
  BY <1>3 DEF LoadRight
<1> QED
  BY <1>2, <1>4

\* What the watcher is still to be right about when it handles the existing keys.
LEMMA InitialRight ==
  ASSUME IInv, pc \in {"initial", "initGate", "send", "watch"},
         pc' \in {"initial", "initGate", "send", "watch"},
         UNCHANGED <<config, log, base>>,
         \A k \in Keys : Absent(k) => Absent(k)',
         SeesAll /\ Passes => \A k \in Keys : Current(k) # 0 /\ Coming(k) => Coming(k)'
  PROVE  LoadRight' /\ ViewRight'
<1>1. ViewRight'
  BY DEF ViewRight, Watching
<1>2. \A k \in Keys : Current(k)' = Current(k) /\ (Quiet(k, base)' <=> Quiet(k, base))
  BY DEF Current, Quiet
<1>3. LoadRight'
  BY <1>2 DEF IInv, LoadRight, SeesAll, Passes
<1> QED
  BY <1>1, <1>3

\* It then is among the initial events, or in hand.
LEMMA LoadKvRight ==
  ASSUME IInv, NEW r \in todo, LoadKv(r)
  PROVE  LoadRight' /\ ViewRight'
<1>1. /\ TypeOK /\ Revisions /\ Accepted
      /\ pc = "initial" /\ todo' = todo \ {r}
      /\ \/ ~Accept(Event(r)) /\ UNCHANGED <<pc, events, cur>>
         \/ events' = Append(events, Event(r)) /\ UNCHANGED <<pc, cur>>
         \/ cur' = Event(r) /\ pc' = "initGate" /\ UNCHANGED events
      /\ UNCHANGED <<config, log, base>>
  BY DEF IInv, SafeInv, LoadKv, etcd
<1>2. r \in DOMAIN log /\ events \in Seq(Events)
  BY <1>1 DEF Revisions, TypeOK
<1>3. ASSUME NEW k \in Keys, Absent(k) PROVE Absent(k)'
  <2>1. Event(r).key # k
    BY <1>3 DEF Absent, Event
  <2>2. \A i \in DOMAIN events' : events'[i].key # k
    BY <1>1, <1>2, <1>3, <2>1 DEF Absent
  <2> QED
    BY <1>1, <1>3, <2>1, <2>2 DEF Absent
<1>4. ASSUME Passes, NEW k \in Keys, Current(k) # 0, Coming(k) PROVE Coming(k)'
  <2>1. Accept(Event(r))
    BY <1>1, <1>2, <1>4 DEF Passes, Accepted, Accept, Event
  <2>2. Current(k)' = Current(k) /\ Event(Current(k))' = Event(Current(k))
    BY <1>1, SameLog
  <2>3. CASE Current(k) \in todo /\ Current(k) # r
    BY <1>1, <2>2, <2>3 DEF Coming
  <2>4. CASE Current(k) = r
    <3>1. CASE events' = Append(events, Event(r))
      <4>1. Len(events) + 1 \in DOMAIN events' /\ events'[Len(events) + 1] = Event(r)
        BY <1>2, <3>1
      <4> QED
        BY <2>2, <2>4, <4>1 DEF Coming
    <3>2. CASE cur' = Event(r) /\ pc' = "initGate"
      BY <2>2, <2>4, <3>2 DEF Coming
    <3> QED
      BY <1>1, <2>1, <3>1, <3>2
  <2>5. CASE \E i \in DOMAIN events : events[i] = Event(Current(k))
    <3>1. PICK i \in DOMAIN events : events[i] = Event(Current(k))
      BY <2>5
    <3>2. i \in DOMAIN events' /\ events'[i] = events[i]
      BY <1>1, <1>2
    <3> QED
      BY <2>2, <3>1, <3>2 DEF Coming
  <2> QED
    BY <1>1, <1>4, <2>3, <2>4, <2>5 DEF Coming
<1> QED
  BY <1>1, <1>3, <1>4, InitialRight

\* The gate keeps the key among the initial events, or its newer value is not accepted.
LEMMA InitGateRight ==
  ASSUME IInv, NEW answer \in Answers, InitGate(answer)
  PROVE  LoadRight' /\ ViewRight'
<1>1. /\ TypeOK /\ Revisions /\ Accepted /\ Puts
      /\ pc = "initGate" /\ pc' = "initial"
      /\ events' = events \o SetToSeq(Gated(answer))
      /\ UNCHANGED <<config, log, base, todo>>
  BY DEF IInv, SafeInv, InitGate, etcd
<1>2. cur \in Events /\ Logged(cur) /\ events \in Seq(Events)
  BY <1>1 DEF Revisions, InHand, TypeOK
<1>3. CASE Gated(answer) = {}
  <2>1. events' = events
    BY <1>1, <1>2, <1>3, SetToSeqSmall
  <2>2. \A k \in Keys : Absent(k) => Absent(k)'
    BY <1>1, <2>1 DEF Absent
  <2>3. ASSUME Passes, NEW k \in Keys, Current(k) # 0, Coming(k) PROVE Coming(k)'
    <3>1. Current(k)' = Current(k) /\ Event(Current(k))' = Event(Current(k))
      BY <1>1, SameLog
    <3>2. /\ Current(k) \in DOMAIN log /\ log[Current(k)].key = k
      BY <1>1, <2>3, CurrentIsLast
    <3>3. answer \in {"none", "met"}
      BY <1>1, <2>3 DEF Answers, Passes, Puts
    <3>4. Current(cur.key) = 0 \/ ~log[Current(cur.key)].accepted
      BY <1>1, <1>2, <1>3, <3>3, GatedIs
    <3>5. log[Current(k)].accepted
      BY <1>1, <2>3, <3>2 DEF Passes, Accepted
    <3>6. cur # Event(Current(k))
      BY <2>3, <3>2, <3>4, <3>5 DEF Event
    <3> QED
      BY <1>1, <2>1, <2>3, <3>1, <3>6 DEF Coming
  <2> QED
    BY <1>1, <2>2, <2>3, InitialRight
<1>4. CASE Gated(answer) # {}
  <2>1. PICK e \in Events : /\ Gated(answer) = {e} /\ Logged(e) /\ e.key = cur.key
                            /\ e = cur \/ (e = Event(Current(cur.key)) /\ Current(cur.key) # 0)
    BY <1>1, <1>2, <1>4, GatedIs
  <2>2. events' = Append(events, e)
    <3>1. SetToSeq({e}) = <<e>>
      BY SetToSeqSmall
    <3>2. events \o <<e>> = Append(events, e)
      BY <1>2
    <3> QED
      BY <1>1, <2>1, <3>1, <3>2
  <2>3. /\ DOMAIN events' = DOMAIN events \cup {Len(events) + 1}
        /\ events'[Len(events) + 1] = e
        /\ \A i \in DOMAIN events : events'[i] = events[i]
    BY <1>2, <2>2
  <2>4. ASSUME NEW k \in Keys, Absent(k) PROVE Absent(k)'
    BY <1>1, <2>1, <2>3, <2>4 DEF Absent
  <2>5. ASSUME Passes, NEW k \in Keys, Current(k) # 0, Coming(k) PROVE Coming(k)'
    <3>1. Current(k)' = Current(k) /\ Event(Current(k))' = Event(Current(k))
      BY <1>1, SameLog
    <3>2. log[Current(k)].key = k
      BY <1>1, <2>5, CurrentIsLast
    <3>3. cur = Event(Current(k)) => e = Event(Current(k))
      BY <2>1, <3>2 DEF Event
    <3> QED
      BY <1>1, <2>3, <2>5, <3>1, <3>3 DEF Coming
  <2> QED
    BY <1>1, <2>4, <2>5, InitialRight
<1> QED
  BY <1>3, <1>4

\* Sending the initial events tells of all of them.
LEMMA SendRight ==
  ASSUME IInv, Loaded \/ SendInitial
  PROVE  LoadRight' /\ ViewRight'
<1>1. /\ pc \in {"initial", "send"} /\ pc' \in {"send", "watch"}
      /\ UNCHANGED <<config, log, base, todo, events>>
  BY DEF Loaded, SendInitial, etcd
<1>2. \A k \in Keys : Absent(k) => Absent(k)'
  BY <1>1 DEF Absent
<1>3. \A k \in Keys : Coming(k) => Coming(k)'
  BY <1>1, SameLog DEF Coming
<1> QED
  BY <1>1, <1>2, <1>3, InitialRight

\* At the start of the watch the consumer knows every key not changed since the Get.
LEMMA StartWatchRight ==
  ASSUME IInv, StartWatch
  PROVE  LoadRight' /\ ViewRight'
<1>1. /\ SafeInv /\ TypeOK /\ OnePlace /\ Puts
      /\ pc = "watch" /\ pc' = "watching" /\ todo = {} /\ pos' = base
      /\ UNCHANGED <<config, log, open, out>>
      /\ LoadRight
  BY DEF IInv, SafeInv, StartWatch, etcd, Sent, WatchAfter
<1>2. LoadRight'
  BY <1>1 DEF LoadRight
<1>3. ViewRight'
  <2> SUFFICES ASSUME SeesAll', open', NEW k \in Keys, Quiet(k, pos)'
               PROVE  /\ Current(k)' = 0 => View(k)' = 0
                      /\ Passes' => View(k)' = Current(k)'
    BY DEF ViewRight
  <2>1. Current(k)' = Current(k) /\ View(k)' = View(k) /\ Quiet(k, base)
    BY <1>1 DEF Current, View, LastOf, Quiet
  <2>2. SeesAll /\ open
    BY <1>1 DEF SeesAll
  <2>3. /\ Current(k) = 0 => Absent(k)
        /\ Passes /\ Current(k) # 0 => Coming(k)
    BY <1>1, <2>1, <2>2 DEF LoadRight
  <2>4. /\ out \in Seq(Events \cup {Failure}) /\ events \in Seq(Events)
        /\ Len(out) = Len(events) /\ \A i \in DOMAIN out : out[i] = events[i]
    BY <1>1, <2>2 DEF SafeInv, TypeOK, Sent
  <2>5. DOMAIN out = DOMAIN events /\ \A i \in DOMAIN out : out[i] = events[i]
    BY <2>4
  <2>6. \A i, j \in DOMAIN out : out[i].key = out[j].key => i = j
    BY <1>1, <2>5 DEF OnePlace
  <2>7. ASSUME Current(k) = 0 PROVE View(k) = 0
    <3>1. \A i \in DOMAIN out : out[i].key # k
      BY <2>3, <2>5, <2>7 DEF Absent
    <3> QED
      BY <2>4, <2>6, <3>1, ViewOfOnce
  <2>8. ASSUME Passes, Current(k) # 0 PROVE View(k) = Current(k)
    <3>1. log[Current(k)].key = k
      BY <1>1, <2>8, CurrentIsLast
    <3>2. PICK i \in DOMAIN events : events[i] = Event(Current(k))
      BY <1>1, <2>3, <2>8 DEF Coming
    <3>3. out[i].key = k /\ out[i].type = "PUT" /\ out[i].rev = Current(k)
      BY <1>1, <2>5, <3>1, <3>2 DEF Event, Puts
    <3> QED
      BY <2>4, <2>5, <2>6, <3>3, ViewOfOnce
  <2> QED
    BY <1>1, <2>1, <2>7, <2>8 DEF Passes
<1> QED
  BY <1>2, <1>3

\* A key whose last change has come is in hand, or need not be told of.
LEMMA ReceiveRight ==
  ASSUME IInv, Receive
  PROVE  LoadRight' /\ ViewRight'
<1> DEFINE e == Event(pos + 1)
<1>1. /\ TypeOK /\ Revisions /\ Accepted /\ ViewRight
      /\ pc = "watching" /\ pos < Len(log) /\ pos' = pos + 1
      /\ IF config.types \in {"ALL", e.type} /\ Accept(e)
         THEN cur' = e /\ pc' \in {"gate", "emit"}
         ELSE UNCHANGED <<cur, pc>>
      /\ UNCHANGED <<config, log, open, out>>
  BY DEF IInv, SafeInv, Receive, etcd
<1>2. pos + 1 \in DOMAIN log /\ log[pos + 1] \in Change /\ e.key = log[pos + 1].key
  BY <1>1 DEF TypeOK, Event
<1>3. LoadRight'
  BY <1>1 DEF LoadRight
<1>4. ViewRight'
  <2> SUFFICES ASSUME SeesAll', open', NEW k \in Keys, Quiet(k, pos)', ~(InHand /\ cur.key = k)'
               PROVE  /\ Current(k)' = 0 => View(k)' = 0
                      /\ Passes' => View(k)' = Current(k)'
    BY DEF ViewRight
  <2>1. Current(k)' = Current(k) /\ View(k)' = View(k) /\ Quiet(k, pos + 1)
    BY <1>1 DEF Current, View, LastOf, Quiet
  <2>2. SeesAll /\ open
    BY <1>1 DEF SeesAll
  <2>3. CASE e.key # k
    <3>1. Quiet(k, pos)
      BY <1>1, <1>2, <2>1, <2>3 DEF Quiet, TypeOK
    <3>2. ~InHand /\ Watching
      BY <1>1 DEF InHand, Watching
    <3> QED
      BY <1>1, <2>1, <2>2, <3>1, <3>2 DEF ViewRight, Passes
  <2>4. CASE e.key = k
    <3>1. ~Accept(e)
      BY <1>1, <2>2, <2>4 DEF InHand, SeesAll
    <3>2. log[pos + 1].type = "PUT" /\ config.filter
      BY <1>1, <1>2, <2>1, <3>1, ConstantsAssumption
         DEF Accept, Accepted, Change, Event, TypeOK, Configs
    <3>3. Current(k) = pos + 1 /\ pos + 1 # 0
      BY <1>1, <1>2, <2>1, <2>4, <3>2, LastIsCurrent DEF TypeOK
    <3> QED
      BY <1>1, <2>1, <3>2, <3>3 DEF Passes
  <2> QED
    BY <2>3, <2>4
<1> QED
  BY <1>3, <1>4

\* The event in hand is the last of a key that is not changed after pos.
LEMMA InHandIsLast ==
  ASSUME SafeInv, pc \in {"gate", "emit"}, Quiet(cur.key, pos)
  PROVE  cur.rev = pos /\ Current(cur.key) = IF cur.type = "PUT" THEN cur.rev ELSE 0
<1>1. TypeOK /\ cur \in Events /\ Logged(cur) /\ pos <= cur.rev /\ pos \in Nat
  BY DEF SafeInv, TypeOK, Revisions, InHand, InTime
<1>2. cur.rev \in 1..Len(log) /\ cur.key = log[cur.rev].key /\ cur.type = log[cur.rev].type
  BY <1>1 DEF Logged, Event, TypeOK
<1>3. cur.rev = pos
  BY <1>1, <1>2 DEF Quiet
<1> QED
  BY <1>1, <1>2, <1>3, LastIsCurrent DEF Logged

\* The gate leaves in hand what the key now has, or that is not accepted.
LEMMA GateRight ==
  ASSUME IInv, NEW answer \in Answers, Gate(answer)
  PROVE  LoadRight' /\ ViewRight'
<1>1. /\ SafeInv /\ TypeOK /\ Revisions /\ Accepted /\ Puts /\ ViewRight
      /\ pc = "gate"
      /\ IF Gated(answer) = {} THEN cur' = <<>> /\ pc' = "watching"
         ELSE cur' \in Gated(answer) /\ pc' = "emit"
      /\ UNCHANGED <<config, log, pos, open, out>>
  BY DEF IInv, SafeInv, Gate, etcd
<1>2. cur \in Events /\ Logged(cur) /\ cur.type = "PUT" /\ config.gate # "off"
  BY <1>1 DEF Revisions, InHand, Puts
<1>3. LoadRight'
  BY <1>1 DEF LoadRight
<1>4. ViewRight'
  <2> SUFFICES ASSUME SeesAll', open', NEW k \in Keys, Quiet(k, pos)', ~(InHand /\ cur.key = k)'
               PROVE  /\ Current(k)' = 0 => View(k)' = 0
                      /\ Passes' => View(k)' = Current(k)'
    BY DEF ViewRight
  <2>1. Current(k)' = Current(k) /\ View(k)' = View(k) /\ Quiet(k, pos)
    BY <1>1 DEF Current, View, LastOf, Quiet
  <2>2. SeesAll /\ open
    BY <1>1 DEF SeesAll
  <2>3. CASE cur.key # k
    BY <1>1, <2>1, <2>2, <2>3 DEF ViewRight, Passes, Watching
  <2>4. CASE cur.key = k
    <3>1. Gated(answer) = {}
      <4>1. \A e \in Gated(answer) : e.key = k
        BY <1>1, <1>2, <2>4, GatedIs
      <4> QED
        BY <1>1, <4>1 DEF InHand
    <3>2. Current(k) = cur.rev /\ cur.rev # 0 /\ cur.rev \in DOMAIN log
      BY <1>1, <1>2, <2>1, <2>4, InHandIsLast DEF Events, Logged
    <3>3. ~Passes
      <4>1. SUFFICES ASSUME Passes PROVE FALSE
        OBVIOUS
      <4>2. answer \in {"none", "met"}
        BY <1>2, <4>1 DEF Answers, Passes
      <4>3. log[cur.rev].accepted
        BY <1>1, <3>2, <4>1 DEF Accepted, Passes
      <4> QED
        BY <1>1, <1>2, <2>4, <3>1, <3>2, <4>2, <4>3, GatedIs
    <3> QED
      BY <1>1, <2>1, <3>2, <3>3 DEF Passes
  <2> QED
    BY <2>3, <2>4
<1> QED
  BY <1>3, <1>4

\* What is told last of a key is what it has, if it does not change later.
LEMMA EmitRight ==
  ASSUME IInv, Emit
  PROVE  LoadRight' /\ ViewRight'
<1>1. /\ SafeInv /\ TypeOK /\ Revisions /\ ViewRight
      /\ pc = "emit" /\ pc' = "watching"
      /\ UNCHANGED <<config, log, pos, open>>
  BY DEF IInv, SafeInv, Emit, etcd
<1>2. cur \in Events /\ out \in Seq(Events \cup {Failure})
  BY <1>1 DEF Revisions, InHand, TypeOK
<1>3. LoadRight'
  BY <1>1 DEF LoadRight
<1>4. ViewRight'
  <2> SUFFICES ASSUME SeesAll', open', NEW k \in Keys, Quiet(k, pos)'
               PROVE  /\ Current(k)' = 0 => View(k)' = 0
                      /\ Passes' => View(k)' = Current(k)'
    BY DEF ViewRight
  <2>1. Current(k)' = Current(k) /\ Quiet(k, pos)
    BY <1>1 DEF Current, LastOf, Quiet
  <2>2. SeesAll /\ open
    BY <1>1 DEF SeesAll
  <2>3. out' = Append(out, cur)
    BY <1>1, <2>2 DEF Emit, Send, SafeInv, Emitted, SeesAll
  <2>4. View(k)' = IF cur.key # k THEN View(k) ELSE IF cur.type = "PUT" THEN cur.rev ELSE 0
    BY <1>2, <2>3, ViewAppend
  <2>5. CASE cur.key # k
    BY <1>1, <2>1, <2>2, <2>4, <2>5 DEF ViewRight, Passes, Watching
  <2>6. CASE cur.key = k
    BY <1>1, <2>1, <2>4, <2>6, InHandIsLast
  <2> QED
    BY <2>5, <2>6
<1> QED
  BY <1>3, <1>4

\* At first there is no key.
LEMMA InitRight == Init => LoadRight /\ ViewRight
BY DEF Init, LoadRight, ViewRight, Watching

\* Every step.
LEMMA NextRight == IInv /\ [Next]_vars => IInv'
<1> SUFFICES ASSUME IInv, [Next]_vars PROVE IInv'
  OBVIOUS
<1> SUFFICES LoadRight' /\ ViewRight'
  BY SafeNext DEF IInv
<1>0. ASSUME pc' = "closed" PROVE LoadRight' /\ ViewRight'
  BY <1>0 DEF LoadRight, ViewRight, Watching
<1>1. ASSUME NEW k \in Keys, NEW type \in {"PUT", "DELETE"}, NEW a \in Accepts, Write(k, type, a)
      PROVE  LoadRight' /\ ViewRight'
  BY <1>1, WriteRight
<1>2. CASE Compact \/ Stop \/ ParentEnds
  BY <1>2, IdleRight DEF Compact, Stop, ParentEnds, etcd
<1>3. CASE Load
  BY <1>3, LoadRightStep
<1>4. ASSUME NEW r \in todo, LoadKv(r) PROVE LoadRight' /\ ViewRight'
  BY <1>4, LoadKvRight
<1>5. ASSUME NEW answer \in Answers, InitGate(answer) PROVE LoadRight' /\ ViewRight'
  BY <1>5, InitGateRight
<1>6. ASSUME NEW answer \in Answers, Gate(answer) PROVE LoadRight' /\ ViewRight'
  BY <1>6, GateRight
<1>7. CASE Loaded \/ SendInitial
  BY <1>7, SendRight
<1>8. CASE StopAfterLoad \/ Compacted \/ Stopped \/ Fails
  BY <1>0, <1>8 DEF StopAfterLoad, Compacted, Stopped, Fails, Close
<1>9. CASE StartWatch
  BY <1>9, StartWatchRight
<1>10. CASE Receive
  BY <1>10, ReceiveRight
<1>11. CASE Emit
  BY <1>11, EmitRight
<1>12. CASE UNCHANGED vars
  BY <1>12, IdleRight DEF vars, etcd
<1> QED
  BY <1>1, <1>2, <1>3, <1>4, <1>5, <1>6, <1>7, <1>8, <1>9, <1>10, <1>11, <1>12
     DEF Next, Watcher

\* A consumer that has caught up knows what etcd has: no change falls between the Get and
\* the watch, and neither a newer value read by the gate nor one that it refuses leaves
\* the consumer with a key that is gone, or, where all is let through, with another value.
THEOREM ConsumerKnows == Spec => []ViewIsStore
<1>1. IInv => ViewIsStore
  <2> SUFFICES ASSUME IInv, CaughtUp, SeesAll, NEW k \in Keys
               PROVE  /\ Current(k) = 0 => View(k) = 0
                      /\ Passes => View(k) = Current(k)
    BY DEF ViewIsStore, SeesEverything, DeletedIsGone, Passes
  <2>1. pc = "watching" /\ open /\ pos = Len(log) /\ Len(log) \in Nat
    BY DEF CaughtUp, IInv, SafeInv, TypeOK
  <2>2. Quiet(k, pos)
    BY <2>1 DEF Quiet
  <2> QED
    BY <2>1, <2>2 DEF IInv, ViewRight, Watching, InHand
<1>2. Init => IInv
  BY SafeInit, InitRight DEF IInv
<1> QED
  BY <1>1, <1>2, NextRight, PTL DEF Spec

-----------------------------------------------------------------------------
(***************************************************************************)
(* RetryableHTTP. Whatever the retries, each attempt has been given all of  *)
(* the body: what it left unread is restored before the next. The answers   *)
(* behind the last one were to be retried and are closed, so only the last  *)
(* can be open.                                                             *)
(***************************************************************************)
CONSTANTS MaxRetries, Body, None, MaxAttempts
VARIABLES MaxRetry, bodyBytes, attempt, reqBody, responses, ctx

Http == INSTANCE RetryableHTTP

Statuses == {"2xx", "4xx", "429", "5xx", "error"}
Responses == [status : Statuses, open : BOOLEAN, sent : Body]

HttpTypes == /\ MaxRetry \in Int /\ bodyBytes \in Body
             /\ responses \in Seq(Responses) /\ attempt = Len(responses)
             /\ pc \in {"attempt", "retry", "wait", "return"}
             /\ ctx \in BOOLEAN

\* A request without a body never gets one, and each attempt was given all of the body.
BodyWhole == /\ bodyBytes = None => reqBody = None
             /\ \A i \in DOMAIN responses : responses[i].sent = bodyBytes

\* Before an attempt there is one left.
TriesKept == MaxRetry >= 0 =>
               /\ attempt <= MaxRetry + 1
               /\ pc \in {"attempt", "wait"} => attempt <= MaxRetry

\* Only an answer to be retried leads on, and it is closed before the wait.
ClosedBefore ==
  /\ \A i \in DOMAIN responses :
        i < Len(responses) => ~responses[i].open /\ Http!BaseRetryStrategy(responses[i].status)
  /\ pc = "retry" => responses # <<>>
  /\ pc # "return" /\ responses # <<>> => Http!BaseRetryStrategy(responses[Len(responses)].status)
  /\ pc \in {"wait", "attempt"} /\ responses # <<>> => ~responses[Len(responses)].open

HttpInv == HttpTypes /\ BodyWhole /\ TriesKept /\ ClosedBefore

\* Do reads the body to its end before the first attempt.
LEMMA HttpInit == ASSUME MaxRetries \subseteq Int, Http!Init PROVE HttpInv
BY DEF Http!Init, Http!Rest, HttpInv, HttpTypes, BodyWhole, TriesKept, ClosedBefore

\* An attempt puts its answer behind the others, which are closed.
LEMMA HttpSend == ASSUME HttpInv, Http!Send PROVE HttpInv'
<1>1. HttpTypes /\ BodyWhole /\ TriesKept /\ ClosedBefore
  BY DEF HttpInv
<1>2. PICK status \in Statuses :
        /\ responses' = Append(responses, [status |-> status, open |-> status # "error",
                                           sent |-> Http!ResetBody])
        /\ pc' = IF Http!BaseRetryStrategy(status) THEN "retry" ELSE "return"
  BY DEF Http!Send, Statuses
<1>3. /\ pc = "attempt" /\ attempt' = attempt + 1 /\ reqBody' = Http!Rest(Http!ResetBody)
      /\ UNCHANGED <<MaxRetry, bodyBytes, ctx>>
  BY DEF Http!Send
<1>4. Http!ResetBody = bodyBytes
  BY <1>1 DEF Http!ResetBody, BodyWhole
<1> DEFINE answer == [status |-> status, open |-> status # "error", sent |-> bodyBytes]
<1>5. answer \in Responses /\ answer.status = status /\ answer.sent = bodyBytes
  BY <1>1 DEF Responses, HttpTypes
<1>6. responses' = Append(responses, answer)
  BY <1>2, <1>4
<1> HIDE DEF answer
<1>7. /\ responses' \in Seq(Responses) /\ Len(responses') = Len(responses) + 1
      /\ responses' # <<>>
      /\ responses'[Len(responses')] = answer
      /\ \A i \in 1..Len(responses) : responses'[i] = responses[i]
  BY <1>1, <1>5, <1>6 DEF HttpTypes
<1>8. HttpTypes'
  BY <1>1, <1>2, <1>3, <1>7 DEF HttpTypes
<1>9. BodyWhole'
  BY <1>1, <1>3, <1>4, <1>5, <1>7 DEF HttpTypes, BodyWhole, Http!Rest
<1>10. TriesKept'
  BY <1>1, <1>2, <1>3, <1>7 DEF HttpTypes, TriesKept
<1>11. ClosedBefore'
  <2>1. ASSUME NEW i \in DOMAIN responses', i < Len(responses')
        PROVE  ~responses'[i].open /\ Http!BaseRetryStrategy(responses'[i].status)
    <3>1. i \in 1..Len(responses) /\ responses'[i] = responses[i]
      BY <1>1, <1>7, <2>1 DEF HttpTypes
    <3> QED
      BY <1>1, <1>3, <3>1 DEF ClosedBefore, HttpTypes
  <2>2. pc' # "return" => pc' = "retry" /\ Http!BaseRetryStrategy(status)
    BY <1>2
  <2> QED
    BY <1>5, <1>7, <2>1, <2>2 DEF ClosedBefore
<1> QED
  BY <1>8, <1>9, <1>10, <1>11 DEF HttpInv

\* The notification closes the newest answer and leaves the others.
LEMMA HttpNotify == ASSUME HttpInv, Http!Notify PROVE HttpInv'
<1>1. HttpTypes /\ BodyWhole /\ TriesKept /\ ClosedBefore
  BY DEF HttpInv
<1>2. /\ pc = "retry" /\ pc' = "wait" /\ Http!TriesLeft
      /\ responses' = [responses EXCEPT ![Len(responses)].open = FALSE]
      /\ UNCHANGED <<MaxRetry, bodyBytes, attempt, reqBody, ctx>>
  BY DEF Http!Notify, Http!Newest
<1>3. Len(responses) \in DOMAIN responses /\ responses # <<>>
  BY <1>1, <1>2 DEF HttpTypes, ClosedBefore
<1> DEFINE closed == [responses[Len(responses)] EXCEPT !.open = FALSE]
<1>3a. responses[Len(responses)] \in Responses
  BY <1>1, <1>3 DEF HttpTypes
<1>3b. /\ closed \in Responses /\ ~closed.open
      /\ closed.sent = responses[Len(responses)].sent
      /\ closed.status = responses[Len(responses)].status
  BY <1>3a DEF Responses
<1>3c. responses' = [responses EXCEPT ![Len(responses)] = closed]
  BY <1>2
<1> HIDE DEF closed
<1>4. /\ responses' \in Seq(Responses) /\ Len(responses') = Len(responses)
      /\ DOMAIN responses' = DOMAIN responses
  BY <1>1, <1>3, <1>3b, <1>3c DEF HttpTypes
<1>5. /\ \A i \in DOMAIN responses : i < Len(responses) => responses'[i] = responses[i]
      /\ \A i \in DOMAIN responses :
            responses'[i].sent = responses[i].sent /\ responses'[i].status = responses[i].status
      /\ ~responses'[Len(responses)].open
  BY <1>1, <1>3, <1>3b, <1>3c DEF HttpTypes
<1>6. HttpTypes' /\ BodyWhole'
  BY <1>1, <1>2, <1>4, <1>5 DEF HttpTypes, BodyWhole
<1>7. TriesKept'
  BY <1>1, <1>2 DEF HttpTypes, TriesKept, Http!TriesLeft, Http!maxTries
<1>8. ClosedBefore'
  BY <1>1, <1>2, <1>3, <1>4, <1>5 DEF ClosedBefore, HttpTypes
<1> QED
  BY <1>6, <1>7, <1>8 DEF HttpInv

\* The other steps leave the answers alone.
LEMMA HttpOther ==
  ASSUME HttpInv, Http!EndRetry \/ Http!Wait \/ Http!CtxEnds \/ UNCHANGED Http!vars
  PROVE  HttpInv'
<1>1. HttpTypes /\ BodyWhole /\ TriesKept /\ ClosedBefore
  BY DEF HttpInv
<1>2. /\ UNCHANGED <<MaxRetry, bodyBytes, attempt, reqBody, responses>>
      /\ ctx' \in BOOLEAN
      /\ pc' \in {pc, "return"} \/ (pc = "wait" /\ pc' = "attempt")
  BY <1>1 DEF Http!EndRetry, Http!Wait, Http!CtxEnds, Http!vars, HttpTypes
<1>3. HttpTypes'
  BY <1>1, <1>2 DEF HttpTypes
<1>4. BodyWhole' /\ TriesKept' /\ ClosedBefore'
  BY <1>1, <1>2 DEF BodyWhole, TriesKept, ClosedBefore
<1> QED
  BY <1>3, <1>4 DEF HttpInv

\* However often it is tried, and however Do ends: each attempt sends the whole body, all
\* answers but the last are closed and were to be retried, and there is at most one attempt
\* more than MaxRetry.
THEOREM AttemptsRight ==
  ASSUME MaxRetries \subseteq Int
  PROVE  Http!Spec => []Http!AttemptsAreRight
<1>1. Http!Init => HttpInv
  BY HttpInit
<1>2. HttpInv /\ [Http!Next]_(Http!vars) => HttpInv'
  BY HttpSend, HttpNotify, HttpOther DEF Http!Next
<1>3. HttpInv => Http!AttemptsAreRight
  BY DEF HttpInv, HttpTypes, BodyWhole, TriesKept, ClosedBefore, Http!AttemptsAreRight, Http!Newest
<1> QED
  BY <1>1, <1>2, <1>3, PTL DEF Http!Spec

-----------------------------------------------------------------------------
(***************************************************************************)
(* SftpManager. A copy is the chunks that were sent, in order, of the file  *)
(* it began with; a lost connection or a second attempt begins it again     *)
(* from nothing. So an operation that returns nil has done what it is for.  *)
(***************************************************************************)
CONSTANTS LocalFile, RemoteFile, MaxCalls, Chunks
VARIABLES retryOnIdleConnection, local, remote, connected, op, sent, tries, err, calls

Sftp == INSTANCE SftpManager

\* Files are sequences of chunks.
SftpConstants == /\ LocalFile \cup RemoteFile \subseteq Seq(Chunks) \cup {None}
                 /\ None \notin Seq(Chunks)

SftpTypes == /\ local \in Seq(Chunks) \cup {None} /\ remote \in Seq(Chunks) \cup {None}
             /\ retryOnIdleConnection \in BOOLEAN /\ sent \in Nat /\ tries \in Nat
             /\ pc \in {"idle", "mkdir", "open", "copy", "remove", "closed", "failed"}

\* An error ends an attempt; what gets on has a connection, and no more than one attempt
\* is made again.
Attempts == /\ pc \in {"mkdir", "open", "copy", "remove", "closed"} => err = "nil"
            /\ pc \in {"copy", "closed"} => connected
            /\ tries <= IF retryOnIdleConnection THEN 2 ELSE 1

\* Each operation has its own requests, which begin with nothing copied.
Requests == /\ pc # "idle" => op \in {"upload", "download", "delete"}
            /\ pc = "mkdir" => op = "upload"
            /\ pc = "remove" => op = "delete"
            /\ pc \in {"open", "copy"} => op \in {"upload", "download"}
            /\ pc \in {"mkdir", "open"} => sent = 0

\* The first n chunks, and no more, have been copied.
CopiedUpTo(n, from, to) == /\ from \in Seq(Chunks) /\ to \in Seq(Chunks)
                           /\ Len(to) = n /\ n <= Len(from)
                           /\ \A i \in 1..n : to[i] = from[i]

\* A copy has the beginning of the file, also when it is the second one.
Copies == /\ pc = "open" /\ op = "upload" => local # None
          /\ pc = "copy" /\ op = "upload" => CopiedUpTo(sent, local, remote)
          /\ pc = "copy" /\ op = "download" => CopiedUpTo(sent, remote, local)
          /\ pc = "closed" => IF op = "delete" THEN remote = None ELSE remote = local

SftpInv == SftpTypes /\ Attempts /\ Requests /\ Copies

\* Nothing copied, all of it copied, and one chunk more.
LEMMA NothingCopied == ASSUME NEW f \in Seq(Chunks) PROVE CopiedUpTo(0, f, <<>>)
BY DEF CopiedUpTo

\* What has been copied up to its end is the same file.
LEMMA AllCopied ==
  ASSUME NEW f, NEW g, CopiedUpTo(Len(f), f, g)
  PROVE  f = g
BY DEF CopiedUpTo

\* The manager begins with no operation.
LEMMA SftpInit == ASSUME SftpConstants, Sftp!Init PROVE SftpInv
BY DEF SftpConstants, Sftp!Init, SftpInv, SftpTypes, Attempts, Requests, Copies

\* Beginning, ending and repeating an operation, and losing a connection in between.
LEMMA SftpCalls ==
  ASSUME SftpInv,
         Sftp!Call \/ Sftp!Reset \/ Sftp!Return \/ Sftp!ConnectionLost \/ UNCHANGED Sftp!vars
  PROVE  SftpInv'
<1>1. SftpTypes /\ Attempts /\ Requests /\ Copies
  BY DEF SftpInv
<1>2. CASE Sftp!Call
  BY <1>1, <1>2 DEF Sftp!Call, Sftp!First, SftpInv, SftpTypes, Attempts, Requests, Copies
<1>3. CASE Sftp!Reset
  BY <1>1, <1>3 DEF Sftp!Reset, Sftp!Retried, Sftp!First, SftpInv, SftpTypes, Attempts, Requests, Copies
<1>4. CASE Sftp!Return
  BY <1>1, <1>4 DEF Sftp!Return, SftpInv, SftpTypes, Attempts, Requests, Copies
<1>5. CASE Sftp!ConnectionLost
  BY <1>1, <1>5 DEF Sftp!ConnectionLost, SftpInv, SftpTypes, Attempts, Requests, Copies
<1>6. CASE UNCHANGED Sftp!vars
  BY <1>1, <1>6 DEF Sftp!vars, SftpInv, SftpTypes, Attempts, Requests, Copies, CopiedUpTo
<1> QED
  BY <1>2, <1>3, <1>4, <1>5, <1>6

\* A request that is not done and answered ends the attempt with an error.
LEMMA RequestFails ==
  ASSUME SftpInv, Sftp!Unchanged, pc # "idle", pc' = "failed",
         sent' = sent, local' \in Seq(Chunks) \cup {None}, remote' \in Seq(Chunks) \cup {None}
  PROVE  SftpInv'
BY DEF SftpInv, SftpTypes, Attempts, Requests, Copies, Sftp!Unchanged

\* Upload.
LEMMA SftpUpload ==
  ASSUME SftpConstants, SftpInv, Sftp!Mkdir \/ Sftp!OpenToWrite \/ Sftp!CopyUp
  PROVE  SftpInv'
<1>1. SftpTypes /\ Attempts /\ Requests /\ Copies
  BY DEF SftpInv
<1>2. CASE Sftp!Mkdir
  <2>1. pc = "mkdir" /\ Sftp!Unchanged /\ UNCHANGED <<local, remote>> /\ sent' = sent
    BY <1>2 DEF Sftp!Mkdir, Sftp!Request, Sftp!Fail
  <2>2. CASE pc' = "failed"
    BY <1>1, <2>1, <2>2, RequestFails DEF SftpTypes
  <2>3. CASE pc' = "open" /\ local # None /\ UNCHANGED <<connected, err>>
    BY <1>1, <2>1, <2>3 DEF Sftp!Unchanged, SftpInv, SftpTypes, Attempts, Requests, Copies
  <2> QED
    BY <1>2, <2>2, <2>3 DEF Sftp!Mkdir, Sftp!Request, Sftp!Fail
<1>3. CASE Sftp!OpenToWrite
  <2>1. /\ pc = "open" /\ op = "upload" /\ Sftp!Unchanged /\ UNCHANGED local /\ sent' = sent
        /\ remote' \in {remote, <<>>}
    BY <1>3 DEF Sftp!OpenToWrite, Sftp!Request, Sftp!Fail, Sftp!Truncated
  <2>2. CASE pc' = "failed"
    <3>0. <<>> \in Seq(Chunks)
      OBVIOUS
    <3>1. remote' \in Seq(Chunks) \cup {None}
      BY <1>1, <2>1, <3>0 DEF SftpTypes
    <3> QED
      BY <1>1, <2>1, <2>2, <3>1, RequestFails DEF SftpTypes
  <2>3. CASE pc' = "copy" /\ connected /\ remote' = <<>> /\ UNCHANGED <<connected, err>>
    <3>1. CopiedUpTo(0, local, <<>>) /\ sent = 0 /\ <<>> \in Seq(Chunks)
      BY <1>1, <2>1, NothingCopied DEF Copies, Requests, SftpTypes
    <3> QED
      BY <1>1, <2>1, <2>3, <3>1 DEF Sftp!Unchanged, SftpInv, SftpTypes, Attempts, Requests, Copies
  <2> QED
    BY <1>3, <2>2, <2>3 DEF Sftp!OpenToWrite, Sftp!Request, Sftp!Fail, Sftp!Truncated
<1>4. CASE Sftp!CopyUp
  <2>1. /\ pc = "copy" /\ op = "upload" /\ Sftp!Unchanged /\ UNCHANGED local
        /\ CopiedUpTo(sent, local, remote)
    BY <1>1, <1>4 DEF Sftp!CopyUp, Copies
  <2>2. CASE sent = Len(local)
    <3>1. pc' = "closed" /\ UNCHANGED <<remote, connected, sent, err>>
      BY <1>4, <2>2 DEF Sftp!CopyUp
    <3>2. remote = local
      BY <2>1, <2>2, AllCopied
    <3> QED
      BY <1>1, <2>1, <3>1, <3>2 DEF Sftp!Unchanged, SftpInv, SftpTypes, Attempts, Requests, Copies
  <2>3. CASE sent # Len(local)
    <3> DEFINE more == Sftp!Written(remote, sent + 1, local[sent + 1])
    <3>1. more \in Seq(Chunks) /\ CopiedUpTo(sent + 1, local, more)
      <4>1. /\ Len(remote) = sent /\ sent \in Nat /\ sent + 1 \in 1..Len(local)
            /\ local \in Seq(Chunks) /\ remote \in Seq(Chunks)
        BY <1>1, <2>1, <2>3 DEF CopiedUpTo, SftpTypes
      <4>2. more = [j \in 1..(sent + 1) |-> IF j = sent + 1 THEN local[sent + 1] ELSE remote[j]]
        BY <4>1 DEF Sftp!Written
      <4>3. more \in Seq(Chunks) /\ Len(more) = sent + 1
        BY <4>1, <4>2
      <4>4. \A i \in 1..(sent + 1) : more[i] = local[i]
        BY <2>1, <4>1, <4>2 DEF CopiedUpTo
      <4> HIDE DEF more
      <4> QED
        BY <4>1, <4>3, <4>4 DEF CopiedUpTo
    <3>2. \/ connected /\ remote' = more /\ pc' = "copy" /\ sent' = sent + 1 /\ UNCHANGED <<connected, err>>
          \/ pc' = "failed" /\ sent' = sent /\ remote' \in {remote, more}
      BY <1>4, <2>3 DEF Sftp!CopyUp, Sftp!Request, Sftp!Fail
    <3> HIDE DEF more
    <3>3. CASE pc' = "failed" /\ sent' = sent /\ remote' \in {remote, more}
      <4>1. remote' \in Seq(Chunks) \cup {None}
        BY <1>1, <3>1, <3>3 DEF SftpTypes
      <4> QED
        BY <1>1, <2>1, <3>3, <4>1, RequestFails DEF SftpTypes
    <3>4. CASE connected /\ remote' = more /\ pc' = "copy" /\ sent' = sent + 1 /\ UNCHANGED <<connected, err>>
      BY <1>1, <2>1, <3>1, <3>4 DEF Sftp!Unchanged, SftpInv, SftpTypes, Attempts, Requests, Copies
    <3> QED
      BY <3>2, <3>3, <3>4
  <2> QED
    BY <2>2, <2>3
<1> QED
  BY <1>2, <1>3, <1>4

\* Download and Delete.
LEMMA SftpDownload ==
  ASSUME SftpConstants, SftpInv, Sftp!OpenToRead \/ Sftp!CopyDown \/ Sftp!Remove
  PROVE  SftpInv'
<1>1. SftpTypes /\ Attempts /\ Requests /\ Copies
  BY DEF SftpInv
<1>2. CASE Sftp!OpenToRead
  <2>1. /\ pc = "open" /\ op = "download" /\ Sftp!Unchanged /\ UNCHANGED remote /\ sent' = sent
        /\ local' = IF pc' = "copy" THEN <<>> ELSE local
    BY <1>2 DEF Sftp!OpenToRead, Sftp!Request, Sftp!Fail, Sftp!Truncated
  <2>2. CASE pc' = "failed"
    BY <1>1, <2>1, <2>2, RequestFails DEF SftpTypes
  <2>3. CASE pc' = "copy" /\ connected /\ remote # None /\ UNCHANGED <<connected, err>>
    <3>1. CopiedUpTo(0, remote, <<>>) /\ sent = 0 /\ <<>> \in Seq(Chunks)
      BY <1>1, <2>1, <2>3, NothingCopied DEF Copies, Requests, SftpTypes
    <3> QED
      BY <1>1, <2>1, <2>3, <3>1 DEF Sftp!Unchanged, SftpInv, SftpTypes, Attempts, Requests, Copies
  <2> QED
    BY <1>2, <2>2, <2>3 DEF Sftp!OpenToRead, Sftp!Request, Sftp!Fail
<1>3. CASE Sftp!CopyDown
  <2>1. /\ pc = "copy" /\ op = "download" /\ Sftp!Unchanged
        /\ CopiedUpTo(sent, remote, local)
    BY <1>1, <1>3 DEF Sftp!CopyDown, Copies
  <2>2. /\ local' = IF pc' = "copy" THEN Append(local, remote[sent + 1]) ELSE local
        /\ remote' = remote
        /\ \/ /\ connected /\ pc' = (IF sent = Len(remote) THEN "closed" ELSE "copy")
              /\ sent' = sent + 1 /\ UNCHANGED <<connected, err>>
           \/ pc' = "failed" /\ sent' = sent
    BY <1>3 DEF Sftp!CopyDown, Sftp!Request, Sftp!Fail, Sftp!AtEnd
  <2>3. CASE pc' = "failed" /\ sent' = sent
    BY <1>1, <2>1, <2>2, <2>3, RequestFails DEF SftpTypes
  <2>4. CASE /\ sent = Len(remote) /\ connected /\ pc' = "closed" /\ sent' = sent + 1
             /\ UNCHANGED <<connected, err>>
    <3>1. local = remote
      BY <2>1, <2>4, AllCopied
    <3>2. local' = local /\ remote' = remote
      BY <2>2, <2>4
    <3> QED
      BY <1>1, <2>1, <2>4, <3>1, <3>2 DEF Sftp!Unchanged, SftpInv, SftpTypes, Attempts, Requests, Copies
  <2>5. CASE /\ sent # Len(remote) /\ connected /\ pc' = "copy" /\ sent' = sent + 1
             /\ UNCHANGED <<connected, err>>
    <3> DEFINE more == Append(local, remote[sent + 1])
    <3>1. more \in Seq(Chunks) /\ CopiedUpTo(sent + 1, remote, more)
      <4>1. /\ Len(local) = sent /\ sent \in Nat /\ sent + 1 \in 1..Len(remote)
            /\ local \in Seq(Chunks) /\ remote \in Seq(Chunks)
        BY <1>1, <2>1, <2>5 DEF CopiedUpTo, SftpTypes
      <4>2. more \in Seq(Chunks) /\ Len(more) = sent + 1
        BY <4>1
      <4>3. \A i \in 1..(sent + 1) : more[i] = remote[i]
        BY <2>1, <4>1 DEF CopiedUpTo
      <4> HIDE DEF more
      <4> QED
        BY <4>1, <4>2, <4>3 DEF CopiedUpTo
    <3>2. local' = more /\ remote' = remote
      BY <2>2, <2>5
    <3> HIDE DEF more
    <3> QED
      BY <1>1, <2>1, <2>5, <3>1, <3>2 DEF Sftp!Unchanged, SftpInv, SftpTypes, Attempts, Requests, Copies
  <2> QED
    BY <2>2, <2>3, <2>4, <2>5
<1>4. CASE Sftp!Remove
  <2>1. /\ pc = "remove" /\ Sftp!Unchanged /\ UNCHANGED local /\ sent' = sent
        /\ remote' \in {remote, None}
    BY <1>4 DEF Sftp!Remove, Sftp!Request, Sftp!Fail
  <2>2. CASE pc' = "failed"
    <3>1. remote' \in Seq(Chunks) \cup {None}
      BY <1>1, <2>1 DEF SftpTypes
    <3> QED
      BY <1>1, <2>1, <2>2, <3>1, RequestFails DEF SftpTypes
  <2>3. CASE pc' = "closed" /\ connected /\ remote' = None /\ UNCHANGED <<connected, err>>
    BY <1>1, <2>1, <2>3 DEF Sftp!Unchanged, SftpInv, SftpTypes, Attempts, Requests, Copies
  <2> QED
    BY <1>4, <2>2, <2>3 DEF Sftp!Remove, Sftp!Request, Sftp!Fail
<1> QED
  BY <1>2, <1>3, <1>4

\* Whatever is lost at whatever request, an answer included, and however far a first
\* attempt came: no error means that the files are as the operation should leave them.
THEOREM SftpDone == ASSUME SftpConstants PROVE Sftp!Spec => []Sftp!NilMeansDone
<1>1. Sftp!Init => SftpInv
  BY SftpInit
<1>2. SftpInv /\ [Sftp!Next]_(Sftp!vars) => SftpInv'
  BY SftpCalls, SftpUpload, SftpDownload DEF Sftp!Next
<1>3. SftpInv => Sftp!NilMeansDone
  BY DEF SftpInv, Attempts, Copies, Sftp!NilMeansDone
<1> QED
  BY <1>1, <1>2, <1>3, PTL DEF Sftp!Spec

-----------------------------------------------------------------------------
(***************************************************************************)
(* FileManager: the deletions. What Delete was given and is still there is  *)
(* ahead of it, or in what DeleteObjects said it kept.                      *)
(***************************************************************************)
CONSTANTS Providers, Uploads, Deletions, MaxItems, PageSize, BatchSize, MaxFaults
VARIABLES provider, startAfter, ifNotExist, bucket, store, token, buffer, batch, left, items, ended,
          pending, removed, outcome, faults, up, given, always, kept

Files == INSTANCE FileManager

FilesConstants == Deletions \subseteq Seq(Keys) /\ BatchSize \in Nat

\* What Delete was given and is still there it has before it, or was told of.
DeleteInv == /\ pending \in Seq(Keys)
             /\ outcome = "nil" => pending = <<>>
             /\ outcome \in {"running", "nil"} =>
                  removed \cap store \subseteq kept \cup Files!Range(pending)

\* A sequence has nothing that is not in its first part or in the rest of it.
LEMMA RangeParts ==
  ASSUME NEW s \in Seq(Keys), NEW n \in 0..Len(s)
  PROVE  /\ SubSeq(s, n + 1, Len(s)) \in Seq(Keys)
         /\ Files!Range(s) \subseteq Files!Range(SubSeq(s, 1, n)) \cup Files!Range(SubSeq(s, n + 1, Len(s)))
<1> DEFINE a == SubSeq(s, 1, n)
           b == SubSeq(s, n + 1, Len(s))
<1>1. /\ DOMAIN a = 1..n /\ \A i \in 1..n : a[i] = s[i]
  OBVIOUS
<1>2. /\ b \in Seq(Keys) /\ DOMAIN b = 1..(Len(s) - n) /\ \A i \in 1..(Len(s) - n) : b[i] = s[i + n]
  OBVIOUS
<1> HIDE DEF a, b
<1>3. ASSUME NEW i \in 1..Len(s) PROVE s[i] \in Files!Range(a) \cup Files!Range(b)
  <2>1. CASE i <= n
    BY <1>1, <2>1 DEF Files!Range
  <2>2. CASE i > n
    <3>1. i - n \in DOMAIN b /\ b[i - n] = s[i]
      BY <1>2, <2>2
    <3> QED
      BY <3>1 DEF Files!Range
  <2> QED
    BY <2>1, <2>2
<1>4. Files!Range(s) \subseteq Files!Range(a) \cup Files!Range(b)
  BY <1>3 DEF Files!Range
<1> QED
  BY <1>2, <1>4 DEF a, b

\* A request for the first n keys, of which some are refused.
LEMMA DeletesSome ==
  ASSUME DeleteInv, NEW n \in 0..Len(pending), NEW refused, Files!Deletes(n, refused),
         outcome' \in {outcome, "error"}, kept' = kept \cup refused
  PROVE  DeleteInv'
<1>1. /\ outcome = "running" /\ removed' = removed
      /\ store' = store \ (Files!Range(SubSeq(pending, 1, n)) \ refused)
      /\ pending' = SubSeq(pending, n + 1, Len(pending))
  BY DEF Files!Deletes
<1>2. /\ pending' \in Seq(Keys)
      /\ Files!Range(pending) \subseteq Files!Range(SubSeq(pending, 1, n)) \cup Files!Range(pending')
  BY <1>1, RangeParts DEF DeleteInv
<1> QED
  BY <1>1, <1>2 DEF DeleteInv

\* Each provider's way to delete.
LEMMA DeletePreserves ==
  ASSUME FilesConstants, DeleteInv,
         \/ \E r \in SUBSET Keys : Files!S3Delete(r) \/ Files!DODelete(r) \/ Files!MinioDelete(r)
         \/ Files!GcsDelete \/ Files!AzureDelete
  PROVE  DeleteInv'
<1>1. Len(pending) \in Nat /\ (pending # <<>> => Len(pending) > 0)
  BY DEF DeleteInv
<1>2. ASSUME NEW r \in SUBSET Keys, Files!S3Delete(r) \/ Files!DODelete(r) PROVE DeleteInv'
  <2>1. Files!MinOf(Len(pending), BatchSize) \in 0..Len(pending)
    BY <1>1 DEF Files!MinOf, FilesConstants
  <2>2. /\ Files!Deletes(Files!MinOf(Len(pending), BatchSize), r)
        /\ kept' = kept \cup r /\ outcome' = outcome
    BY <1>2 DEF Files!S3Delete, Files!DODelete, Files!DeleteObjects
  <2> QED
    BY <2>1, <2>2, DeletesSome
<1>3. ASSUME NEW r \in SUBSET Keys, Files!MinioDelete(r) PROVE DeleteInv'
  <2>1. Files!Deletes(Len(pending), r) /\ kept' = kept
    BY <1>3 DEF Files!MinioDelete
  <2>2. CASE r = {}
    <3>1. outcome' = outcome
      BY <1>3, <2>2 DEF Files!MinioDelete
    <3> QED
      BY <1>1, <2>1, <2>2, <3>1, DeletesSome
  <2>3. CASE r # {}
    <3>1. outcome' = "error" /\ pending' = SubSeq(pending, Len(pending) + 1, Len(pending))
      BY <1>3, <2>3 DEF Files!MinioDelete, Files!Deletes
    <3>2. pending' \in Seq(Keys)
      BY <1>1, <3>1, RangeParts DEF DeleteInv
    <3> QED
      BY <3>1, <3>2 DEF DeleteInv
  <2> QED
    BY <2>2, <2>3
<1>4. ASSUME Files!GcsDelete \/ Files!AzureDelete PROVE DeleteInv'
  <2>1. Files!Deletes(1, {}) /\ kept' = kept /\ outcome' \in {outcome, "error"}
    BY <1>4 DEF Files!GcsDelete, Files!AzureDelete
  <2>2. 1 \in 0..Len(pending)
    BY <1>1, <2>1 DEF Files!Deletes
  <2> QED
    BY <2>1, <2>2, DeletesSome
<1> QED
  BY <1>2, <1>3, <1>4

\* Listing touches nothing of a deletion; an upload that is done meanwhile counts as such.
LEMMA DeleteOther ==
  ASSUME FilesConstants, DeleteInv,
         \/ Files!Ask \/ Files!Take \/ Files!S3Next \/ Files!DONext \/ Files!MinioNext
         \/ Files!GcsNext \/ Files!AzureNext \/ Files!NextFails
         \/ \E u \in Files!Uploaders :
               \/ Files!Upload(u) \/ Files!MinioUpload(u) \/ Files!MinioMakesBucket(u)
               \/ Files!AzureUpload(u) \/ Files!Put(u)
         \/ \E s \in Deletions : Files!Delete(s)
         \/ Files!DeleteReturns \/ \E c \in BOOLEAN : Files!DeleteFails(c)
         \/ UNCHANGED Files!vars
  PROVE  DeleteInv'
<1>1. ASSUME \/ Files!Ask \/ Files!Take \/ Files!S3Next \/ Files!DONext \/ Files!MinioNext
             \/ Files!GcsNext \/ Files!AzureNext \/ Files!NextFails \/ UNCHANGED Files!vars
      PROVE  DeleteInv'
  <2>1. UNCHANGED <<store, pending, removed, outcome, kept>>
    BY <1>1 DEF Files!Ask, Files!Take, Files!S3Next, Files!DONext, Files!MinioNext, Files!GcsNext,
                Files!AzureNext, Files!NextFails, Files!NextPage, Files!InNext, Files!deletion, Files!vars
  <2> QED
    BY <2>1 DEF DeleteInv, Files!Range
<1>2. ASSUME NEW u \in Files!Uploaders,
             \/ Files!Upload(u) \/ Files!MinioUpload(u) \/ Files!MinioMakesBucket(u)
             \/ Files!AzureUpload(u) \/ Files!Put(u)
      PROVE  DeleteInv'
  <2>1. /\ UNCHANGED <<pending, outcome, kept>>
        /\ \/ UNCHANGED <<store, removed>>
           \/ store' = store \cup {Uploads[u]} /\ removed' = removed \ {Uploads[u]}
    BY <1>2 DEF Files!Upload, Files!MinioUpload, Files!MinioMakesBucket, Files!AzureUpload,
                Files!Put, Files!Uploading
  <2> QED
    BY <2>1 DEF DeleteInv, Files!Range
<1>3. ASSUME NEW s \in Deletions, Files!Delete(s) PROVE DeleteInv'
  BY <1>3 DEF Files!Delete, DeleteInv, FilesConstants, Files!Range
<1>4. ASSUME Files!DeleteReturns PROVE DeleteInv'
  BY <1>4 DEF Files!DeleteReturns, DeleteInv, Files!Range
<1>5. ASSUME NEW c \in BOOLEAN, Files!DeleteFails(c) PROVE DeleteInv'
  BY <1>5 DEF Files!DeleteFails, DeleteInv
<1> QED
  BY <1>1, <1>2, <1>3, <1>4, <1>5

\* A Delete that returns no error has deleted all of its keys but those uploaded since and
\* those the answer of DeleteObjects reports: however many keys and in whatever chunks,
\* whatever is uploaded meanwhile and whichever requests fail.
THEOREM DeletesEverything ==
  ASSUME FilesConstants
  PROVE  Files!Spec => []Files!DeletesAll
<1>1. Files!Init => DeleteInv
  BY DEF Files!Init, DeleteInv
<1>2. DeleteInv /\ [Files!Next]_(Files!vars) => DeleteInv'
  BY DeletePreserves, DeleteOther DEF Files!Next
<1>3. DeleteInv => Files!DeletesAll
  BY DEF DeleteInv, Files!DeletesAll, Files!Range
<1> QED
  BY <1>1, <1>2, <1>3, PTL DEF Files!Spec

=============================================================================
