----------------------------- MODULE EtcdWatcher -----------------------------
(***************************************************************************)
(* etcdwatcher/etcdwatcher.go: the existing keys of a prefix are read, then *)
(* the changes after that revision are watched, while clients of etcd go on *)
(* changing the keys.  With a transactional gate the watcher asks etcd for  *)
(* the key again, so what it emits can be newer than the event it handles.  *)
(*                                                                         *)
(* etcd is its log: entry r is the change that made revision r, and what a  *)
(* Get sees is computed from it.  The consumer side of the SingleSender is  *)
(* open until Close is called; Send then does nothing (see SingleSender).   *)
(* The consumer reads all it is sent until it stops.                        *)
(* The filter decides by the value, so it accepts every deletion.           *)
(***************************************************************************)
EXTENDS Integers, Sequences, FiniteSets, SequencesExt

CONSTANTS Keys,
          Modes, EventTypes, Gates, Filters, Loads,  \* the configurations considered
          MayFail,     \* etcd calls and unmarshalling may return errors
          MaxRev       \* bound: the last revision

ASSUME ConstantsAssumption ==
         /\ "none" \notin Keys /\ MaxRev \in Nat
         /\ Modes \subseteq {"ALL", "ONCE", "NONE"}
         /\ Gates \subseteq {"off", "open", "guarded", "any"}
         /\ Filters \subseteq BOOLEAN /\ Loads \subseteq BOOLEAN

VARIABLES config,
          log,        \* etcd: the changes
          compacted,  \* etcd: revisions before this one cannot be watched any more
          pc,
          done,       \* the context that Begin returned has ended
          open,       \* nobody has closed the sender
          base,       \* the revision of the initial Get
          todo,       \* its kvs that are still to be handled
          events,     \* the initial events
          pos,        \* the last revision of the log that watch has received
          cur,        \* the event in hand
          emitted,    \* emittedKeys
          out         \* what the consumer got

etcd == <<log, compacted>>
vars == <<config, etcd, pc, done, open, base, todo, events, pos, cur, emitted, out>>

\* The mode, the event types, the gate, whether the filter may refuse a value, and
\* whether LoadAndWatch is called or Watch.
Configs == [mode : Modes, types : EventTypes, gate : Gates, filter : Filters, loadFirst : Loads]
Accepts == IF config.filter THEN BOOLEAN ELSE {TRUE}

\* What the gate's conditions of a value may turn out to be.
Answers == CASE config.gate = "off"     -> {}
             [] config.gate = "open"    -> {"none", "met"}
             [] config.gate = "guarded" -> {"met", "unmet"}
             [] config.gate = "any"     -> {"none", "met", "unmet"}

Change == [key : Keys, type : {"PUT", "DELETE"}, accepted : BOOLEAN]
Event(r) == [key |-> log[r].key, type |-> log[r].type, rev |-> r]
Events == [key : Keys, type : {"PUT", "DELETE"}, rev : 1..MaxRev]
Failure == [key |-> "none", type |-> "ERROR", rev |-> 0]
Labels == {"load", "initial", "initGate", "send", "watch", "watching", "gate", "emit", "closed"}

TypeOK == /\ config \in Configs
          /\ log \in Seq(Change) /\ Len(log) <= MaxRev
          /\ compacted \in 0..MaxRev
          /\ pc \in Labels /\ done \in BOOLEAN /\ open \in BOOLEAN
          /\ base \in 0..MaxRev /\ pos \in 0..MaxRev
          /\ \A r \in todo : log[r].type = "PUT" /\ r <= base
          /\ events \in Seq(Events)
          /\ cur = <<>> \/ cur \in Events
          /\ emitted \subseteq Keys
          /\ out \in Seq(Events \cup {Failure})

\* Where a key occurs last in a sequence: a set of one index or none.
LastOf(s, k) == {i \in DOMAIN s : s[i].key = k /\ \A j \in i+1..Len(s) : s[j].key # k}

\* etcd: the revision of the put that a key has now; 0: the key does not exist.
Current(k) ==
  IF \E r \in LastOf(log, k) : log[r].type = "PUT" THEN CHOOSE r \in LastOf(log, k) : TRUE ELSE 0

Existing == {Current(k) : k \in Keys} \ {0}

Init == /\ config \in Configs
        /\ log = <<>> /\ compacted = 0
        /\ pc = "load" /\ done = FALSE /\ open = TRUE
        /\ base = 0 /\ todo = {} /\ events = <<>>
        /\ pos = 0 /\ cur = <<>> /\ emitted = {}
        /\ out = <<>>

\* The filter.
Accept(e) == log[e.rev].accepted

-----------------------------------------------------------------------------
\* A client of etcd writes or deletes a key (bound: while the watcher is there).
Write(k, type, a) ==
  /\ pc # "closed" /\ Len(log) < MaxRev
  /\ type = "DELETE" => Current(k) # 0 /\ a
  /\ log' = Append(log, [key |-> k, type |-> type, accepted |-> a])
  /\ UNCHANGED <<config, compacted, pc, done, open, base, todo, events, pos, cur, emitted, out>>

\* etcd forgets its history up to the present.
Compact == /\ pc # "closed" /\ compacted < Len(log)
           /\ compacted' = Len(log)
           /\ UNCHANGED <<config, log, pc, done, open, base, todo, events, pos, cur, emitted, out>>

\* Before LoadAndWatch has returned: nobody has the function to stop it with.
Loading == pc \in {"load", "initial", "initGate"}

\* The consumer calls the function it got: eventSender.Close.
Stop == /\ open /\ ~(config.loadFirst /\ Loading)
        /\ open' = FALSE /\ done' = TRUE
        /\ UNCHANGED <<config, etcd, pc, base, todo, events, pos, cur, emitted, out>>

\* The parent context ends.  What is sent still arrives (see SingleSender).
ParentEnds == /\ ~done /\ done' = TRUE
              /\ UNCHANGED <<config, etcd, pc, open, base, todo, events, pos, cur, emitted, out>>

\* eventSender.Send.
Send(x) == out' = IF open THEN Append(out, x) ELSE out

\* eventSender.Close, and the end of the goroutine.
Close == pc' = "closed" /\ open' = FALSE /\ done' = TRUE

-----------------------------------------------------------------------------
\* loadInitialData: Get.  There are no delete events in it.
Load == /\ pc = "load"
        /\ base' = Len(log) /\ pos' = Len(log)
        /\ todo' = IF config.types = "DELETE" THEN {} ELSE Existing
        /\ pc' = "initial"
        /\ UNCHANGED <<config, etcd, done, open, events, cur, emitted, out>>

\* The loop over its kvs (in any order): the filter, then the gate.
LoadKv(r) ==
  /\ pc = "initial" /\ r \in todo
  /\ todo' = todo \ {r}
  /\ \/ /\ ~Accept(Event(r))
        /\ UNCHANGED <<pc, events, cur>>
     \/ /\ Accept(Event(r)) /\ config.gate = "off"
        /\ events' = Append(events, Event(r))
        /\ UNCHANGED <<pc, cur>>
     \/ /\ Accept(Event(r)) /\ config.gate # "off"
        /\ cur' = Event(r)
        /\ pc' = "initGate"
        /\ UNCHANGED events
  /\ UNCHANGED <<config, etcd, done, open, base, pos, emitted, out>>

\* applyTxnGate: the event to go on with, as a set.  Without conditions it is the
\* event in hand; if they are met, the key as it is now, should it exist and the
\* filter accept it.
Gated(answer) ==
  LET now == Current(cur.key)
  IN  IF answer = "none" THEN {cur}
      ELSE IF answer = "met" /\ now # 0 THEN {e \in {Event(now)} : Accept(e)} ELSE {}

\* The gate of an existing key.
InitGate(answer) ==
  /\ pc = "initGate"
  /\ events' = events \o SetToSeq(Gated(answer))
  /\ cur' = <<>>
  /\ pc' = "initial"
  /\ UNCHANGED <<config, etcd, done, open, base, todo, pos, emitted, out>>

\* The initial events are complete.  LoadAndWatch returns them, Watch sends them.
Loaded ==
  /\ pc = "initial" /\ todo = {}
  /\ out' = IF config.loadFirst THEN events ELSE out
  /\ pc' = IF config.loadFirst THEN "watch" ELSE "send"
  /\ UNCHANGED <<config, etcd, done, open, base, todo, events, pos, cur, emitted>>

\* Watch's loop over the initial events.  Once closed, the sender drops the rest.
SendInitial ==
  /\ pc = "send"
  /\ IF open /\ Len(out) < Len(events) THEN Send(events[Len(out) + 1]) /\ UNCHANGED pc
     ELSE pc' = "watch" /\ UNCHANGED out
  /\ UNCHANGED <<config, etcd, done, open, base, todo, events, pos, cur, emitted>>

\* NoneMode: nothing is watched.
StopAfterLoad ==
  /\ pc = "watch" /\ config.mode = "NONE"
  /\ Close
  /\ UNCHANGED <<config, etcd, base, todo, events, pos, cur, emitted, out>>

\* Fault: the watch starts at the present.
WatchAfter_Now == Len(log)

\* Fault: the whole history is watched.
WatchAfter_Zero == 0

\* The revision after which to watch.
WatchAfter == base
\* The keys of the initial events, which OnceMode remembers.
InitialKeys == IF config.mode = "ONCE" THEN {e.key : e \in ToSet(events)} ELSE {}

\* watch: client.Watch.
StartWatch ==
  /\ pc = "watch" /\ config.mode # "NONE"
  /\ pos' = WatchAfter
  /\ emitted' = InitialKeys
  /\ events' = <<>>
  /\ pc' = "watching"
  /\ UNCHANGED <<config, etcd, done, open, base, todo, cur, out>>

\* The next event of the watch channel, up to the gate or the emission.
Receive ==
  /\ pc = "watching" /\ pos < Len(log)
  /\ pos' = pos + 1
  /\ LET e == Event(pos + 1)
     IN  IF config.types \in {"ALL", e.type} /\ Accept(e)
         THEN cur' = e /\ pc' = IF e.type = "PUT" /\ config.gate # "off" THEN "gate" ELSE "emit"
         ELSE UNCHANGED <<cur, pc>>
  /\ UNCHANGED <<config, etcd, done, open, base, todo, events, emitted, out>>

\* Fault: the gate is asked again until it lets the event through.
Gate_Waits(answer) ==
  /\ pc = "gate"
  /\ cur' \in Gated(answer) /\ pc' = "emit"
  /\ UNCHANGED <<config, etcd, done, open, base, todo, events, pos, emitted, out>>

\* The gate of a change.
Gate(answer) ==
  /\ pc = "gate"
  /\ IF Gated(answer) = {} THEN cur' = <<>> /\ pc' = "watching"
     ELSE cur' \in Gated(answer) /\ pc' = "emit"
  /\ UNCHANGED <<config, etcd, done, open, base, todo, events, pos, emitted, out>>

\* OnceMode skips keys that have been emitted; the others are sent.
Emit ==
  /\ pc = "emit"
  /\ IF cur.key \in emitted THEN UNCHANGED <<emitted, out>>
     ELSE /\ emitted' = IF config.mode = "ONCE" THEN emitted \cup {cur.key} ELSE emitted
          /\ Send(cur)
  /\ cur' = <<>>
  /\ pc' = "watching"
  /\ UNCHANGED <<config, etcd, done, open, base, todo, events, pos>>

\* Fault: the watch ends without a word when the revision has been compacted.
Compacted_Silent ==
  /\ pc = "watching" /\ pos + 1 < compacted
  /\ Close
  /\ UNCHANGED <<config, etcd, base, todo, events, pos, cur, emitted, out>>

\* watchResp.Err(): the revision to go on from has been compacted.
Compacted ==
  /\ pc = "watching" /\ pos + 1 < compacted
  /\ Send(Failure) /\ Close
  /\ UNCHANGED <<config, etcd, base, todo, events, pos, cur, emitted>>

\* Get, the transaction, the watch or the unmarshalling fails, the first three also
\* because the context has ended: the sender is closed after the error has been sent;
\* LoadAndWatch returns the error of the load.
Fails ==
  /\ MayFail /\ (Loading \/ pc \in {"watching", "gate"})
  /\ IF config.loadFirst /\ Loading THEN out' = <<Failure>> ELSE Send(Failure)
  /\ Close
  /\ UNCHANGED <<config, etcd, base, todo, events, pos, cur, emitted>>

\* The context has ended, and the watch channel is closed.
Stopped ==
  /\ done /\ pc = "watching"
  /\ Close
  /\ UNCHANGED <<config, etcd, base, todo, events, pos, cur, emitted, out>>

-----------------------------------------------------------------------------
Watcher == \/ Load \/ (\E r \in todo : LoadKv(r))
           \/ (\E answer \in Answers : InitGate(answer) \/ Gate(answer))
           \/ Loaded \/ SendInitial \/ StopAfterLoad \/ StartWatch \/ Receive \/ Emit
           \/ Compacted \/ Stopped

Next == \/ \E k \in Keys, type \in {"PUT", "DELETE"}, a \in Accepts : Write(k, type, a)
        \/ Compact \/ Stop \/ ParentEnds
        \/ Watcher \/ Fails

Spec == Init /\ [][Next]_vars

\* The watcher's goroutine runs, and etcd answers; nothing has to fail.
FairSpec == Spec /\ WF_vars(Watcher)

-----------------------------------------------------------------------------
\* What the consumer believes: the revision of the last put it got of a key, 0 if
\* the last it got was a deletion, or nothing.
View(k) == IF \E i \in LastOf(out, k) : out[i].type = "PUT"
           THEN out[CHOOSE i \in LastOf(out, k) : TRUE].rev ELSE 0

\* The watcher is there and has handled every change.
CaughtUp == pc = "watching" /\ open /\ pos = Len(log)

\* A consumer of all events of all keys.
SeesAll == config.mode = "ALL" /\ config.types = "ALL"

\* Where the filter and the gate let everything through, a consumer that has caught
\* up knows exactly the keys and the values that etcd has.
SeesEverything == SeesAll /\ config.gate \in {"off", "open"} /\ ~config.filter /\ CaughtUp =>
                    \A k \in Keys : View(k) = Current(k)

\* Also with a filter and a gate that refuse: a consumer that has caught up does
\* not believe in a key that has been deleted.
DeletedIsGone == SeesAll /\ CaughtUp => \A k \in Keys : Current(k) = 0 => View(k) = 0

\* No change falls between the load and the watch, or is undone by the gate's newer
\* values: a consumer that has caught up knows what etcd has.
ViewIsStore == SeesEverything /\ DeletedIsGone

\* Doc of OnceMode: each key is emitted at most once, initial load and watch together.
AtMostOnce == config.mode # "ALL" =>
                \A i, j \in DOMAIN out :
                  i # j /\ out[i].type # "ERROR" => out[i].key # out[j].key

\* Without a gate no revision is emitted twice, and the events of the watch come
\* after all that came before them.
InOrder == config.gate = "off" =>
             \A i, j \in DOMAIN out :
               i < j /\ out[j].type # "ERROR" =>
                 /\ out[i].rev # out[j].rev
                 /\ out[j].rev > base => out[i].rev < out[j].rev

\* The consumer gets nothing twice, and nothing late: in OnceMode each key, without a
\* gate each change.
NothingTwice == AtMostOnce /\ InOrder

\* The channel is not closed under a consumer whose context goes on and who has not
\* stopped, except in NoneMode, without an error: who sees it closed knows that
\* events may be missing.
LastIsError == out # <<>> /\ Last(out).type = "ERROR"
ClosedWithError == [][~done /\ pc' = "closed" /\ config.mode # "NONE" => LastIsError']_vars

\* The watcher does not lag behind for ever: once the changes end it has handled
\* all of them, or it has ended.
CatchesUp == <>[](pc = "closed" \/ (pc = "watching" /\ pos = Len(log)))
=============================================================================
