----------------------------- MODULE StatsdStats -----------------------------
(***************************************************************************)
(* stats/statsd.go: the clients of the measurements, one per set of tags,   *)
(* the connection that may come late, and the periodic collection that Stop *)
(* ends.  A section under clientsLock or statsdMu blocks on nothing else and *)
(* is one step.                                                             *)
(***************************************************************************)
EXTENDS Naturals, FiniteSets

CONSTANTS Callers, KeyOf,     \* goroutines that create a measurement, and its tags
          Periodic,           \* whether periodic stats are enabled
          None

Keys == {KeyOf[t] : t \in Callers}
Collectors == {"rc", "mc", "ac"}

VARIABLES enabled, connEstablished,
          clients,            \* the client of some tags: the caller that made it
          pendingClients,     \* tags whose client waits for the connection
          ready,              \* callers whose client has a statsd client
          pc, got, on,        \* of each caller: where it is, its client, enabled in it
          bg,                 \* where Start and the goroutine it leaves behind are
          stop,               \* where Stop is
          ctxDone, cancelled, \* the context of Start, and the one Stop cancels
          coll,               \* what each collector does: none, made, run, zero, ended
          gauge               \* the last value of a runtime gauge

vars == <<enabled, connEstablished, clients, pendingClients, ready, pc, got, on, bg,
          stop, ctxDone, cancelled, coll, gauge>>
callers == <<clients, pendingClients, ready, pc, got, on>>
running == <<stop, ctxDone, cancelled, coll, gauge>>

Init == /\ enabled \in BOOLEAN /\ connEstablished = FALSE
        /\ clients = [k \in Keys |-> None] /\ pendingClients = {} /\ ready = {}
        /\ pc = [t \in Callers |-> "start"] /\ got = [t \in Callers |-> None]
        /\ on = [t \in Callers |-> FALSE]
        /\ bg = "start" /\ stop = "call" /\ ctxDone = FALSE /\ cancelled = FALSE
        /\ coll = [c \in Collectors |-> "none"] /\ gauge = "unset"

-----------------------------------------------------------------------------
(* internalNewTaggedStat *)

Goto(t, l) == pc' = [pc EXCEPT ![t] = l]

Disabled(t) == /\ pc[t] = "start" /\ ~enabled
               /\ Goto(t, "made")
               /\ UNCHANGED <<enabled, connEstablished, clients, pendingClients, ready, got, on,
                              bg, running>>

Lookup(t) == /\ pc[t] = "start" /\ enabled
             /\ got' = [got EXCEPT ![t] = clients[KeyOf[t]]]
             /\ Goto(t, IF clients[KeyOf[t]] = None THEN "create" ELSE "found")
             /\ UNCHANGED <<enabled, connEstablished, clients, pendingClients, ready, on, bg, running>>

\* Fault: there is no second look.
Missing_Trusted(k) == TRUE
\* The second look, under the lock.
Missing(k) == clients[k] = None

\* A client made before there is a connection is left to whoever establishes it.
Create(t) ==
    LET k == KeyOf[t] IN
    /\ pc[t] = "create"
    /\ IF Missing(k)
       THEN /\ clients' = [clients EXCEPT ![k] = t]
            /\ got' = [got EXCEPT ![t] = t]
            /\ ready' = IF connEstablished THEN ready \cup {t} ELSE ready
            /\ pendingClients' = IF connEstablished THEN pendingClients
                                 ELSE pendingClients \cup {k}
       ELSE /\ got' = [got EXCEPT ![t] = clients[k]]
            /\ UNCHANGED <<clients, ready, pendingClients>>
    /\ Goto(t, "found")
    /\ UNCHANGED <<enabled, connEstablished, on, bg, running>>

NewMeasurement(t) == /\ pc[t] = "found"
                     /\ on' = [on EXCEPT ![t] = enabled]
                     /\ Goto(t, "made")
                     /\ UNCHANGED <<enabled, connEstablished, clients, pendingClients, ready, got,
                                    bg, running>>

\* What every method of a measurement does: skip the value, or send it by the client.
Skip(t) == ~on[t] \/ got[t] \notin ready
Measure(t) == /\ pc[t] = "made" /\ ~Skip(t)
              /\ Goto(t, "sent")
              /\ UNCHANGED <<enabled, connEstablished, clients, pendingClients, ready, got, on,
                             bg, running>>

-----------------------------------------------------------------------------
(* Start, and the goroutine it leaves behind *)

Start == /\ bg = "start"
         /\ IF enabled THEN bg' \in {"connected", "retry"} ELSE bg' = "end"
         /\ UNCHANGED <<enabled, connEstablished, callers, running>>

FirstConnection == /\ bg = "connected"
                   /\ connEstablished' = TRUE /\ bg' = "collect"
                   /\ UNCHANGED <<enabled, callers, running>>

GiveUp == /\ bg = "retry" /\ ctxDone
          /\ enabled' = FALSE /\ bg' = "end"
          /\ UNCHANGED <<connEstablished, callers, running>>

Pending == {clients[k] : k \in pendingClients}

RetrySucceeds == /\ bg = "retry"
                 /\ ready' = ready \cup Pending
                 /\ pendingClients' = {}
                 /\ connEstablished' = TRUE /\ bg' = "collect"
                 /\ UNCHANGED <<enabled, clients, pc, got, on, running>>

\* collectPeriodicStats makes rc, then mc and ac, then starts them and waits.
Collect == /\ bg = "collect"
           /\ IF ctxDone THEN bg' = "end" /\ UNCHANGED coll
              ELSE bg' = "rc" /\ coll' = [coll EXCEPT !.rc = "made"]
           /\ UNCHANGED <<enabled, connEstablished, callers, stop, ctxDone, cancelled, gauge>>

CollectRest == /\ bg = "rc"
               /\ coll' = [c \in Collectors |-> "made"] /\ bg' = "started"
               /\ UNCHANGED <<enabled, connEstablished, callers, stop, ctxDone, cancelled, gauge>>

CollectStarts == /\ bg = "started"
                 /\ bg' = IF Periodic THEN "wait" ELSE "end"
                 /\ UNCHANGED <<enabled, connEstablished, callers, running>>

CollectEnds == /\ bg = "wait" /\ \A c \in Collectors : coll[c] = "ended"
               /\ bg' = "end"
               /\ UNCHANGED <<enabled, connEstablished, callers, running>>

Becomes(c, s) == coll' = [coll EXCEPT ![c] = s]

\* run: the first output, and those of the ticks.
Output(c) == /\ coll[c] = "run" \/ (coll[c] = "made" /\ bg = "wait")
             /\ Becomes(c, "run")
             /\ gauge' = IF c = "rc" THEN "value" ELSE gauge
             /\ UNCHANGED <<enabled, connEstablished, callers, bg, stop, ctxDone, cancelled>>

\* The deferred zeroStats, then close(done).
ZeroStats(c) == IF c = "rc" THEN "zero" ELSE gauge

RunEnds(c) == /\ coll[c] = "run" /\ cancelled
              /\ Becomes(c, "ended") /\ gauge' = ZeroStats(c)
              /\ UNCHANGED <<enabled, connEstablished, callers, bg, stop, ctxDone, cancelled>>

-----------------------------------------------------------------------------
(* Stop, and the end of the context given to Start *)

Stop == /\ stop = "call" /\ bg # "start"
        /\ IF enabled /\ connEstablished
           THEN cancelled' = TRUE /\ stop' = IF Periodic THEN "rc" ELSE "returned"
           ELSE UNCHANGED cancelled /\ stop' = "returned"
        /\ UNCHANGED <<enabled, connEstablished, callers, bg, ctxDone, coll, gauge>>

\* A collector that is not made yet has no channel to wait for.
Waited(c) == coll[c] \in {"none", "ended"}

StopWaits == \E c \in {"rc", "mc"} :
             /\ stop = c /\ Waited(c)
             /\ stop' = IF c = "rc" THEN "mc" ELSE "returned"
             /\ UNCHANGED <<enabled, connEstablished, callers, bg, ctxDone, cancelled, coll, gauge>>

CtxEnds == /\ ~ctxDone /\ ctxDone' = TRUE
           /\ UNCHANGED <<enabled, connEstablished, callers, bg, stop, cancelled, coll, gauge>>

Call(t) == Disabled(t) \/ Lookup(t) \/ Create(t) \/ NewMeasurement(t) \/ Measure(t)
Background == \/ Start \/ FirstConnection \/ GiveUp \/ RetrySucceeds
              \/ Collect \/ CollectRest \/ CollectStarts \/ CollectEnds
Run(c) == Output(c) \/ RunEnds(c)
Next == \/ \E t \in Callers : Call(t)
        \/ Background \/ \E c \in Collectors : Run(c)
        \/ Stop \/ StopWaits \/ CtxEnds

\* Goroutines go on; a select does not prefer the ticks to its context forever.
Fairness == /\ WF_vars(Background) /\ WF_vars(StopWaits)
            /\ \A c \in Collectors : WF_vars(Run(c)) /\ WF_vars(RunEnds(c))

Spec == Init /\ [][Next]_vars /\ Fairness

-----------------------------------------------------------------------------
\* Measurements of the same tags share one client, however their creations
\* interleave, and a client is without a connection exactly while it is pending.  What
\* was sent was sent by a client that had one.
ClientsExact ==
    /\ \A t \in Callers : got[t] # None => got[t] = clients[KeyOf[t]]
    /\ \A t \in Callers : pc[t] = "sent" => clients[KeyOf[t]] \in ready
    /\ \A k \in Keys : clients[k] # None => (clients[k] \in ready <=> k \notin pendingClients)

\* Once the connection is established no measurement of an enabled stats skips its values.
PendingServed == connEstablished => \A t \in Callers : pc[t] = "made" /\ on[t] => ~Skip(t)
=============================================================================
