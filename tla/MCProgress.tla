----------------------------- MODULE MCProgress -----------------------------
(***************************************************************************)
(* What has to go on, one at a time: the lockers, the two collections of   *)
(* metrics and the follower of the memory limit. part says which one an    *)
(* execution is about, the variables of the others hold Off (those of      *)
(* PartitionLocker an initial state).                                      *)
(***************************************************************************)
EXTENDS PartitionLocker, Integers, TLC

CONSTANTS Parts, Caller, Nobody
VARIABLES part, lRW, sRW, writer, readers, refsRW, pcRW, argRW, liRW, mode, enabled,
          connEstablished, clients, pendingClients, ready, pcStatsd, gotStatsd, on, bg,
          stopStatsd, ctxDone, cancelledStatsd, collStatsd, gauge, meter, gauges, bound,
          pcOtel, gotOtel, start, stopOtel, provider, cancelledOtel, collOtel, waiter, files,
          percent, poller, stat, lastMemoryLimit, ch, applier, GOMEMLIMIT, done, changes

MCAttrsOf == ("x" :> {"x"}) @@ ("y" :> {"x2", "y"})
AFile(v, max, h, u, in, r) ==
    [v |-> v, limit |-> max, hierarchical |-> h, usage |-> u, inactive |-> in, rss |-> r]
MCFiles == {AFile(1, 2, 0, 3, 2, 2), AFile(1, 9, 3, 1, 2, 0), AFile(1, 0, 0, 1, 0, 1), AFile(2, 2, 0, 3, 1, 1),
            AFile(2, 3, 0, 2, 0, 3), AFile(2, 9, 0, 1, 0, 1), AFile(0, 0, 0, 0, 0, 0)}

RW == INSTANCE PartitionRWLocker WITH
       Infos <- {"i1", "i2"}, l <- lRW, s <- sRW, refs <- refsRW, pc <- pcRW, arg <- argRW, li <- liRW
Statsd == INSTANCE StatsdStats WITH
       Callers <- {1, 2}, KeyOf <- <<1, 1>>, Periodic <- TRUE, None <- Nobody,
       pc <- pcStatsd, got <- gotStatsd, stop <- stopStatsd, cancelled <- cancelledStatsd,
       coll <- collStatsd
Otel == INSTANCE OtelStats WITH
       Callers <- {1, 2, 3}, TagsOf <- <<"x", "x", "y">>, AttrsOf <- MCAttrsOf,
       Periodic <- TRUE, None <- Nobody, pc <- pcOtel, got <- gotOtel, stop <- stopOtel,
       cancelled <- cancelledOtel, coll <- collOtel
Memory == INSTANCE MemoryLimits WITH
       Files <- MCFiles, Total <- 4, Free <- 3, Percents <- {50, 100}, MaxChanges <- 2

varsRW == <<lRW, sRW, writer, readers, refsRW, pcRW, argRW, liRW, mode>>
varsStatsd == <<enabled, connEstablished, clients, pendingClients, ready, pcStatsd, gotStatsd,
                on, bg, stopStatsd, ctxDone, cancelledStatsd, collStatsd, gauge>>
varsOtel == <<meter, gauges, bound, pcOtel, gotOtel, start, stopOtel, provider, cancelledOtel,
              collOtel, waiter>>
varsMemory == <<files, percent, poller, stat, lastMemoryLimit, ch, applier, GOMEMLIMIT, done,
                changes>>

Anything == CHOOSE f \in [Threads -> Ids] : TRUE   \* ids before the first call
Off == "off"   \* what a part that is not looked at holds
MCInit ==
    /\ part \in Parts
    /\ Init /\ arg = Anything
    /\ IF part = "prwlocker" THEN RW!Init /\ argRW = Anything
       ELSE lRW = Off /\ sRW = Off /\ writer = Off /\ readers = Off /\ refsRW = Off
            /\ pcRW = Off /\ argRW = Off /\ liRW = Off /\ mode = Off
    /\ IF part = "statsd" THEN Statsd!Init
       ELSE enabled = Off /\ connEstablished = Off /\ clients = Off /\ pendingClients = Off
            /\ ready = Off /\ pcStatsd = Off /\ gotStatsd = Off /\ on = Off /\ bg = Off
            /\ stopStatsd = Off /\ ctxDone = Off /\ cancelledStatsd = Off /\ collStatsd = Off
            /\ gauge = Off
    /\ IF part = "otel" THEN Otel!Init
       ELSE meter = Off /\ gauges = Off /\ bound = Off /\ pcOtel = Off /\ gotOtel = Off
            /\ start = Off /\ stopOtel = Off /\ provider = Off /\ cancelledOtel = Off
            /\ collOtel = Off /\ waiter = Off
    /\ IF part = "memory" THEN Memory!Init
       ELSE files = Off /\ percent = Off /\ poller = Off /\ stat = Off
            /\ lastMemoryLimit = Off /\ ch = Off /\ applier = Off /\ GOMEMLIMIT = Off
            /\ done = Off /\ changes = Off

MCNext ==
    \/ part = "plocker" /\ Next
       /\ UNCHANGED <<part, varsRW, varsStatsd, varsOtel, varsMemory>>
    \/ part = "prwlocker" /\ RW!Next
       /\ UNCHANGED <<part, vars, varsStatsd, varsOtel, varsMemory>>
    \/ part = "statsd" /\ Statsd!Next
       /\ UNCHANGED <<part, vars, varsRW, varsOtel, varsMemory>>
    \/ part = "otel" /\ Otel!Next
       /\ UNCHANGED <<part, vars, varsRW, varsStatsd, varsMemory>>
    \/ part = "memory" /\ Memory!Next
       /\ UNCHANGED <<part, vars, varsRW, varsStatsd, varsOtel>>
all == <<part, vars, varsRW, varsStatsd, varsOtel, varsMemory>>

\* A step of one part.
Only(p, A) == /\ part = p /\ A /\ UNCHANGED part
              /\ IF p = "plocker" THEN TRUE ELSE UNCHANGED vars
              /\ IF p = "prwlocker" THEN TRUE ELSE UNCHANGED varsRW
              /\ IF p = "statsd" THEN TRUE ELSE UNCHANGED varsStatsd
              /\ IF p = "otel" THEN TRUE ELSE UNCHANGED varsOtel
              /\ IF p = "memory" THEN TRUE ELSE UNCHANGED varsMemory

\* The fairness of the modules, one conjunct for several parts.
Collectors == {"rc", "mc", "ac"}
MCFairness ==
    /\ \A t \in Threads : /\ SF_all(Only("plocker", Step(t)) \/ Only("prwlocker", RW!Step(t)))
                          /\ WF_all(Only("plocker", UnlockCall(t)) \/ Only("prwlocker", RW!UnlockCall(t)))
    /\ WF_all(Only("statsd", Statsd!Background) \/ Only("otel", Otel!Service) \/ Only("memory", Memory!Goroutine))
    /\ WF_all(Only("statsd", Statsd!StopWaits) \/ Only("memory", Memory!Receive))
    /\ \A c \in Collectors : /\ WF_all(Only("statsd", Statsd!Run(c)) \/ Only("otel", Otel!Collects(c)))
                             /\ WF_all(Only("statsd", Statsd!RunEnds(c)) \/ Only("otel", Otel!CollectorEnds(c)))

MCSpec == MCInit /\ [][MCNext]_all /\ MCFairness

-----------------------------------------------------------------------------
\* Readers and writers of an id exclude each other, writers everybody, and the entry of
\* an id lives exactly as long as it has users.
RWExclusion == part = "prwlocker" => RW!RWExclusion /\ RW!RecordsExact

\* If holders unlock, every Lock and RLock of every id is granted, to readers and to
\* writers.  Callers are interchangeable: what holds of Caller, one of the Threads, holds
\* of all.
Called == CASE part = "plocker" -> pc[Caller] = "lock_l" [] part = "prwlocker" -> pcRW[Caller] = "lock_l"
            [] OTHER -> FALSE
Granted == CASE part = "plocker" -> pc[Caller] = "holding" [] part = "prwlocker" -> pcRW[Caller] = "holding"
             [] OTHER -> FALSE
LocksAreGranted == Called ~> Granted
\* Metrics of the same tags are one instrument, however their creations interleave with
\* each other, the connection and the start of the provider.
OneInstrumentPerSeries == /\ part = "statsd" => Statsd!ClientsExact
                          /\ part = "otel" => Otel!OneGaugePerSeries

\* Stop of either kind of statistics returns, and no collector is left behind that would
\* report values.
Stopping == (part = "statsd" /\ stopStatsd # "call") \/ (part = "otel" /\ stopOtel = "shutdown")
Stopped == (part = "statsd" /\ stopStatsd = "returned") \/ (part = "otel" /\ stopOtel = "returned")
StopEnds == /\ Stopping ~> Stopped
            /\ (part = "statsd" /\ cancelledStatsd) ~> [](part = "statsd" => gauge # "value")
            /\ [](part = "otel" /\ stopOtel = "returned" =>
                    {collOtel["mc"], collOtel["rc"]} \subseteq {"none", "ended"})

\* The memory statistics fit together whatever changes while they are read, and once the
\* limit is left alone GOMEMLIMIT becomes the percentage of it and stays that.
LimitFollows == /\ [](part = "memory" => Memory!StatFits)
                /\ <>[](part = "memory" => GOMEMLIMIT = Memory!Limit(percent, Memory!GetMemoryLimit) \/ applier = "done")

\* Comment of getClient (statsd.go): the clients that are pending are created when the
\* connection is established.
PendingServed == part = "statsd" => Statsd!PendingServed
=============================================================================
