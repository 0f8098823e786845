---------------------------- MODULE MCResources -----------------------------
(***************************************************************************)
(* What goroutines share, one at a time: the resources with a ttl, the     *)
(* heap of a priority queue, the registry of metrics, a counter and a      *)
(* gauge, the averages over windows, the views of histograms and the       *)
(* Prometheus exporter.                                                    *)
(***************************************************************************)
EXTENDS ResourceCache, Sequences, TLC

CONSTANTS Parts
VARIABLES part, pq, indexQueue, prio, ts, nowQueue, store, indexRegistry, kind, pool,
          pcRegistry, callRegistry, new, res, bits, int, gauge, pcCounter, op, old, total,
          level, low, window, times, indexWindows, size, sum, simple, var, count, nowWindows,
          seen, given, config, applied, families, sent, point, out

Label(k, v) == [key |-> k, value |-> v]
MCSanitizeKey == ("a.b" :> "a_b") @@ ("a_b" :> "a_b") @@ ("job" :> "job")
MCPoints == [kind : {"sum", "upDown"}, value : {1},
             attrs : {<<>>, <<Label("a.b", 2), Label("a_b", 1)>>, <<Label("job", 1)>>}]
             \cup [kind : {"histogram"}, attrs : {<<>>}, counts : [1..3 -> 0..1]]
             \cup [kind : {"exponential"}, attrs : {<<>>}, scale : {-2, 1, 3},
                   buckets : [offset : {-3, 0, 1}, counts : UNION {[1..n -> {0, 1}] : n \in {0, 2, 3}}]]

Queue == INSTANCE PriorityQueue WITH
       Items <- {"x1", "x2", "x3", "x4"}, Priorities <- {1, 2}, MaxTime <- 1,
       index <- indexQueue, now <- nowQueue
Registry == INSTANCE MetricRegistry WITH
       Threads <- Threads, Keys <- Keys, Objs <- {11, 12, 13}, None <- NoKey,
       index <- indexRegistry, pc <- pcRegistry, call <- callRegistry
Counter == INSTANCE MetricCounter WITH Threads <- Threads, Values <- {-1, 1, 2, 3},
             pc <- pcCounter
Windows == INSTANCE MetricWindows WITH
       Samples <- {0, 32, 64}, Size <- 3, Warmup <- 2, MaxSamples <- 4, MaxTime <- 2,
       index <- indexWindows, now <- nowWindows
ViewsOf == INSTANCE HistogramViews WITH
       Names <- {"n1", "n2"}, Sizes <- {1, 2}, Buckets <- {"b1", "b2"}, MaxOptions <- 3,
       None <- NoKey
Exporter == INSTANCE PromExporter WITH
       Names <- {"n1"}, Helps <- {"", "h"}, NoHelp <- "", Points <- MCPoints,
       SanitizeKey <- MCSanitizeKey, ResourceKeys <- {"job"}, MaxScale <- 1, MinScale <- -1,
       None <- NoKey

varsQueue == <<pq, indexQueue, prio, ts, nowQueue>>
varsRegistry == <<store, indexRegistry, kind, pool, pcRegistry, callRegistry, new, res>>
varsCounter == <<bits, int, gauge, pcCounter, op, old, total, level, low>>
varsWindows == <<window, times, indexWindows, size, sum, simple, var, count, nowWindows, seen,
                 given>>
varsViewsOf == <<config, applied>>
varsExporter == <<families, sent, point, out>>

Off == "off"   \* what a part that is not looked at holds
MCInit ==
    /\ part \in Parts
    /\ Init
    /\ IF part = "queue" THEN Queue!Init
       ELSE pq = Off /\ indexQueue = Off /\ prio = Off /\ ts = Off /\ nowQueue = Off
    /\ IF part = "registry" THEN Registry!Init
       ELSE store = Off /\ indexRegistry = Off /\ kind = Off /\ pool = Off
            /\ pcRegistry = Off /\ callRegistry = Off /\ new = Off /\ res = Off
    /\ IF part = "counter" THEN Counter!Init
       ELSE bits = Off /\ int = Off /\ gauge = Off /\ pcCounter = Off /\ op = Off
            /\ old = Off /\ total = Off /\ level = Off /\ low = Off
    /\ IF part = "windows" THEN Windows!Init
       ELSE window = Off /\ times = Off /\ indexWindows = Off /\ size = Off /\ sum = Off
            /\ simple = Off /\ var = Off /\ count = Off /\ nowWindows = Off /\ seen = Off
            /\ given = Off
    /\ IF part = "views" THEN ViewsOf!Init
       ELSE config = Off /\ applied = Off
    /\ IF part = "exporter" THEN Exporter!Init
       ELSE families = Off /\ sent = Off /\ point = Off /\ out = Off

MCNext ==
    \/ part = "resources" /\ Next
       /\ UNCHANGED <<part, varsQueue, varsRegistry, varsCounter, varsWindows, varsViewsOf,
                     varsExporter>>
    \/ part = "queue" /\ Queue!Next
       /\ UNCHANGED <<part, vars, varsRegistry, varsCounter, varsWindows, varsViewsOf,
                     varsExporter>>
    \/ part = "registry" /\ Registry!Next
       /\ UNCHANGED <<part, vars, varsQueue, varsCounter, varsWindows, varsViewsOf,
                     varsExporter>>
    \/ part = "counter" /\ Counter!Next
       /\ UNCHANGED <<part, vars, varsQueue, varsRegistry, varsWindows, varsViewsOf,
                     varsExporter>>
    \/ part = "windows" /\ Windows!Next
       /\ UNCHANGED <<part, vars, varsQueue, varsRegistry, varsCounter, varsViewsOf,
                     varsExporter>>
    \/ part = "views" /\ ViewsOf!Next
       /\ UNCHANGED <<part, vars, varsQueue, varsRegistry, varsCounter, varsWindows,
                     varsExporter>>
    \/ part = "exporter" /\ Exporter!Next
       /\ UNCHANGED <<part, vars, varsQueue, varsRegistry, varsCounter, varsWindows,
                     varsViewsOf>>
all == <<part, vars, varsQueue, varsRegistry, varsCounter, varsWindows, varsViewsOf,
         varsExporter>>

MCSpec == MCInit /\ [][MCNext]_all

\* Goroutines are interchangeable, and so are keys.
Symmetry == Permutations(Threads) \cup Permutations(Keys)

-----------------------------------------------------------------------------
\* The heap keeps its order and its indices although Less is not strict and Update changes
\* priorities in the middle, and what is popped leaves nothing that goes before it.
QueueWorks == [][part = "queue" => /\ Queue!HeapIsValid'
                                   /\ Len(pq') < Len(pq) => Queue!PopsOne]_all


\* Metrics are counted right by goroutines that share them: one value per key, no
\* addition lost; and the windows and weighted averages are those of the samples.
MetricsAreExact == /\ part = "registry" => Registry!OneValuePerKey
                   /\ part = "counter" => Counter!NothingLost
                   /\ part = "windows" => Windows!WindowsAreRight

\* What is exported is what was observed, under the view that was asked for: one type
\* and help per name, no observation lost or moved out of its bucket.
ExportsAreFaithful == /\ part = "views" => ViewsOf!ViewsFollowOptions
                      /\ part = "exporter" => Exporter!ExportIsFaithful

\* Doc of WithDefaultExponentialHistogram: of it and WithDefaultHistogramBuckets the last one
\* applied wins.
LastAppliedWins == part = "views" => ViewsOf!LastAppliedWins
=============================================================================
