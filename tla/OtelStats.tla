------------------------------ MODULE OtelStats ------------------------------
(***************************************************************************)
(* stats/otel.go: the gauges of an OpenTelemetry service, the instruments    *)
(* they belong to, Start, the collection it leaves in the background, and    *)
(* Stop with internal/otel's Shutdown.  A service is stopped after            *)
(* Start has returned; the caches are used under their mutex.          *)
(***************************************************************************)
EXTENDS Naturals, FiniteSets

CONSTANTS Callers, TagsOf,    \* goroutines that ask for a gauge, and with which tags
          AttrsOf,            \* the attribute sets that may be made of tags: several when
                              \* two keys become the same and the map's order decides
          Periodic, None

Collectors == {"mc", "ac", "rc"}
Series == UNION {AttrsOf[tags] : tags \in {TagsOf[t] : t \in Callers}}

VARIABLES meter,              \* the meter in use: of the global provider, the service's, a noop
          gauges,             \* the cached gauge of a series: the caller that asked first
          bound,              \* the meter the callback of a gauge is registered with
          pc, got,            \* of each caller
          start, stop,        \* where Start and Stop are
          provider,           \* the meter provider: none, running, shut
          cancelled, coll,    \* the context of the collectors, and what each does
          waiter              \* the goroutine of Shutdown that sends what the providers answer

vars == <<meter, gauges, bound, pc, got, start, stop, provider, cancelled, coll, waiter>>
callers == <<gauges, bound, pc, got>>
service == <<meter, start, stop, provider, cancelled, coll, waiter>>

Init == /\ meter = "global" /\ provider = "none"
        /\ gauges = [s \in Series |-> None] /\ bound = [t \in Callers |-> None]
        /\ pc = [t \in Callers |-> "call"] /\ got = [t \in Callers |-> None]
        /\ start = "call" /\ stop = "no" /\ cancelled = FALSE
        /\ coll = [c \in Collectors |-> "none"]
        /\ waiter = "none"

-----------------------------------------------------------------------------
\* getGauge with the attribute set that canonicalMeasurementIdentity made.
Cached(s) == gauges[s] # None

GetGauge(t) ==
    /\ pc[t] = "call" /\ pc' = [pc EXCEPT ![t] = "got"]
    /\ \E s \in AttrsOf[TagsOf[t]] :
         IF Cached(s)
         THEN got' = [got EXCEPT ![t] = gauges[s]] /\ UNCHANGED <<gauges, bound>>
         ELSE /\ gauges' = [gauges EXCEPT ![s] = t]
              /\ bound' = [bound EXCEPT ![t] = meter]
              /\ got' = [got EXCEPT ![t] = t]
    /\ UNCHANGED service

-----------------------------------------------------------------------------
(* Start *)

\* Setup fails, or gives a provider when metrics have somewhere to go.
Setup == /\ start = "call"
         /\ \/ start' = "failed" /\ UNCHANGED <<meter, provider>>
            \/ start' = "mc" /\ \/ meter' = "real" /\ provider' = "running"
                                \/ meter' = "noop" /\ UNCHANGED provider
         /\ UNCHANGED <<callers, stop, cancelled, coll, waiter>>

\* The collectors are made and their goroutines started in this order.
After == [mc |-> "ac", ac |-> IF Periodic THEN "rc" ELSE "running", rc |-> "running"]

StartCollector == \E c \in Collectors :
    /\ start = c /\ start' = After[c]
    /\ coll' = [coll EXCEPT ![c] = "made"]
    /\ UNCHANGED <<callers, meter, stop, provider, cancelled, waiter>>

Collects(c) == /\ coll[c] \in {"made", "run"}
               /\ coll' = [coll EXCEPT ![c] = "run"]
               /\ UNCHANGED <<callers, meter, start, stop, provider, cancelled, waiter>>

\* It sets its gauges to zero, if it has any, and ends.
CollectorEnds(c) == /\ coll[c] = "run" /\ cancelled
                    /\ coll' = [coll EXCEPT ![c] = "ended"]
                    /\ UNCHANGED <<callers, meter, start, stop, provider, cancelled, waiter>>

-----------------------------------------------------------------------------
(* Stop: Shutdown of the providers within ten seconds, then of the collection *)

Stop == /\ stop = "no" /\ start \in {"failed", "running"}
        /\ stop' = "shutdown" /\ waiter' = "providers"
        /\ UNCHANGED <<callers, meter, start, provider, cancelled, coll>>

\* The providers are shut, with a last export or without.
ProvidersShut == /\ waiter = "providers" /\ waiter' = "send"
                 /\ provider' = IF provider = "none" THEN "none" ELSE "shut"
                 /\ UNCHANGED <<callers, meter, start, stop, cancelled, coll>>

\* Either the answer, or the timeout: then nobody receives from the waiter.
ShutdownReturns == /\ stop = "shutdown"
                   /\ \/ waiter = "send" /\ waiter' = "done"
                      \/ UNCHANGED waiter
                   /\ stop' = "cancel"
                   /\ UNCHANGED <<callers, meter, start, provider, cancelled, coll>>

Cancel == /\ stop = "cancel" /\ stop' = "mc"
          /\ cancelled' = (start = "running")
          /\ UNCHANGED <<callers, meter, start, provider, coll, waiter>>

\* Fault: nobody is waited for.
Waited_Always(c) == TRUE
Waited(c) == coll[c] \in {"none", "ended"}

StopWaits == /\ stop \in {"mc", "rc"} /\ Waited(stop)
             /\ stop' = IF stop = "mc" THEN "rc" ELSE "returned"
             /\ UNCHANGED <<callers, meter, start, provider, cancelled, coll, waiter>>

Service == Setup \/ StartCollector \/ ShutdownReturns \/ Cancel \/ StopWaits
Next == \/ \E t \in Callers : GetGauge(t)
        \/ Service \/ \E c \in Collectors : Collects(c) \/ CollectorEnds(c)
        \/ Stop \/ ProvidersShut

Fairness == /\ WF_vars(Service)
            /\ \A c \in Collectors : WF_vars(Collects(c)) /\ WF_vars(CollectorEnds(c))

Spec == Init /\ [][Next]_vars /\ Fairness

-----------------------------------------------------------------------------
\* Gauges asked for with tags that mean one series are one gauge, with others
\* different ones, and the callback that reports it was registered once.
OneGaugePerSeries ==
    \A t, u \in {x \in Callers : got[x] # None} :
       /\ bound[got[t]] # None
       /\ got[t] = got[u] => AttrsOf[TagsOf[t]] \cap AttrsOf[TagsOf[u]] # {}
       /\ TagsOf[t] = TagsOf[u] /\ Cardinality(AttrsOf[TagsOf[t]]) = 1 => got[t] = got[u]

=============================================================================
