--------------------------- MODULE HistogramViews ---------------------------
(***************************************************************************)
(* stats/options.go, stats/otel.go, stats/internal/otel: how the options a   *)
(* service is created with decide the aggregation of a histogram.  Options   *)
(* fill the configuration, Start turns it into views of the meter provider,  *)
(* and the SDK gives a histogram the first view that matches it.             *)
(***************************************************************************)
EXTENDS Naturals, Sequences, SequencesExt

CONSTANTS Names, Sizes, Buckets,  \* of histograms, exponential ones and explicit ones
          MaxOptions, None

All == "all"                      \* the instrument name of a view of all histograms

Options == [kind : {"defaultBuckets"}, name : {All}, arg : Buckets]
             \cup [kind : {"defaultExponential"}, name : {All}, arg : Sizes]
             \cup [kind : {"buckets"}, name : Names, arg : Buckets]
             \cup [kind : {"exponential"}, name : Names, arg : Sizes]

VARIABLES config,             \* statsConfig: what each kind of option set, by name
          applied             \* history: the options in the order they were applied

vars == <<config, applied>>

Init == /\ config = [o \in {x.kind : x \in Options} |-> [n \in Names \cup {All} |-> None]]
        /\ applied = <<>>

Apply(o) == /\ Len(applied) < MaxOptions
            /\ config' = [config EXCEPT ![o.kind][o.name] = o.arg]
            /\ applied' = Append(applied, o)

Next == \E o \in Options : Apply(o)
Spec == Init /\ [][Next]_vars

View(name, kind, arg) == [name |-> name, agg |-> <<kind, arg>>]

\* Start: the default, one view if any, and those of the histograms.
DefaultView ==
    IF config.defaultExponential[All] # None
    THEN <<View(All, "exponential", config.defaultExponential[All])>>
    ELSE IF config.defaultBuckets[All] # None
    THEN <<View(All, "buckets", config.defaultBuckets[All])>>
    ELSE <<>>

Exponential(n) == config.exponential[n] # None

NamedViews == {View(n, "exponential", config.exponential[n]) : n \in {x \in Names : Exponential(x)}}
               \cup {View(n, "buckets", config.buckets[n]) :
                       n \in {x \in Names : config.buckets[x] # None /\ ~Exponential(x)}}

\* getMeterProviderOptions: the maps are read in any order, the default comes last.
Views == SetToSeq(NamedViews) \o DefaultView

\* The SDK: the first view that matches, or its own buckets.
Aggregation(n) ==
    LET m == SelectSeq(Views, LAMBDA v : v.name \in {n, All})
    IN IF m = <<>> THEN <<"sdk">> ELSE m[1].agg

-----------------------------------------------------------------------------
Of(kinds, n) == SelectSeq(applied, LAMBDA o : o.kind \in kinds /\ o.name = n)
LastOf(kinds, n) == LET o == Of(kinds, n)[Len(Of(kinds, n))]
                    IN <<IF o.kind \in {"exponential", "defaultExponential"} THEN "exponential"
                         ELSE "buckets", o.arg>>

Defaults == {"defaultExponential", "defaultBuckets"}
Named(n) == Of({"exponential", "buckets"}, n) # <<>>

\* A histogram has the aggregation that the last option for it asks for, an exponential one
\* before explicit buckets; without any, the last that was asked for as the default, if all
\* ask for one kind, and what the last of either kind asks for if they do not.
ViewsFollowOptions ==
    \A n \in Names :
      IF Of({"exponential"}, n) # <<>> THEN Aggregation(n) = LastOf({"exponential"}, n)
      ELSE IF Named(n) THEN Aggregation(n) = LastOf({"buckets"}, n)
      ELSE IF Of(Defaults, All) = <<>> THEN Aggregation(n) = <<"sdk">>
      ELSE Aggregation(n) \in {LastOf({k}, All) : k \in {d \in Defaults : Of({d}, All) # <<>>}}

\* "mutually exclusive with WithDefaultHistogramBuckets. The last one applied wins."
\* (options.go:68)
LastAppliedWins ==
    \A n \in Names : ~Named(n) /\ Of(Defaults, All) # <<>> => Aggregation(n) = LastOf(Defaults, All)
=============================================================================
