---------------------------- MODULE PromExporter ----------------------------
(***************************************************************************)
(* stats/internal/otel/prometheus/exporter.go: what the exporter makes of    *)
(* the metrics the SDK collected.  Scrapes that follow each other share the  *)
(* families (nothing protects them from scrapes at the same time).  Bucket   *)
(* i of an exponential histogram of scale s is (2^(i/2^s), 2^((i+1)/2^s)].    *)
(***************************************************************************)
EXTENDS Integers, Sequences, FiniteSets, SequencesExt, FiniteSetsExt, Functions

CONSTANTS Names, Helps, NoHelp,
          Points,             \* data points: their kind, attributes and data
          SanitizeKey,        \* the label a key becomes, sanitizeRune on every character
          ResourceKeys,       \* the labels of the resource
          MaxScale, MinScale, \* of native histograms: 8 and -4
          None

VARIABLES families,           \* metricFamilies: type and help by name
          sent,               \* history: <<name, type, help>> of what was sent
          point, out          \* the last data point, and what was sent for it

vars == <<families, sent, point, out>>

Init == /\ families = [n \in Names |-> None] /\ sent = {}
        /\ point = None /\ out = None

-----------------------------------------------------------------------------
(* Labels: getAttrs joins the values of keys that become the same label *)

LabelsOf(attrs) == {SanitizeKey[attrs[i].key] : i \in DOMAIN attrs}

\* Less compares positions, which leaves the values in the order of their keys.
Joined(vals) == vals

Values(attrs, k) ==
    LET of == SelectSeq(attrs, LAMBDA a : SanitizeKey[a.key] = k)
    IN Joined([i \in DOMAIN of |-> of[i].value])

Labels(attrs) == [k \in LabelsOf(attrs) |-> Values(attrs, k)]

\* client_golang refuses a label that comes twice.
Refused(attrs) == LabelsOf(attrs) \cap ResourceKeys # {}

-----------------------------------------------------------------------------
(* Buckets *)

SumOf(s) == FoldFunction(+, 0, s)
Cumulative(counts) == [i \in DOMAIN counts |-> SumOf(SubSeq(counts, 1, i))]

\* Fault: a negative index is rounded towards zero.
Shift_TowardsZero(i, delta) == IF i < 0 THEN -((-i) \div 2^delta) ELSE i \div 2^delta
\* An arithmetic shift rounds down.
Shift(i, delta) == i \div 2^delta

Downscale(b, delta) ==
    LET offset == Shift(b.offset, delta)
        last == Shift(b.offset + Len(b.counts) - 1, delta)
        Merged(j) == {i \in DOMAIN b.counts : Shift(b.offset + i - 1, delta) = offset + j - 1}
    IN IF b.counts = <<>> THEN [b EXCEPT !.offset = offset]
       ELSE [offset |-> offset,
             counts |-> [j \in 1..last - offset + 1 |->
                           MapThenSumSet(LAMBDA i : b.counts[i], Merged(j))]]

Scaled(b, scale) == IF scale > MaxScale THEN Downscale(b, scale - MaxScale) ELSE b

\* A native bucket is numbered by its upper bound.
Native(b) == [k \in {b.offset + i : i \in DOMAIN b.counts} |-> b.counts[k - b.offset]]

-----------------------------------------------------------------------------
(* Collect, one data point *)

TypeOf(p) == CASE p.kind = "sum" -> "counter"
               [] p.kind \in {"gauge", "upDown"} -> "gauge"
               [] OTHER -> "histogram"

Data(p) == CASE p.kind = "histogram" -> Cumulative(p.counts)
             [] p.kind = "exponential" -> Native(Scaled(p.buckets, p.scale))
             [] OTHER -> p.value

Exports(p) == ~Refused(p.attrs) /\ ~(p.kind = "exponential" /\ p.scale < MinScale)

\* validateMetrics: the first type of a name is its type; its first help its help,
\* unless that is empty.
Dropped(n, p) == families[n] # None /\ families[n].type # TypeOf(p)
Help(n, help) == IF families[n] = None \/ families[n].help = NoHelp THEN help
                 ELSE families[n].help

Add(n, help, p) ==
    /\ families' = [families EXCEPT ![n] = IF @ = None THEN [type |-> TypeOf(p), help |-> help]
                                           ELSE @]
    /\ point' = p
    /\ IF Dropped(n, p) \/ ~Exports(p) THEN out' = None /\ UNCHANGED sent
       ELSE /\ out' = [labels |-> Labels(p.attrs), data |-> Data(p)]
            /\ sent' = sent \cup {<<n, TypeOf(p), Help(n, help)>>}

Next == \E n \in Names, help \in Helps, p \in Points : Add(n, help, p)
Spec == Init /\ [][Next]_vars

-----------------------------------------------------------------------------
\* What a native bucket counts lies between its bounds, scaled by 2^scale.
Covers(k, width, i) == (k - 1) * width <= i /\ i + 1 <= k * width

Faithful(b, scale, native) ==
    LET width == IF scale > MaxScale THEN 2^(scale - MaxScale) ELSE 1
        Covered(k) == {i \in DOMAIN b.counts : Covers(k, width, b.offset + i - 1)}
    IN /\ \A i \in DOMAIN b.counts : \E k \in DOMAIN native : Covers(k, width, b.offset + i - 1)
       /\ \A k \in DOMAIN native : native[k] = MapThenSumSet(LAMBDA i : b.counts[i], Covered(k))

\* All that is sent under a name has one type, and one help unless its first was empty.
OneTypePerName ==
    \A x, y \in sent : x[1] = y[1] => /\ x[2] = y[2]
                                      /\ x[3] = y[3] \/ families[x[1]].help = NoHelp

\* An exponential histogram loses no observation and moves none out of its bucket when
\* its resolution is lowered.
BucketsAreFaithful == out # None /\ point.kind = "exponential" =>
                        Faithful(point.buckets, point.scale, out.data)

\* What is sent under a name fits together, exponential histograms keep what they
\* counted, and the buckets of a histogram are cumulative.
ExportIsFaithful ==
    /\ OneTypePerName
    /\ BucketsAreFaithful
    /\ out # None /\ point.kind = "histogram" =>
         \A i \in DOMAIN out.data : out.data[i] = (IF i = 1 THEN 0 ELSE out.data[i - 1]) + point.counts[i]
    /\ out # None => \A i \in DOMAIN point.attrs :
         \E v \in DOMAIN out.labels[SanitizeKey[point.attrs[i].key]] :
            out.labels[SanitizeKey[point.attrs[i].key]][v] = point.attrs[i].value
=============================================================================
