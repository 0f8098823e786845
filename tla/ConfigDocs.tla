----------------------------- MODULE ConfigDocs -----------------------------
(***************************************************************************)
(* cmd/cdoc: getter calls and //cdoc: directives of the project's files, in the *)
(* order of their lines, become entries; entries of one key become one row.    *)
(* Go syntax is abstracted to directives and the shapes of calls.              *)
(***************************************************************************)
EXTENDS Integers, FiniteSets, Sequences, SequencesExt

CONSTANTS Files,            \* the files, in the order of the walk
          Types,            \* -parse-mode types, not ast
          Calls,            \* shapes: [keys (literals, or Dynamic), variadic, family, def [as, text], unit, hot, config]
          Dynamic, EnvKeys, \* a key that is no literal; keys spelled as environment variables
          Directives,       \* <<kind, value>>
          DurationUnits, Abbreviated,  \* the units rendered by an abbreviation
          MaxLookback,      \* maxLookback, 10 in the code
          MaxEvents         \* bound: directives and calls

VARIABLES file, line,       \* index of the file, line of its last event
          group,            \* currentGroup and its order
          pending,          \* per-call directives: [kind, value, line, consumed, by]
          entries, declared, warnings,
          calls, events     \* history: <<first, last>> lines of the calls of the file; bound
vars == <<file, line, group, pending, entries, declared, warnings, calls, events>>

NoGroup == <<"", 0>>
Init == /\ file = 1 /\ line = 0 /\ group = NoGroup /\ pending = <<>> /\ entries = <<>>
        /\ declared = <<>> /\ warnings = {} /\ calls = {} /\ events = 0

\* A directive: a group is for all calls that follow and orders it in the project.
Directive(d, at) ==
    /\ at > line /\ line' = at
    /\ IF d[1] = "group"
       THEN /\ group' = d[2] /\ UNCHANGED pending
            /\ declared' = IF d[2][2] = 0 \/ d[2][1] = "" THEN declared ELSE Append(declared, d[2])
       ELSE /\ UNCHANGED <<group, declared>>
            /\ pending' = Append(pending, [kind |-> d[1], value |-> d[2], line |-> at,
                                           consumed |-> FALSE, by |-> {}])
    /\ UNCHANGED <<file, entries, warnings, calls>>

Unconsumed(kind, from, to) ==
    {i \in DOMAIN pending : /\ pending[i].kind = kind /\ ~pending[i].consumed
                            /\ pending[i].line \in from..to}
Highest(s) == {i \in s : \A j \in s : j <= i}
Lowest(s) == {i \in s : \A j \in s : i <= j}

\* consumeIgnoreDirective: on the line of the call, else on the line before.
IgnoredBy(first) == LET here == Lowest(Unconsumed("ignore", first, first))
                    IN IF here # {} THEN here ELSE Lowest(Unconsumed("ignore", first - 1, first - 1))
\* consumeNearestDirectiveValue: the nearest, not inside the call.
DescOf(first) == Highest(Unconsumed("desc", first - MaxLookback, first))
\* collectKeyAndDefaultOverrides: inside the call too; of several defaults the last.
KeyDirectives(first, last) == Unconsumed("key", first - MaxLookback, last)
DefaultDirectives(first, last) == Unconsumed("default", first - MaxLookback, last)
ValueOf(s, none) == IF s = {} THEN none ELSE pending[CHOOSE i \in s : TRUE].value
Overrides(first, last) ==
    FlattenSeq([i \in DOMAIN pending |-> IF i \in KeyDirectives(first, last)
                                         THEN pending[i].value ELSE <<>>])

\* classifyKeys: the overrides take the places of the arguments that are no literals, in
\* order, and a variadic last one takes all that are left.
Nth(c, i) == Cardinality({j \in 1..i : c.keys[j] = Dynamic})
KeysOf(c, over) ==
    FlattenSeq([i \in DOMAIN c.keys |->
        IF c.keys[i] # Dynamic THEN <<c.keys[i]>>
        ELSE SubSeq(over, Nth(c, i), IF c.variadic /\ i = Len(c.keys) THEN Len(over)
                                     ELSE IF Nth(c, i) <= Len(over) THEN Nth(c, i) ELSE 0)])
Dynamics(c) == Nth(c, Len(c.keys))
UsesAllLeft(c) == c.variadic /\ c.keys[Len(c.keys)] = Dynamic
KeyWarnings(c, over, at) ==
    (IF Dynamics(c) > Len(over) THEN {<<"dynamic_key_missing", file, at>>} ELSE {})
    \cup (IF Len(over) > Dynamics(c) /\ ~UsesAllLeft(c) THEN {<<"unused_key_override", file, at>>} ELSE {})

\* How the default of a getter is rendered: an expression, [as, text] ("integer", not
\* negative; "literal"; or "expression", which gets ${ and }), and the unit shown with it.
\* A duration that is no non-negative integer is rendered without its unit.
Plain(x) == <<x, "">>
RenderDuration(x, unit) == IF unit \notin DurationUnits THEN <<x, unit>>
                           ELSE IF x.as = "integer" /\ x.text # "0" THEN <<x, unit>> ELSE Plain(x)
RenderWithUnit(x, unit) == IF unit = "1" THEN Plain(x)
                           ELSE IF unit \in Abbreviated THEN <<x, unit>>
                           ELSE <<x, "*" \o unit>>
\* extractEntry: by the family of the method, unless there is a directive.
RenderedDefault(c, over) == IF over # "" THEN Plain([as |-> "integer", text |-> over])
                            ELSE CASE c.family = "simple" -> Plain(c.def)
                                   [] c.family = "duration" -> RenderDuration(c.def, c.unit)
                                   [] c.family = "unit" -> RenderWithUnit(c.def, c.unit)
\* What the default is, and whether its rendering says so.
Denoted(c, over) == IF over # "" THEN Plain([as |-> "integer", text |-> over])
                    ELSE <<c.def, IF c.family = "simple" \/ c.def.text = "0" THEN "1" ELSE c.unit>>
Lossy(c, over) == over # "" \/ (c.family = "duration" /\ c.def.as # "integer")

Consume(s, by) == pending' = [i \in DOMAIN pending |->
                                 IF i \in s THEN [pending[i] EXCEPT !.consumed = TRUE, !.by = @ \cup {by}]
                                 ELSE pending[i]]

\* A getter call, from its first to its last line, after the directives inside it.
Call(c, first, last) ==
    LET over == Overrides(first, last)
        desc == DescOf(first)
        keys == KeysOf(c, over)
        default == ValueOf(Highest(DefaultDirectives(first, last)), "")
    IN /\ c.config \/ ~Types
       /\ last >= line /\ first >= 1 /\ \A l \in calls : l[1] < first
       /\ line' = last /\ calls' = calls \cup {<<first, last>>}
       /\ IF IgnoredBy(first) # {}
          THEN Consume(IgnoredBy(first), first) /\ UNCHANGED <<entries, warnings>>
          ELSE /\ Consume(desc \cup KeyDirectives(first, last) \cup DefaultDirectives(first, last), first)
               /\ IF c.keys = <<>>
                  THEN warnings' = warnings \cup {<<"invalid_arg_count", file, first>>} /\ UNCHANGED entries
                  ELSE /\ warnings' = warnings \cup KeyWarnings(c, over, first)
                       /\ entries' = Append(entries,
                            [key |-> keys, file |-> file, line |-> first,
                             conf |-> Range(keys) \ EnvKeys, env |-> Range(keys) \cap EnvKeys,
                             def |-> RenderedDefault(c, default), value |-> Denoted(c, default),
                             lossy |-> Lossy(c, default),
                             desc |-> ValueOf(desc, ""), hot |-> c.hot,
                             group |-> group[1], order |-> group[2]])
       /\ UNCHANGED <<file, group, declared>>

\* The end of a file: what was written for no call is warned of.
EndOfFile ==
    /\ file <= Len(Files) /\ file' = file + 1
    /\ warnings' = warnings \cup {<<"unused_" \o pending[i].kind, file, pending[i].line>> :
                       i \in {j \in DOMAIN pending : ~pending[j].consumed /\ pending[j].kind \in {"desc", "default"}}}
    /\ line' = 0 /\ calls' = {} /\ group' = NoGroup /\ pending' = <<>>
    /\ UNCHANGED <<entries, declared, events>>

Event == /\ file <= Len(Files) /\ events < MaxEvents /\ events' = events + 1
         /\ \E at \in line .. line + MaxLookback + 1 :
               \/ \E d \in Directives : Directive(d, at)
               \/ \E c \in Calls, first \in {at, at - 1} : Call(c, first, at)
Next == Event \/ EndOfFile
Spec == Init /\ [][Next]_vars

\* DeduplicateEntries: entries of the same keys are merged into the first, whose group is
\* not taken from a later line of its own file.
Forward(row, e) == row.file = e.file /\ e.line > row.line /\ row.group = "" /\ e.group # ""
Merge(row, e) == [row EXCEPT !.desc = IF @ = "" THEN e.desc ELSE @,
                             !.group = IF @ = "" /\ ~Forward(row, e) THEN e.group ELSE @,
                             !.order = IF @ = 0 /\ ~Forward(row, e) THEN e.order ELSE @,
                             !.env = @ \cup e.env, !.conf = @ \cup e.conf, !.hot = @ \/ e.hot]
Conflicts(row, e) == (IF row.def # e.def THEN {<<"conflicting_default", e.file, e.line>>} ELSE {})
                     \cup (IF row.group # "" /\ e.group # "" /\ row.group # e.group
                           THEN {<<"conflicting_group", e.file, e.line>>} ELSE {})
Deduplicate ==
    FoldLeft(LAMBDA acc, e :
                 IF e.key = <<>> THEN acc
                 ELSE LET i == SelectInSeq(acc.rows, LAMBDA r : r.key = e.key)
                      IN IF i = 0 THEN [acc EXCEPT !.rows = Append(@, e)]
                         ELSE [rows |-> [acc.rows EXCEPT ![i] = Merge(@, e)],
                               warned |-> acc.warned \cup Conflicts(acc.rows[i], e)],
             [rows |-> <<>>, warned |-> {}], entries)

\* ApplyProjectGroupOrders: the first declaration of a group wins.
DeclaredOrder(g) == LET i == SelectInSeq(declared, LAMBDA d : d[1] = g)
                    IN IF i = 0 THEN 0 ELSE declared[i][2]
Rows == LET rows == Deduplicate.rows
        IN [i \in DOMAIN rows |-> IF DeclaredOrder(rows[i].group) = 0 THEN rows[i]
                                  ELSE [rows[i] EXCEPT !.order = DeclaredOrder(rows[i].group)]]
\* FormatMarkdown: the order of a group is the first its rows have; the unordered are last.
GroupOrder(g) == LET i == SelectInSeq(Rows, LAMBDA r : r.group = g /\ r.order # 0)
                 IN IF i = 0 THEN 0 ELSE Rows[i].order
ShownBefore(g, h) == GroupOrder(g) # 0 /\ (GroupOrder(h) = 0 \/ GroupOrder(g) < GroupOrder(h))

-----------------------------------------------------------------------------
\* A call looks for a directive on its own line and those before it, for an ignore only on
\* the one before, for a key or a default on the lines it spans too.
Reaches(c, d) == CASE d.kind = "ignore" -> c[1] - d.line \in 0..1
                   [] d.kind = "desc" -> c[1] - d.line \in 0..MaxLookback
                   [] OTHER -> c[1] - d.line <= MaxLookback /\ d.line <= c[2]
\* What a call has taken instead leaves the directive i to the calls that follow: an ignore,
\* or a description nearer to it.
Spares(c, i) == \E j \in DOMAIN pending \ {i} :
                   /\ c[1] \in pending[j].by
                   /\ \/ pending[j].kind = "ignore"
                      \/ pending[j].kind = "desc" /\ pending[i].kind = "desc" /\ j > i
\* Each directive is for the first of the calls that can take it, and for no other; it is
\* lost only if there is none.
DirectivesApply ==
    \A i \in DOMAIN pending :
       LET takers == {c \in calls : Reaches(c, pending[i]) /\ ~Spares(c, i)}
       IN  pending[i].by = {c[1] : c \in {b \in takers : \A a \in takers : b[1] <= a[1]}}

\* An entry shows the description that is for its call, the default, and the keys.
EntriesShow ==
    \A e \in {x \in Range(entries) : x.file = file} :
       LET Given(kind) == {pending[i].value : i \in {j \in DOMAIN pending :
                              pending[j].kind = kind /\ e.line \in pending[j].by}}
       IN  /\ Given("desc") = {e.desc} \ {""}
           /\ Given("default") # {} => e.def[1].text \in Given("default")
           /\ \A k \in Range(e.key) : \/ \E c \in Calls : k \in Range(c.keys)
                                     \/ \E ks \in Given("key") : k \in Range(ks)

\* Groups are shown in the order of their first numbered declarations, those without a
\* number after them.
GroupsInOrder ==
    \A r, s \in Range(Rows) :
       (/\ r.group # "" /\ s.group # "" /\ DeclaredOrder(r.group) # 0
        /\ DeclaredOrder(s.group) = 0 \/ DeclaredOrder(r.group) < DeclaredOrder(s.group))
         => ShownBefore(r.group, s.group)

\* The keys of every entry are in one row, which says reloadable if one of them is, and has a
\* description if one has; if two defaults of it differ (and their rendering keeps the
\* unit), a warning says so.
RowsMerge ==
    LET of(e) == {i \in DOMAIN Rows : Rows[i].key = e.key}
        All == {e \in Range(entries) : e.key # <<>>}
        Of(r) == {e \in All : e.key = r.key}
    IN /\ \A e \in All : Cardinality(of(e)) = 1
       /\ \A r \in Range(Rows) :
            /\ r.conf \cup r.env = Range(r.key)
            /\ r.hot = \E e \in Of(r) : e.hot
            /\ (r.desc = "") = \A e \in Of(r) : e.desc = ""
            /\ r.group # "" => \E e \in Of(r) : e.group = r.group
            /\ (\E d, e \in Of(r) : d.value # e.value /\ ~d.lossy /\ ~e.lossy) =>
                  \E e \in Of(r) : <<"conflicting_default", e.file, e.line>> \in Deduplicate.warned

=============================================================================
