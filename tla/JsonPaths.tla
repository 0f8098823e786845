------------------------------ MODULE JsonPaths ------------------------------
(***************************************************************************)
(* jsonparser: one interface over two libraries that read a path differently. *)
(* A document is a tree: [t, m] an object, [t, e] an array, [t, num, bool] a   *)
(* scalar, with what its text is as a number (-1: none) and as a boolean.      *)
(* Paths are those that fit the document: an index meets an array that has     *)
(* it, a key meets no array.                                                   *)
(***************************************************************************)
EXTENDS Integers, Sequences, SequencesExt, FiniteSets

CONSTANTS Segments, Empty,   \* what a path is made of; the empty segment
          IndexOf,           \* of "[0]" and the like: the text inside
          Numeric, Special,  \* keys that look like numbers; keys with bytes of path syntax
          PositionOf,        \* of a numeral: its place in an array, from 1
          Scalars, MaxPath,
          Control,         \* strings with characters that Go and JSON quote differently
          MaxExact,        \* 2^53: integers above it lose their last bit as a float
          MaxLeaves,         \* bound: scalars of a document
          Start,             \* the document at first
          Syntax             \* stands for a key the library does not take literally

VARIABLES doc,      \* the document, NoData when there are no bytes
          use,      \* the library configured for each role
          held      \* history: what a map from paths to scalars would hold
vars == <<doc, use, held>>

NoData == [t |-> "none"]
Missing == [t |-> "missing"]
Object(m) == [t |-> "obj", m |-> m]
EmptyObject == Object([k \in {} |-> 0])
Paths == UNION {[1..n -> Segments] : n \in 1..MaxPath}
IsIndex(s) == s \in DOMAIN IndexOf

-----------------------------------------------------------------------------
\* A component of a library's path: the key it is in an object, the place it is in an
\* array, 0 if none.  Unescaped, a numeral is both and a special key is syntax.
Component(k, i) == [key |-> k, idx |-> i]
Unescaped(s) == IF s \in Special THEN Component(Syntax, 0)
                ELSE Component(s, IF s \in Numeric THEN PositionOf[s] ELSE 0)
Literal(s) == Component(s, 0)
Bare(s) == Component(IndexOf[s], PositionOf[IndexOf[s]])

\* tidwall: tryFastTidwallPath takes plain segments and indexes as they are, otherwise
\* every key is escaped, numerals in one way for reads and in another for writes.
Fast(p) == \A i \in DOMAIN p : IsIndex(p[i]) \/ p[i] \notin Numeric \cup Special \cup {Empty}
buildTidwallPath(p) == [i \in DOMAIN p |-> IF IsIndex(p[i]) THEN Bare(p[i])
                                           ELSE IF Fast(p) THEN Unescaped(p[i])
                                           ELSE Literal(p[i])]
\* gjson: an escaped numeral is a key only.  sjson: it still is an index, unless after ":".
getPath(p) == buildTidwallPath(p)
\* Fault: the segments are written as they are.
mutationPath_Plain(p) == [i \in DOMAIN p |-> IF IsIndex(p[i]) THEN Bare(p[i]) ELSE Unescaped(p[i])]
mutationPath(p) == buildTidwallPath(p)
\* grafana: an index keeps its brackets, which are the key it would be in an object.
GrafanaPath(p) == [i \in DOMAIN p |-> IF IsIndex(p[i]) THEN [Bare(p[i]) EXCEPT !.key = p[i]]
                                      ELSE Literal(p[i])]

-----------------------------------------------------------------------------
\* What the libraries do with the components.
Has(v, c) == \/ v.t = "obj" /\ c.key \in DOMAIN v.m
             \/ v.t = "arr" /\ c.idx \in 1..Len(v.e)
Child(v, c) == IF ~Has(v, c) THEN Missing ELSE IF v.t = "obj" THEN v.m[c.key] ELSE v.e[c.idx]
Lookup(v, cs) == FoldLeft(Child, v, cs)

With(v, c, new) ==
    CASE v.t = "arr" /\ Has(v, c) -> [v EXCEPT !.e[c.idx] = new]
      [] v.t = "obj" -> Object([k \in DOMAIN v.m \cup {c.key} |-> IF k = c.key THEN new ELSE v.m[k]])
      [] v.t \notin {"arr", "obj"} /\ c.idx # 0 -> [t |-> "arr", e |-> <<new>>]
      [] OTHER -> Object([k \in {c.key} |-> new])
RECURSIVE Put(_, _, _)
Put(v, cs, new) == IF cs = <<>> THEN new
                   ELSE With(v, Head(cs), Put(Child(v, Head(cs)), Tail(cs), new))
Without(v, c) == IF ~Has(v, c) THEN v
                 ELSE IF v.t = "arr" THEN [v EXCEPT !.e = RemoveAt(@, c.idx)]
                 ELSE Object([k \in DOMAIN v.m \ {c.key} |-> v.m[k]])
RECURSIVE Removed(_, _)
Removed(v, cs) == IF Len(cs) = 1 THEN Without(v, cs[1])
                  ELSE IF ~Has(v, cs[1]) THEN v
                  ELSE With(v, cs[1], Removed(Child(v, cs[1]), Tail(cs)))

-----------------------------------------------------------------------------
\* The getters refuse no data, no path and an empty first segment.
Refused(d, p) == CASE d = NoData -> "ErrEmptyJSON" [] p = <<>> -> "ErrNoKeysProvided"
                   [] p[1] = Empty -> "ErrEmptyKey" [] OTHER -> ""
Got(v) == [err |-> IF v = Missing THEN "ErrKeyNotFound" ELSE "", val |-> v]
Error(e) == [err |-> e, val |-> Missing]
TidwallGetValue(d, p) == IF Refused(d, p) # "" THEN Error(Refused(d, p)) ELSE Got(Lookup(d, getPath(p)))
GrafanaGetValue(d, p) == IF Refused(d, p) # "" THEN Error(Refused(d, p)) ELSE Got(Lookup(d, GrafanaPath(p)))
Typed(r, type) == IF r.err = "" /\ r.val.t # type THEN Error("ErrNotOfExpectedType") ELSE r

\* The getters that want a type; each gives the value it reads in the scalar.
AsFloat(n) == IF n <= MaxExact THEN n ELSE 2 * (n \div 2)
Mapped(r, Value(_)) == IF r.err = "" THEN [err |-> "", val |-> Value(r.val)] ELSE r
AsBool(v) == v.bool = "true"
AsInt(v) == v.num
Rounded(v) == AsFloat(v.num)
TidwallGetBoolean(d, p) == Mapped(Typed(TidwallGetValue(d, p), "bool"), AsBool)
TidwallGetInt(d, p) == Mapped(Typed(TidwallGetValue(d, p), "num"), AsInt)
TidwallGetFloat(d, p) == Mapped(Typed(TidwallGetValue(d, p), "num"), Rounded)
TidwallGetString(d, p) == Typed(TidwallGetValue(d, p), "str")
GrafanaGetBoolean(d, p) == Mapped(Typed(GrafanaGetValue(d, p), "bool"), AsBool)
GrafanaGetInt(d, p) == Mapped(Typed(GrafanaGetValue(d, p), "num"), Rounded)
GrafanaGetFloat(d, p) == Mapped(Typed(GrafanaGetValue(d, p), "num"), Rounded)
\* What Go quoted and JSON does not know is an error, or the empty string.
Broken == [t |-> "str", num |-> -1, bool |-> "none", broken |-> TRUE]
GrafanaGetString(d, p) == LET r == Typed(GrafanaGetValue(d, p), "str")
                          IN  IF r.val = Broken THEN Error("MalformedValueError") ELSE r

\* The getters that convert what they find, a zero when they cannot.
ParseBool(v) == CASE v.t \in {"bool", "str"} -> v.bool = "true" [] v.t = "num" -> v.num # 0
                  [] OTHER -> FALSE
Number(v, Value(_)) == CASE v.t \in {"num", "str"} -> IF v.num = -1 THEN 0 ELSE Value(v)
                         [] v.t = "bool" -> IF v.bool = "true" THEN 1 ELSE 0
                         [] OTHER -> 0
ParseInt(v) == Number(v, Rounded)
ParseFloat(v) == Number(v, Rounded)
TidwallGetValueOrEmpty(d, p) == TidwallGetValue(d, p).val
GrafanaGetValueOrEmpty(d, p) == GrafanaGetValue(d, p).val
TidwallGetStringOrEmpty(d, p) == TidwallGetValue(d, p).val
GrafanaGetStringOrEmpty(d, p) == LET v == GrafanaGetValue(d, p).val IN IF v = Broken THEN Missing ELSE v
TidwallGetBooleanOrFalse(d, p) == ParseBool(TidwallGetValue(d, p).val)
TidwallGetIntOrZero(d, p) == Number(TidwallGetValue(d, p).val, AsInt)
TidwallGetFloatOrZero(d, p) == Number(TidwallGetValue(d, p).val, Rounded)
GrafanaGetBooleanOrFalse(d, p) == ParseBool(GrafanaGetValue(d, p).val)
GrafanaGetIntOrZero(d, p) == ParseInt(GrafanaGetValue(d, p).val)
GrafanaGetFloatOrZero(d, p) == ParseFloat(GrafanaGetValue(d, p).val)

\* SetValue refuses any empty segment and starts from {} without data.  The grafana one
\* quotes a string as Go does, which for a control character is no JSON.
SetRefused(p) == p = <<>> \/ Contains(p, Empty)
StartOf(d) == IF d = NoData THEN EmptyObject ELSE d
GoQuoted(v) == IF v \in Control THEN Broken ELSE v
TidwallSetValue(d, new, p) == IF SetRefused(p) THEN d ELSE Put(StartOf(d), mutationPath(p), new)
GrafanaSetValue(d, new, p) == IF SetRefused(p) THEN d ELSE Put(StartOf(d), GrafanaPath(p), GoQuoted(new))
TidwallDeleteKey(d, p) == IF Refused(d, p) # "" THEN d ELSE Removed(d, mutationPath(p))
GrafanaDeleteKey(d, p) == IF Refused(d, p) # "" THEN d ELSE Removed(d, GrafanaPath(p))

-----------------------------------------------------------------------------
\* The switcher asks for the library at every call; an unknown name is the default.
Library(role) == IF use[role] \in {"tidwall", "grafana"} THEN use[role] ELSE "grafana"

Fits(p) == LET at[i \in 0..Len(p)] ==
                   IF i = 0 THEN doc ELSE Child(at[i - 1], GrafanaPath(p)[i])
           IN \A i \in DOMAIN p : IF IsIndex(p[i]) THEN at[i - 1].t = "arr" /\ at[i] # Missing
                                  ELSE at[i - 1].t # "arr"

Under(p, q) == IsPrefix(p, q)
Init == /\ doc \in {NoData, Start}
        /\ use = [r \in {"Setter", "Deleter"} |-> "other"]
        /\ held = IF doc = NoData THEN [p \in {} |-> 0]
                  ELSE [p \in {q \in Paths : Lookup(doc, GrafanaPath(q)) \in Scalars}
                            |-> Lookup(doc, GrafanaPath(p))]
Configure(r, l) == use' = [use EXCEPT ![r] = l] /\ UNCHANGED <<doc, held>>
Set(p, v) == /\ Fits(p)
             /\ doc' = IF Library("Setter") = "tidwall" THEN TidwallSetValue(doc, v, p)
                       ELSE GrafanaSetValue(doc, v, p)
             /\ held' = IF Contains(p, Empty) THEN held
                        ELSE [q \in {r \in DOMAIN held : ~Under(p, r) /\ ~Under(r, p)} \cup {p}
                                  |-> IF q = p THEN v ELSE held[q]]
             /\ Cardinality(DOMAIN held') <= MaxLeaves /\ UNCHANGED use
Delete(p) == /\ Fits(p)
             /\ doc' = IF Library("Deleter") = "tidwall" THEN TidwallDeleteKey(doc, p)
                       ELSE GrafanaDeleteKey(doc, p)
             /\ held' = [q \in {r \in DOMAIN held : ~Under(p, r)} |-> held[q]]
             /\ UNCHANGED use
Next == \/ \E r \in DOMAIN use, l \in {"tidwall", "grafana"} : Configure(r, l)
        \/ \E p \in Paths : Delete(p) \/ \E v \in Scalars : Set(p, v)
Spec == Init /\ [][Next]_vars

-----------------------------------------------------------------------------
Expected(p) == IF p \in DOMAIN held THEN held[p] ELSE Missing
Raw(v) == IF v.t \in {"obj", "arr"} THEN Missing ELSE v
Is(r, type, p, Value(_)) == IF Expected(p).t = type THEN r.err = "" /\ r.val = Value(Expected(p))
                            ELSE r.err # ""
Same(v) == v

\* What was set as a string and is there as Go quotes it: the doc of Setter has it marshalled
\* (jsonparser.go:113), which grafana.go:333 does not do.
Quoted(p) == Expected(p) \in Control /\ Lookup(doc, GrafanaPath(p)) = Broken

\* Whichever library wrote the document, and whichever reads it, every path reads as
\* from a map of literal paths to the values that were set: raw, by type (an integer above
\* MaxExact only with tidwall) and converted; but for strings with control characters that
\* grafana wrote.
ReadsWhatWasSet ==
    \A p \in Paths : doc # NoData /\ Fits(p) /\ ~Contains(p, Empty) /\ ~Quoted(p) =>
        LET e == Expected(p) IN
        /\ Raw(TidwallGetValueOrEmpty(doc, p)) = e /\ Raw(GrafanaGetValueOrEmpty(doc, p)) = e
        /\ Is(TidwallGetBoolean(doc, p), "bool", p, AsBool) /\ Is(GrafanaGetBoolean(doc, p), "bool", p, AsBool)
        /\ Is(TidwallGetInt(doc, p), "num", p, AsInt) /\ Is(GrafanaGetInt(doc, p), "num", p, Rounded)
        /\ Is(TidwallGetFloat(doc, p), "num", p, Rounded) /\ Is(GrafanaGetFloat(doc, p), "num", p, Rounded)
        /\ Is(TidwallGetString(doc, p), "str", p, Same) /\ Is(GrafanaGetString(doc, p), "str", p, Same)
        /\ {Raw(TidwallGetStringOrEmpty(doc, p)), Raw(GrafanaGetStringOrEmpty(doc, p))} = {e}
        /\ {TidwallGetBooleanOrFalse(doc, p), GrafanaGetBooleanOrFalse(doc, p)} = {ParseBool(e)}
        /\ {TidwallGetFloatOrZero(doc, p), GrafanaGetFloatOrZero(doc, p), GrafanaGetIntOrZero(doc, p)}
               = {ParseFloat(e)}
        /\ TidwallGetIntOrZero(doc, p) = Number(e, AsInt)
=============================================================================
