---------------------------- MODULE ConfigValues ----------------------------
(***************************************************************************)
(* config: variables of all types, their keys in order, environment and file, *)
(* registration twice, and what observers are told of a change.  Calls run     *)
(* one after the other here (ConfigReload interleaves them).   *)
(***************************************************************************)
EXTENDS Integers, Sequences, FiniteSets, SequencesExt

CONSTANTS Keys, Id,         \* keys as they are spelled, not in capitals only; without regard to case
          EnvOf,            \* ConfigKeyToEnv: the environment variable of a spelling
          Env,              \* of each environment variable its text, or Unset
          Texts, Unset,     \* what a key may be set to
          Number, Period,   \* a text as a number and as a duration, None if it is not one
          Boolean,          \* a text as a boolean
          None,
          Vars,             \* [type, keys, def, scale]: variables of the program
          MaxCalls          \* bound: registrations and changes

VARIABLES override, file,   \* per Id, what Set and the file give
          bound,            \* envs: per Id, the spelling whose environment variable is read
          hot,              \* hotReloadableVars: registered variables and their values
          fixed,            \* nonReloadableConfig of advanced detection, the same way
          names,            \* nonReloadableKeys otherwise: per Id the spelling, or None
          current,          \* currentSettings
          advanced,         \* enableNonReloadableAdvancedDetection
          told,             \* what observers were told by the last change: key, old, new
          panicked,         \* the misuse of a variable was detected
          changed, calls,   \* onConfigChange is to come; calls so far
          holders,          \* history: the variables whose pointer somebody was given
          spelled,          \* history: per Id the spellings that were looked up
          taken,            \* history: [override, file, bound] that current was taken of
          wasHot, wasFixed, wasTaken, wasNames   \* history: what the last change found
maps == <<hot, fixed, names, panicked, holders>>
was == <<taken, wasHot, wasFixed, wasTaken, wasNames>>
vars == <<override, file, bound, spelled, maps, current, advanced, told, changed, calls, was>>

Ids == {Id[k] : k \in Keys}
AllNone == [i \in Ids |-> None]
Init == /\ override = [i \in Ids |-> Unset] /\ file = override /\ bound = AllNone
        /\ hot = <<>> /\ fixed = <<>> /\ names = AllNone
        /\ current = file /\ advanced \in BOOLEAN /\ told = [hot |-> {}, fixed |-> {}] /\ panicked = FALSE
        /\ changed = FALSE /\ calls = 0 /\ holders = {} /\ spelled = [i \in Ids |-> {}]
        /\ taken = [override |-> override, file |-> file, bound |-> bound]
        /\ wasHot = hot /\ wasFixed = fixed /\ wasTaken = taken /\ wasNames = names

\* viper: what was Set, then the environment, then the file.
Layers(o, f, k, i) == IF o[i] # Unset THEN o[i]
                      ELSE IF k # None /\ Env[EnvOf[k]] # Unset THEN Env[EnvOf[k]] ELSE f[i]
\* A look-up of a key binds the environment variable of its spelling first.
Text(k) == Layers(override, file, k, Id[k])
IsSet(k) == Text(k) # Unset
FirstSet(keys) == SelectInSeq(keys, IsSet)

\* bindEnv: the getter of v looks its keys up, as far as the first that is set.
LookedUp(v) == SubSeq(v.keys, 1, IF FirstSet(v.keys) = 0 THEN Len(v.keys) ELSE FirstSet(v.keys))
Latest(ks, i, before) ==
    LET last == {j \in DOMAIN ks : /\ Id[ks[j]] = i
                                   /\ \A l \in DOMAIN ks : l > j => Id[ks[l]] # i}
    IN  IF last = {} THEN before ELSE ks[CHOOSE j \in last : TRUE]
Bind(ks) == /\ bound' = [i \in Ids |-> Latest(ks, i, bound[i])]
            /\ spelled' = [i \in Ids |-> spelled[i] \cup {k \in Range(ks) : Id[k] = i}]

\* The getters of each type: the first key that is set, or the default.
NumberOf(t) == IF Number[t] = None THEN 0 ELSE Number[t]
OfKeys(v, Of(_), default) == IF FirstSet(v.keys) = 0 THEN default
                             ELSE Of(Text(v.keys[FirstSet(v.keys)]))
IntVar(v) == OfKeys(v, LAMBDA t : NumberOf(t) * v.scale, v.def * v.scale)
Int64Var(v) == OfKeys(v, LAMBDA t : NumberOf(t) * v.scale, v.def * v.scale)
Float64Var(v) == OfKeys(v, LAMBDA t : NumberOf(t) * v.scale, v.def * v.scale)
BoolVar(v) == OfKeys(v, LAMBDA t : Boolean[t], v.def)
StringVar(v) == OfKeys(v, LAMBDA t : t, v.def)
StringSliceVar(v) == OfKeys(v, LAMBDA t : t, v.def)
StringMapVar(v) == OfKeys(v, LAMBDA t : t, v.def)
\* A duration is taken as it is, a number in units of the scale, other text is the default.
DurationVar(v) == OfKeys(v, LAMBDA t : IF Period[t] # None THEN Period[t]
                                       ELSE IF Number[t] # None THEN Number[t] * v.scale
                                       ELSE v.def * v.scale, v.def * v.scale)
Stored(v) == CASE v.type = "int" -> IntVar(v) [] v.type = "int64" -> Int64Var(v)
               [] v.type = "float64" -> Float64Var(v) [] v.type = "bool" -> BoolVar(v)
               [] v.type = "string" -> StringVar(v) [] v.type = "[]string" -> StringSliceVar(v)
               [] v.type = "map[string]any" -> StringMapVar(v)
               [] v.type = "time.Duration" -> DurationVar(v)

\* checkConfigForChanges works the same value out in its own way: it scales at the end.
Checked(v) ==
    LET value == OfKeys(v, LAMBDA t : IF v.type = "bool" THEN Boolean[t]
                                      ELSE IF v.type \in {"int", "int64", "float64"} THEN NumberOf(t)
                                      ELSE t, v.def)
    IN IF v.type = "time.Duration" THEN DurationVar(v)
       ELSE IF v.type \in {"int", "int64", "float64"} THEN value * v.scale ELSE value

\* The default is scaled where variables are compared.
Default(v) == IF v.type \in {"int", "int64", "float64", "time.Duration"} THEN v.def * v.scale ELSE v.def
SamePointer(v, w) == v.type = w.type /\ v.keys = w.keys
SameEntry(v, w) == SamePointer(v, w) /\ Default(v) = Default(w)
Added(s, v) == [w \in DOMAIN s \cup {v} |-> IF w = v THEN Stored(v) ELSE s[w]]

\* GetReloadable*Var: one pointer per type and keys; another default is a misuse.
GetReloadable(v) ==
    /\ ~changed /\ calls < MaxCalls /\ calls' = calls + 1
    /\ LET pointer == {w \in DOMAIN hot : SamePointer(v, w)}
           misuse == \E w \in pointer : ~SameEntry(v, w)
       IN  /\ panicked' = (panicked \/ misuse)
           /\ holders' = IF misuse THEN holders ELSE holders \cup {v}
           /\ IF pointer # {} THEN UNCHANGED <<hot, bound, spelled>>
              ELSE hot' = Added(hot, v) /\ Bind(LookedUp(v))
    /\ UNCHANGED <<override, file, fixed, names, current, advanced, told, changed, was>>

\* Get*Var: one entry per type, keys and default, or the spelling of each key.
Get(v) ==
    /\ ~changed /\ calls < MaxCalls /\ calls' = calls + 1
    /\ Bind(LookedUp(v))
    /\ IF advanced
       THEN /\ UNCHANGED names
            /\ IF \E w \in DOMAIN fixed : SameEntry(v, w) THEN UNCHANGED fixed
               ELSE fixed' = Added(fixed, v)
       ELSE /\ UNCHANGED fixed
            /\ names' = [i \in Ids |-> Latest(v.keys, i, names[i])]
    /\ UNCHANGED <<override, file, hot, panicked, holders, current, advanced, told, changed, was>>

\* onConfigChange: values that differ are swapped and told.
Swapped(s) == [v \in DOMAIN s |-> Checked(v)]
Told(s) == {<<v.keys, s[v], Checked(v)>> : v \in {w \in DOMAIN s : s[w] # Checked(w)}}
\* The look-ups of checkConfigForChanges, in the order of the entries of the map.
Orders(S) == {o \in [1..Cardinality(S) -> S] : Range(o) = S}
LookUps(order) == FlattenSeq([j \in DOMAIN order |-> LookedUp(order[j])])
\* getCurrentSettings: AllSettings has the keys that are Set or in the file, each read with
\* the environment variable that is bound by now.
Given(o, f, i) == o[i] # Unset \/ f[i] # Unset
Settings(o, f, b) == [i \in Ids |-> IF Given(o, f, i) THEN Layers(o, f, b[i], i) ELSE Unset]
OnConfigChange ==
    /\ changed /\ changed' = FALSE
    /\ hot' = Swapped(hot) /\ wasHot' = hot /\ wasFixed' = fixed /\ wasTaken' = taken /\ wasNames' = names
    /\ \E p \in Orders(DOMAIN hot), q \in Orders(IF advanced THEN DOMAIN fixed ELSE {}) :
          Bind(LookUps(p) \o LookUps(q))
    /\ taken' = [override |-> override, file |-> file, bound |-> bound']
    /\ IF advanced
       THEN /\ told' = [hot |-> Told(hot), fixed |-> {t[1] : t \in Told(fixed)}]
            /\ fixed' = Swapped(fixed) /\ UNCHANGED current
       ELSE /\ current' = Settings(override, file, bound')
            /\ told' = [hot |-> Told(hot), fixed |->
                          {names[i] : i \in {j \in Ids : current[j] # current'[j]}} \ {None}]
            /\ UNCHANGED fixed
    /\ UNCHANGED <<override, file, names, panicked, holders, advanced, calls>>

Set(k, t) == /\ override' = [override EXCEPT ![Id[k]] = t]
             /\ UNCHANGED file
FileChanges(i, t) == /\ file' = [file EXCEPT ![i] = t] /\ UNCHANGED override
Change == /\ ~changed /\ changed' = TRUE /\ calls' = calls + 1 /\ calls < MaxCalls
          /\ UNCHANGED <<bound, spelled, maps, current, advanced, told, was>>
          /\ \/ \E k \in Keys, t \in Texts : Set(k, t)
             \/ \E i \in Ids, t \in Texts \cup {Unset} : FileChanges(i, t)

Next == \/ Change \/ OnConfigChange
        \/ \E v \in Vars : GetReloadable(v) \/ Get(v)
Spec == Init /\ [][Next]_vars

-----------------------------------------------------------------------------
\* Every variable that is held has the value its getter would give now, whatever its type,
\* the order of its keys, where they are set and who asked for it first, but for a
\* different scale; and so have the entries of advanced detection.
HoldersFollow ==
    /\ \A v \in holders : \E w \in DOMAIN hot : /\ SamePointer(v, w) /\ Default(v) = Default(w)
                                             /\ v.scale = w.scale => hot[w] = Stored(v)
    /\ \A v \in DOMAIN fixed : fixed[v] = Stored(v)

\* The last change told each variable whose value it changed, with the value before and the
\* one after, and nothing else.
ChangesTold ==
    /\ told.hot = {<<v.keys, wasHot[v], Stored(v)>> : v \in {w \in DOMAIN wasHot : wasHot[w] # Stored(w)}}
    /\ advanced => told.fixed = {v.keys : v \in {w \in DOMAIN wasFixed : wasFixed[w] # Stored(w)}}

\* Without advanced detection: the spelling of a key is told if what its look-up gives has
\* changed, also if an environment variable shadows the file, or if the key was added or
\* removed; for keys with one spelling, looked up before.
KeysTold ==
    ~advanced =>
        /\ told.fixed \subseteq {wasNames[i] : i \in Ids} \ {None}
        /\ \A i \in Ids, k \in Keys :
             spelled[i] = {k} /\ wasTaken.bound[i] # None /\ wasNames[i] # None =>
                (wasNames[i] \in told.fixed <=>
                   \/ Layers(wasTaken.override, wasTaken.file, k, i) # Text(k)
                   \/ Given(wasTaken.override, wasTaken.file, i) # Given(override, file, i))

ValuesFollow == ~changed => HoldersFollow /\ ChangesTold /\ KeysTold
=============================================================================
