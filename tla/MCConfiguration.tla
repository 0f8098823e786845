-------------------------- MODULE MCConfiguration ---------------------------
(***************************************************************************)
(* What follows the configuration, one at a time: hot reloading of one     *)
(* variable step by step, variables of all types, observers, the levels of *)
(* loggers, the number of processors, the generated documentation, the     *)
(* cache with a ttl, the trie and the partition map.                       *)
(***************************************************************************)
EXTENDS PartitionMap, Sequences, TLC

CONSTANTS Parts, Threads, v1, v2, Unset, Nothing, k1, k2, k3
VARIABLES part, overrides, fileReload, value, known, settings, hotR, hotW, nonR, nonW,
          pcReload, key, val, snap, hasPtr, toldReload, overlapped, callsReload, override,
          fileConf, hot, fixed, names, current, advanced, toldConf, panickedConf, changed,
          callsConf, bound, holders, spelled, taken, wasHot, wasFixed, wasTaken, wasNames,
          observers, left, panickedObserved,
          registrations, notifications, count, due, toldObserved, rootLevel, levelConfig,
          cache, pcLog, at, path, level, logger, setter, sets, clean, multiplier, limits,
          watch, fileProcs, eventsProcs, watching, watcher, GOMAXPROCS, writes, missed,
          fileDocs, line, group, pending, entries, declared, warnings, callsDocs, eventsDocs,
          nodes, isEndOfWord, inserted, now, m, next, prev, node, pcCache, op, cur, cn, list

Spelled == {"a.maxSize", "a.maxsize", "b"}
MCId == [k \in Spelled |-> IF k = "b" THEN "b" ELSE "a.maxsize"]
MCEnvOf == ("a.maxSize" :> "A_MAX_SIZE") @@ ("a.maxsize" :> "A_MAXSIZE") @@ ("b" :> "B")
MCEnv == ("A_MAX_SIZE" :> "3") @@ ("A_MAXSIZE" :> Unset) @@ ("B" :> Unset)
MCNumber == ("3" :> 3) @@ ("2s" :> Nothing) @@ ("true" :> Nothing)
MCPeriod == ("3" :> Nothing) @@ ("2s" :> 200) @@ ("true" :> Nothing)
MCBoolean == ("3" :> 0) @@ ("2s" :> 0) @@ ("true" :> 1)
Var(t, k, d, s) == [type |-> t, keys |-> k, def |-> d, scale |-> s]
MCVars == {Var("int", <<"a.maxsize", "b">>, 3, 10), Var("int", <<"a.maxsize", "b">>, 30, 1),
           Var("time.Duration", <<"b">>, 2, 100), Var("bool", <<"b">>, 0, 1),
           Var("string", <<"a.maxSize">>, "3", 1)}
MCTypeOf == ("p" :> "pointer") @@ ("q" :> "pointer") @@ ("f" :> "reloadable") @@ ("g" :> "nonReloadable")
MCAbout == ("n" :> "reloadable") @@ ("m" :> "nonReloadable")
MCParent == ("a" :> "") @@ ("a.b" :> "a")

Given(l, n) == [as |-> l, text |-> n]
ACall(k, v, f, d, u, h, c) ==
    [keys |-> k, variadic |-> v, family |-> f, def |-> d, unit |-> u, hot |-> h, config |-> c]
MCCalls == {ACall(<<"k", "E">>, FALSE, "duration", Given("integer", "1"), "Second", FALSE, TRUE),
            ACall(<<"k", "">>, FALSE, "duration", Given("integer", "1"), "Minute", TRUE, TRUE),
            ACall(<<"k", "E">>, FALSE, "unit", Given("integer", "1"), "KB", FALSE, TRUE),
            ACall(<<"">>, TRUE, "duration", Given("expression", "x"), "Second", FALSE, TRUE),
            ACall(<<>>, FALSE, "simple", Given("integer", "1"), "1", FALSE, TRUE)}
MCDirectives == {<<"group", <<"A", 2>>>>, <<"group", <<"B", 1>>>>, <<"group", <<"B", 0>>>>,
                 <<"desc", "d">>, <<"ignore", "">>, <<"key", <<"E", "k">>>>, <<"default", "1">>}

Reload == INSTANCE ConfigReload WITH
       Threads <- Threads, Watcher <- "watcher", Keys <- <<"k1", "k2">>, Values <- {v1, v2},
       Default <- "default", Zero <- "zero", Unset <- Unset, Registered <- FALSE,
       CallbackReads <- FALSE, MaxCalls <- 2, file <- fileReload, pc <- pcReload,
       told <- toldReload, calls <- callsReload
Conf == INSTANCE ConfigValues WITH
       Keys <- Spelled, Id <- MCId, EnvOf <- MCEnvOf, Env <- MCEnv,
       Texts <- {"3", "2s", "true"}, Unset <- Unset, Number <- MCNumber, Period <- MCPeriod,
       Boolean <- MCBoolean, None <- Nothing, Vars <- MCVars, MaxCalls <- 4, file <- fileConf,
       told <- toldConf, panicked <- panickedConf, calls <- callsConf
Observed == INSTANCE ConfigNotify WITH
       Observers <- {"p", "q", "f", "g"}, TypeOf <- MCTypeOf, Notifiers <- {"n", "m"},
       About <- MCAbout, MaxRegistrations <- 3, MaxNotifications <- 2,
       panicked <- panickedObserved, told <- toldObserved
Log == INSTANCE LoggerLevels WITH
       Callers <- Threads, Names <- {"", "a", "a.b"}, Root <- "", Parent <- MCParent,
       Levels <- {"INFO", "WARN", "wrong"}, Wrong <- "wrong", None <- Nothing,
       Pairs <- <<<<"a", "WARN">>, <<"", "INFO">>, <<"a.b", "wrong">>>>, MaxSets <- 2,
       pc <- pcLog
Procs == INSTANCE MaxProcs WITH
       Contents <- {-1, -2, 0, 500, 1000, 4000}, Empty <- -1, Wrong <- -2,
       Requests <- {0, 1500}, Multipliers <- {15, 10}, Bounds <- {<<1, 4>>, <<2, 0>>},
       Initial <- 8, MaxWrites <- 3, file <- fileProcs, events <- eventsProcs
Docs == INSTANCE ConfigDocs WITH
       Files <- <<"f", "g">>, Types <- TRUE, Calls <- MCCalls, Dynamic <- "", EnvKeys <- {"E"},
       Directives <- MCDirectives, DurationUnits <- {"Second", "Minute"},
       Abbreviated <- {"Second", "Minute", "KB"}, MaxLookback <- 1, MaxEvents <- 4,
       file <- fileDocs, calls <- callsDocs, events <- eventsDocs
Words == INSTANCE Trie WITH Runes <- {"a", "b"}, Space <- "s", MaxLength <- 2
Cache == INSTANCE CacheTTL WITH
       Keys <- {k1, k2, k3}, Values <- {"v"}, TTLs <- {-1, 1, 2}, MaxTime <- 2,
       RefreshTTL <- TRUE, Root <- Unset, Nil <- Nothing, pc <- pcCache

varsReload == <<overrides, fileReload, value, known, settings, hotR, hotW, nonR, nonW,
                pcReload, key, val, snap, hasPtr, toldReload, overlapped, callsReload>>
varsConf == <<override, fileConf, hot, fixed, names, current, advanced, toldConf, panickedConf,
              changed, callsConf, bound, holders, spelled, taken, wasHot, wasFixed, wasTaken,
              wasNames>>
varsObserved == <<observers, left, panickedObserved, registrations, notifications, count, due,
                  toldObserved>>
varsLog == <<rootLevel, levelConfig, cache, pcLog, at, path, level, logger, setter, sets, clean>>
varsProcs == <<multiplier, limits, watch, fileProcs, eventsProcs, watching, watcher,
               GOMAXPROCS, writes, missed>>
varsDocs == <<fileDocs, line, group, pending, entries, declared, warnings, callsDocs,
              eventsDocs>>
varsWords == <<nodes, isEndOfWord, inserted>>
varsCache == <<now, m, next, prev, node, pcCache, op, cur, cn, list>>

Off == "off"   \* what a part that is not looked at holds
MCInit ==
    /\ part \in Parts
    /\ Init /\ (part # "partitions" => numPartitions = 1)
    /\ IF part = "reload" THEN Reload!Init /\ fileReload = Reload!AllUnset
       ELSE overrides = Off /\ fileReload = Off /\ value = Off /\ known = Off
            /\ settings = Off /\ hotR = Off /\ hotW = Off /\ nonR = Off /\ nonW = Off
            /\ pcReload = Off /\ key = Off /\ val = Off /\ snap = Off /\ hasPtr = Off
            /\ toldReload = Off /\ overlapped = Off /\ callsReload = Off
    /\ IF part = "values" THEN Conf!Init
       ELSE override = Off /\ fileConf = Off /\ hot = Off /\ fixed = Off /\ names = Off
            /\ current = Off /\ advanced = Off /\ toldConf = Off /\ panickedConf = Off
            /\ changed = Off /\ callsConf = Off /\ bound = Off /\ holders = Off
            /\ spelled = Off /\ taken = Off /\ wasHot = Off /\ wasFixed = Off
            /\ wasTaken = Off /\ wasNames = Off
    /\ IF part = "notify" THEN Observed!Init
       ELSE observers = Off /\ left = Off /\ panickedObserved = Off /\ registrations = Off
            /\ notifications = Off /\ count = Off /\ due = Off /\ toldObserved = Off
    /\ IF part = "levels" THEN Log!Init
       ELSE rootLevel = Off /\ levelConfig = Off /\ cache = Off /\ pcLog = Off /\ at = Off
            /\ path = Off /\ level = Off /\ logger = Off /\ setter = Off /\ sets = Off
            /\ clean = Off
    /\ IF part = "procs" THEN Procs!Init
       ELSE multiplier = Off /\ limits = Off /\ watch = Off /\ fileProcs = Off
            /\ eventsProcs = Off /\ watching = Off /\ watcher = Off /\ GOMAXPROCS = Off
            /\ writes = Off /\ missed = Off
    /\ IF part = "docs" THEN Docs!Init
       ELSE fileDocs = Off /\ line = Off /\ group = Off /\ pending = Off /\ entries = Off
            /\ declared = Off /\ warnings = Off /\ callsDocs = Off /\ eventsDocs = Off
    /\ IF part = "trie" THEN Words!Init
       ELSE nodes = Off /\ isEndOfWord = Off /\ inserted = Off
    /\ IF part = "cachettl" THEN Cache!Init
       ELSE now = Off /\ m = Off /\ next = Off /\ prev = Off /\ node = Off /\ pcCache = Off
            /\ op = Off /\ cur = Off /\ cn = Off /\ list = Off

MCNext ==
    \/ part = "partitions" /\ Next
       /\ UNCHANGED <<part, varsReload, varsConf, varsObserved, varsLog, varsProcs, varsDocs,
                     varsWords, varsCache>>
    \/ part = "reload" /\ Reload!Next
       /\ UNCHANGED <<part, vars, varsConf, varsObserved, varsLog, varsProcs, varsDocs,
                     varsWords, varsCache>>
    \/ part = "values" /\ Conf!Next
       /\ UNCHANGED <<part, vars, varsReload, varsObserved, varsLog, varsProcs, varsDocs,
                     varsWords, varsCache>>
    \/ part = "notify" /\ Observed!Next
       /\ UNCHANGED <<part, vars, varsReload, varsConf, varsLog, varsProcs, varsDocs,
                     varsWords, varsCache>>
    \/ part = "levels" /\ Log!Next
       /\ UNCHANGED <<part, vars, varsReload, varsConf, varsObserved, varsProcs, varsDocs,
                     varsWords, varsCache>>
    \/ part = "procs" /\ Procs!Next
       /\ UNCHANGED <<part, vars, varsReload, varsConf, varsObserved, varsLog, varsDocs,
                     varsWords, varsCache>>
    \/ part = "docs" /\ Docs!Next
       /\ (fileDocs = 1 => eventsDocs' <= 1)   \* the others are in the second file
       /\ (eventsDocs = 3 /\ eventsDocs' = 4 => callsDocs' # callsDocs)   \* the last is a call
       /\ UNCHANGED <<part, vars, varsReload, varsConf, varsObserved, varsLog, varsProcs,
                     varsWords, varsCache>>
    \/ part = "trie" /\ Words!Next
       /\ UNCHANGED <<part, vars, varsReload, varsConf, varsObserved, varsLog, varsProcs,
                     varsDocs, varsCache>>
    \/ part = "cachettl" /\ Cache!Next
       /\ UNCHANGED <<part, vars, varsReload, varsConf, varsObserved, varsLog, varsProcs,
                     varsDocs, varsWords>>
all == <<part, vars, varsReload, varsConf, varsObserved, varsLog, varsProcs, varsDocs,
         varsWords, varsCache>>

MCSpec == MCInit /\ [][MCNext]_all

\* Goroutines are interchangeable, and so are the values of a variable.
Symmetry == Permutations(Threads) \cup Permutations({v1, v2})

-----------------------------------------------------------------------------
\* A variable and its observers follow the configuration as long as no change overlaps
\* another one or the registration.
ReloadsAreNoticed == part = "reload" => Reload!ValueUpToDate /\ Reload!ChangesNoticed

\* Changes, registrations and reads of a variable never block each other for good.
SomebodyGoesOn == part = "reload" => Reload!SomebodyGoesOn

\* What is derived from the configuration follows it, and those concerned are told:
\* variables of every type under keys in any spelling and order, with and without
\* advanced detection; the levels of loggers that inherit them; GOMAXPROCS from the file.
ConfigurationFollows == /\ part = "values" => Conf!ValuesFollow
                        /\ part = "levels" => Log!LevelsFollowConfig
                        /\ part = "procs" => Procs!ProcsFollow

\* Each observer hears once of a change for every time it was registered when it began.
EachIsToldOnce == part = "notify" => Observed!EachIsToldOnce


\* The trie finds the shortest of the words inserted that begin the input.
FindsShortest == part = "trie" => Words!FindsShortest

\* The pointers of the ttl cache are the sorted list TTLList describes.
RepresentsList == part = "cachettl" => Cache!RepresentsList

\* A Get of the ttl cache leaves nothing expired.
GetCleansUp == [][part = "cachettl" => Cache!CleansUp]_all

\* Doc of Reloadable (config_types.go:47): a change is swapped in, so the value stored
\* last is the configured one, also when changes overlap.
QuiescentValue == part = "reload" => Reload!QuiescentValue
=============================================================================
