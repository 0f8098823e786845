---------------------------- MODULE LoggerLevels ----------------------------
(***************************************************************************)
(* logger/config.go, factory.go, logger.go: the levels of a tree of loggers.  *)
(* A logger without a level of its own has its parent's; what was worked out  *)
(* is cached.  The maps are locked for one access each, the pointer to the    *)
(* cache is not: SetLogLevel replaces it.                                     *)
(***************************************************************************)
EXTENDS Integers, Sequences, SequencesExt

CONSTANTS Callers,            \* goroutines that log
          Names, Root,        \* the loggers
          Parent,             \* of every logger but the root
          Levels, Wrong,      \* what is given as a level; Wrong is the name of none
          None,
          Pairs,              \* LOGGER_LEVELS: pairs of a name and a level
          MaxSets             \* bound: calls of SetLogLevel

levelMap == [EVENT |-> 0, DEBUG |-> 1, INFO |-> 2, WARN |-> 3, ERROR |-> 4, FATAL |-> 5]

VARIABLES rootLevel, levelConfig,   \* what is configured
          cache,                    \* levelConfigCache
          pc, at, path, level,      \* of each caller in getLoggingLevel: its logger now, the
                                    \* children to cache, the level found
          logger,                   \* the logger it called
          setter, sets,             \* the name SetLogLevel is setting; its calls so far
          clean                     \* history: the latest SetLogLevel overlapped no caller

config == <<rootLevel, levelConfig>>
callers == <<pc, at, path, level, logger>>
vars == <<config, cache, callers, setter, sets, clean>>

\* newConfig skips a pair with no name or an unknown level.
Configured == FoldLeft(LAMBDA m, p : IF p[1] = Root \/ p[2] = Wrong THEN m
                                     ELSE [m EXCEPT ![p[1]] = levelMap[p[2]]],
                       [n \in Names |-> None], Pairs)
NewCache == [n \in Names |-> None]

\* An unknown level of the root counts as the zero of the map, which is EVENT.
Init == /\ \E l \in Levels : rootLevel = IF l = Wrong THEN 0 ELSE levelMap[l]
        /\ levelConfig = Configured /\ cache = NewCache
        /\ pc = [t \in Callers |-> "idle"] /\ at = [t \in Callers |-> Root]
        /\ path = [t \in Callers |-> <<>>] /\ level = [t \in Callers |-> None]
        /\ logger = at
        /\ setter = None /\ sets = 0 /\ clean = TRUE

Goto(t, l) == pc' = [pc EXCEPT ![t] = l]
Found(t, l) == level' = [level EXCEPT ![t] = l] /\ Goto(t, "return")

\* Debug, Info, Warn, Error in all their forms ask for the level of their logger.
Call(t, n) == /\ pc[t] = "idle" /\ Goto(t, "get")
              /\ at' = [at EXCEPT ![t] = n] /\ logger' = [logger EXCEPT ![t] = n]
              /\ clean' = (clean /\ setter = None)
              /\ UNCHANGED <<config, cache, path, level, setter, sets>>

\* The root has its level; others look into the cache first.
CacheGet(t) == LET n == at[t] IN
    /\ pc[t] = "get"
    /\ IF n = Root THEN Found(t, rootLevel)
       ELSE IF cache[n] # None THEN Found(t, cache[n])
       ELSE Goto(t, "config") /\ UNCHANGED level
    /\ UNCHANGED <<config, cache, at, path, logger, setter, sets, clean>>

\* The logger's own level, or that of its parent, for which it waits.
ConfigGet(t) == LET n == at[t] IN
    /\ pc[t] = "config"
    /\ path' = [path EXCEPT ![t] = <<n>> \o @]
    /\ IF levelConfig[n] # None THEN Found(t, levelConfig[n]) /\ UNCHANGED at
       ELSE at' = [at EXCEPT ![t] = Parent[n]] /\ Goto(t, "get") /\ UNCHANGED level
    /\ UNCHANGED <<config, cache, logger, setter, sets, clean>>

\* Each logger on the way back caches the level, in the map that is the cache now.
CacheSet(t) == /\ pc[t] = "return" /\ path[t] # <<>>
               /\ cache' = [cache EXCEPT ![Head(path[t])] = level[t]]
               /\ path' = [path EXCEPT ![t] = Tail(@)]
               /\ UNCHANGED <<config, pc, at, level, logger, setter, sets, clean>>

\* The level is compared with that of the call, which writes or not.
Log(t) == /\ pc[t] = "return" /\ path[t] = <<>> /\ Goto(t, "idle")
          /\ level' = [level EXCEPT ![t] = None]
          /\ UNCHANGED <<config, cache, at, path, logger, setter, sets, clean>>

\* SetLogLevel refuses an unknown level, stores the level, then drops the cache.
SetLogLevel(n, s) ==
    /\ setter = None /\ sets < MaxSets /\ s # Wrong
    /\ IF n = Root THEN rootLevel' = levelMap[s] /\ UNCHANGED levelConfig
       ELSE levelConfig' = [levelConfig EXCEPT ![n] = levelMap[s]] /\ UNCHANGED rootLevel
    /\ setter' = n /\ sets' = sets + 1 /\ clean' = (\A t \in Callers : pc[t] = "idle")
    /\ UNCHANGED <<cache, callers>>

\* Fault: the cache is kept.
DropCache_Not == /\ setter # None /\ setter' = None
                 /\ UNCHANGED <<config, cache, callers, sets, clean>>
DropCache == /\ setter # None /\ setter' = None /\ cache' = NewCache
             /\ UNCHANGED <<config, callers, sets, clean>>

Next == \/ \E t \in Callers : \/ CacheGet(t) \/ ConfigGet(t) \/ CacheSet(t) \/ Log(t)
                              \/ \E n \in Names : Call(t, n)
        \/ \E n \in Names, s \in Levels : SetLogLevel(n, s)
        \/ DropCache
Spec == Init /\ [][Next]_vars

-----------------------------------------------------------------------------
\* The level the configuration gives a logger.
LevelOf(n) == LET up[m \in Names] == IF m = Root THEN rootLevel
                                     ELSE IF levelConfig[m] # None THEN levelConfig[m]
                                     ELSE up[Parent[m]]
              IN up[n]

\* What the cache holds, and what a caller found out, is what the configuration
\* gives, although children inherit, levels change and callers share the cache:
\* unless the latest SetLogLevel overlapped a call.
LevelsFollowConfig ==
    clean /\ setter = None =>
        /\ \A n \in Names : cache[n] \in {None, LevelOf(n)}
        /\ \A t \in Callers : level[t] \notin {None} => path[t] # <<>> \/ level[t] = LevelOf(logger[t])
=============================================================================
