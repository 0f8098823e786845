------------------------------ MODULE Throttling ------------------------------
(***************************************************************************)
(* throttling: requests of one key, limited in memory (a GCRA limiter of a    *)
(* library over a compare-and-swap store, cached for a time), or by one of two *)
(* Redis scripts, which run one at a time.                                     *)
(***************************************************************************)
EXTENDS Integers, Sequences, SequencesExt, FiniteSets, FiniteSetsExt

CONSTANTS Callers, Costs,
          Algorithms,      \* of "gcra", "redis-gcra" and "redis-sorted-set"
          Rate, Interval,  \* requests per window, which is Rate times Interval
          Bursts,          \* what gcraBurst may be, 0 means Rate
          MaxAttempts,     \* defaultMaxCASAttemptsLimit, 100 in the code
          MaxTime, MaxCalls, None

VARIABLES algorithm, burst, now,
          limiters,        \* of each limiter made its tat, the theoretical time of arrival
          cached,          \* until when the cache keeps the newest
          tat, members,    \* in Redis: the tat, and the tokens <<time, call, i>>
          pc, req,         \* of each caller: its step; cost, call, limiter, tat and time read, tries
          calls,           \* bound
          granted, late    \* history: grants in order; time passed between getting a limiter and its grant
vars == <<algorithm, burst, now, limiters, cached, tat, members, pc, req, calls, granted, late>>
fixed == <<algorithm, burst>>

Window == Rate * Interval
NoRequest == [cost |-> 0, call |-> 0, lim |-> 0, tat |-> None, at |-> 0, got |-> 0, tries |-> 0]
Init == /\ algorithm \in Algorithms /\ burst \in {IF b > 0 THEN b ELSE Rate : b \in Bursts}
        /\ now = 0 /\ limiters = <<>> /\ cached = 0 /\ tat = None /\ members = {}
        /\ pc = [t \in Callers |-> "idle"] /\ req = [t \in Callers |-> NoRequest]
        /\ calls = 0 /\ granted = <<>> /\ late = FALSE

Request(t, c, alg) == /\ algorithm = alg /\ pc[t] = "idle"
                      /\ calls < MaxCalls /\ calls' = calls + 1
Grant(t, r, at) == granted' = Append(granted, [cost |-> r.cost, at |-> at, lim |-> r.lim, call |-> r.call])
NewTat(old, at, cost) == (IF old = None \/ old < at THEN at ELSE old) + cost * Interval

-----------------------------------------------------------------------------
(* In memory *)

\* getLimiter: from the cache, where a hit starts the ttl again, or a new one.
TTL == (burst \div Rate) * Window
GetLimiter(t, c) ==
    /\ Request(t, c, "gcra")
    /\ limiters' = IF limiters # <<>> /\ cached > now THEN limiters ELSE Append(limiters, None)
    /\ cached' = now + TTL
    /\ pc' = [pc EXCEPT ![t] = "load"]
    /\ req' = [req EXCEPT ![t] = [NoRequest EXCEPT !.cost = c, !.call = calls, !.got = now,
                                                   !.lim = Len(limiters')]]
    /\ UNCHANGED <<fixed, now, tat, members, granted, late>>

\* The library reads tat and time, and refuses what comes too early for its burst, which
\* is one more than MaxBurst.
Load(t) == LET old == limiters[req[t].lim] IN
    /\ pc[t] = "load"
    /\ IF now < NewTat(old, now, req[t].cost) - (burst + 1) * Interval
       THEN pc' = [pc EXCEPT ![t] = "idle"] /\ req' = [req EXCEPT ![t] = NoRequest]
       ELSE /\ pc' = [pc EXCEPT ![t] = "swap"]
            /\ req' = [req EXCEPT ![t].tat = old, ![t].at = now]
    /\ UNCHANGED <<fixed, now, limiters, cached, tat, members, calls, granted, late>>

\* Fault: the new value is stored whatever is there.
Same_Always(old, r) == TRUE
\* SetIfNotExistsWithTTL and CompareAndSwapWithTTL: the new tat, if the one read is still there.
Same(old, r) == old = r.tat
Swap(t) == LET r == req[t] IN
    /\ pc[t] = "swap"
    /\ IF Same(limiters[r.lim], r)
       THEN /\ limiters' = [limiters EXCEPT ![r.lim] = NewTat(r.tat, r.at, r.cost)]
            /\ Grant(t, r, r.at) /\ late' = (late \/ now # r.got)
            /\ pc' = [pc EXCEPT ![t] = "idle"] /\ req' = [req EXCEPT ![t] = NoRequest]
       ELSE /\ IF r.tries + 1 > MaxAttempts
               THEN pc' = [pc EXCEPT ![t] = "idle"] /\ req' = [req EXCEPT ![t] = NoRequest]
               ELSE pc' = [pc EXCEPT ![t] = "load"] /\ req' = [req EXCEPT ![t].tries = @ + 1]
            /\ UNCHANGED <<limiters, granted, late>>
    /\ UNCHANGED <<fixed, now, cached, tat, members, calls>>

-----------------------------------------------------------------------------
(* Redis; an answer that is lost is an error for the caller *)

Answer(t, r) == \/ Grant(t, r, now) /\ pc' = [pc EXCEPT ![t] = "granted"]
                \/ UNCHANGED <<granted, pc>>

\* gcra.lua.  The key expires long after its tat is past.
Early(new) == now < new - burst * Interval
RedisGCRA(t, c) ==
    /\ Request(t, c, "redis-gcra")
    /\ LET new == NewTat(tat, now, c) IN
       IF Early(new) THEN UNCHANGED <<tat, granted, pc>>
       ELSE tat' = new /\ Answer(t, [NoRequest EXCEPT !.cost = c, !.call = calls])
    /\ UNCHANGED <<fixed, now, limiters, cached, members, req, late>>

\* sortedset.lua: what is older than the window is trimmed, the rest counted.
Trimmed == {m \in members : m[1] > now - Window}
Tokens(c) == {<<now, calls, i>> : i \in 1..c}
SortedSet(t, c) ==
    /\ Request(t, c, "redis-sorted-set")
    /\ LET r == [NoRequest EXCEPT !.cost = c, !.call = calls] IN
       IF Cardinality(Trimmed) + c > Rate
       THEN members' = Trimmed /\ UNCHANGED <<req, granted, pc>>
       ELSE members' = Trimmed \cup Tokens(c) /\ req' = [req EXCEPT ![t] = r] /\ Answer(t, r)
    /\ UNCHANGED <<fixed, now, limiters, cached, tat, late>>

\* The tokens may be returned, which only the sorted set supports, once.
Return(t) == LET mine(m) == m[2] = req[t].call IN
    /\ pc[t] = "granted" /\ pc' = [pc EXCEPT ![t] = "idle"]
    /\ \/ UNCHANGED <<members, granted>>
       \/ /\ algorithm = "redis-sorted-set"
          /\ members' = {m \in members : ~mine(m)}
          /\ granted' = SelectSeq(granted, LAMBDA g : g.call # req[t].call)
    /\ UNCHANGED <<fixed, now, limiters, cached, tat, req, calls, late>>

Tick == /\ now < MaxTime /\ now' = now + 1
        /\ UNCHANGED <<fixed, limiters, cached, tat, members, pc, req, calls, granted, late>>

Next == \/ Tick
        \/ \E t \in Callers : \/ Load(t) \/ Swap(t) \/ Return(t)
                              \/ \E c \in Costs : GetLimiter(t, c) \/ RedisGCRA(t, c) \/ SortedSet(t, c)
Spec == Init /\ [][Next]_vars

-----------------------------------------------------------------------------
\* Of any grants in a row: no more than the burst (one more in memory) and what the time
\* between the first and the last is worth; per window no more than the rate with the
\* sorted set.  In memory this is of one limiter; across the limiters made anew each has
\* its one more, and it holds only if the burst is a multiple of the rate, for then the
\* cache's ttl covers it, and nobody was stalled between getting a limiter and its grant.
Cost(g) == FoldLeft(LAMBDA sum, x : sum + x.cost, 0, g)
Took(g) == IF g = <<>> THEN 0 ELSE g[Len(g)].at - g[1].at
Bound(g) ==
    CASE algorithm = "gcra" -> Cost(g) * Interval <= (burst + Cardinality({x.lim : x \in Range(g)})) * Interval + Took(g)
      [] algorithm = "redis-gcra" -> Cost(g) * Interval <= burst * Interval + Took(g)
      [] algorithm = "redis-sorted-set" -> Took(g) >= Window \/ Cost(g) <= Rate
OfOneLimiter(g) == IF late \/ burst % Rate # 0 THEN SelectSeq(g, LAMBDA x : x.lim = g[1].lim) ELSE g
QuotaHolds ==
    \A i \in DOMAIN granted : \A j \in i..Len(granted) : Bound(OfOneLimiter(SubSeq(granted, i, j)))
=============================================================================
