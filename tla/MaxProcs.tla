------------------------------- MODULE MaxProcs -------------------------------
(***************************************************************************)
(* maxprocs: GOMAXPROCS from the CPU requests (milli-CPUs) of a variable or of *)
(* a file, which is watched for writes.  A write to a file is an emptying and  *)
(* a filling, with an event each; replacing the file ends its watch.           *)
(***************************************************************************)
EXTENDS Integers, FiniteSetsExt

CONSTANTS Contents,     \* what the file may hold: milli-CPUs, or one of Empty and Wrong
          Empty, Wrong,
          Requests,     \* values of the variable Requests, in milli-CPUs
          Multipliers,  \* cpuRequestsMultiplier, in tenths
          Bounds,       \* pairs of minProcs and maxProcs; a maxProcs of 0 is no bound
          Initial,      \* GOMAXPROCS of the runtime
          MaxWrites     \* bound on the changes of the file

VARIABLES multiplier, limits, watch,   \* the configuration
          file, events, watching,      \* content, events waiting, and whether there is a watch of it
          watcher, GOMAXPROCS, writes, \* step of the process; bound on the writes
          missed                       \* history: written between its reading and the watch, no event since
vars == <<multiplier, limits, watch, file, events, watching, watcher, GOMAXPROCS, writes, missed>>
conf == <<multiplier, limits, watch>>

None == 0   \* no valid requests: GOMAXPROCS is left alone
CpuRequests(raw) == IF raw \in {Empty, Wrong} THEN None ELSE raw

Ceil(n, d) == (n + d - 1) \div d
roundQuotaCeil(requests) == Ceil(requests * multiplier, 10000)
Clamped(n) == IF limits[2] > 0 /\ n > limits[2] THEN limits[2] ELSE n
Procs(requests) == Clamped(Max({roundQuotaCeil(requests), limits[1]}))
Set(raw) == GOMAXPROCS' = IF CpuRequests(raw) <= 0 THEN GOMAXPROCS ELSE Procs(CpuRequests(raw))

Init == /\ multiplier \in Multipliers /\ limits \in Bounds /\ watch \in BOOLEAN
        /\ file \in Contents /\ events = 0 /\ watching = FALSE /\ writes = 0 /\ missed = FALSE
        /\ watcher = "start" /\ GOMAXPROCS = Initial

\* setWithConfig: the file's content if there is any, else the variable.
SetWithConfig ==
    /\ watcher = "start"
    /\ IF file # Empty THEN Set(file) /\ watcher' = IF watch THEN "add" ELSE "none"
       ELSE \E r \in Requests : Set(r) /\ watcher' = "none"
    /\ UNCHANGED <<conf, file, events, watching, writes, missed>>

\* watchFile: the watch begins after the file was read.
Add == /\ watcher = "add" /\ watcher' = "watch" /\ watching' = TRUE
       /\ UNCHANGED <<conf, file, events, GOMAXPROCS, writes, missed>>
HandleEvent == /\ watcher = "watch" /\ events > 0 /\ events' = events - 1
               /\ IF file = Empty THEN UNCHANGED GOMAXPROCS ELSE Set(file)
               /\ missed' = FALSE /\ UNCHANGED <<conf, file, watching, watcher, writes>>
StopSignal == /\ watcher = "watch" /\ watcher' = "stopped" /\ watching' = FALSE /\ events' = 0
              /\ UNCHANGED <<conf, file, GOMAXPROCS, writes, missed>>

\* Whoever writes the file.
Written(c, told) == /\ file' = c /\ events' = IF told THEN events + 1 ELSE events
                    /\ missed' = (missed \/ watcher = "add")
                    /\ UNCHANGED <<conf, watcher, GOMAXPROCS>>
Truncate == writes < MaxWrites /\ writes' = writes + 1 /\ Written(Empty, watching) /\ UNCHANGED watching
Fill == file = Empty /\ \E c \in Contents \ {Empty} : Written(c, watching) /\ UNCHANGED <<watching, writes>>
Replace == /\ writes < MaxWrites /\ writes' = writes + 1 /\ watching' = FALSE
           /\ \E c \in Contents : Written(c, FALSE)

Next == SetWithConfig \/ Add \/ HandleEvent \/ StopSignal \/ Truncate \/ Fill \/ Replace
Spec == Init /\ [][Next]_vars

-----------------------------------------------------------------------------
\* With a watch and no event left to handle GOMAXPROCS is what the file asks for, within
\* the bounds; emptied or not valid, the file leaves it as it was.  (Of a file changed
\* between the first reading and the watch nothing is learned until the next write.)
ProcsFollow == watching /\ events = 0 /\ ~missed /\ CpuRequests(file) > 0 => GOMAXPROCS = Procs(file)
=============================================================================
