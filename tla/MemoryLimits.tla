----------------------------- MODULE MemoryLimits -----------------------------
(***************************************************************************)
(* mem: memory statistics read from the files of a cgroup, one file at a time *)
(* while the kernel changes them, and the goroutines of WatchMemoryLimit that  *)
(* poll them and set GOMEMLIMIT to a percentage of the total.                  *)
(***************************************************************************)
EXTENDS Integers, Sequences, FiniteSetsExt

CONSTANTS Files,       \* contents of the cgroup's files, records as in Init
          Total,       \* of the host; a cgroup limit above it, or not above 0, is no limit
          Free,        \* available on the host
          Percents,    \* values of the limitPercent loader
          MaxChanges   \* bound on the changes of files and percentage

VARIABLES files, percent,
          poller, stat,            \* step of the polling goroutine and what its Get has read
          lastMemoryLimit, ch,     \* the last value polled; the channel, of capacity 1
          applier, GOMEMLIMIT,
          done, changes            \* the context has ended; bound
vars == <<files, percent, poller, stat, lastMemoryLimit, ch, applier, GOMEMLIMIT, done, changes>>
environment == <<files, percent, done, changes>>

NoStat == [total |-> 0, used |-> 0, rss |-> 0, available |-> 0]
NoLimit == -1
\* v is the version of the cgroup: 1, 2, or 0 if there is none; files that are missing or
\* do not parse count as 0.
Init == /\ files \in Files /\ percent \in Percents
        /\ poller = "limit" /\ stat = NoStat /\ lastMemoryLimit = NoLimit
        /\ ch = <<>> /\ applier = "receive" /\ GOMEMLIMIT = NoLimit /\ done = FALSE /\ changes = 0

-----------------------------------------------------------------------------
(* collector.Get, in the order the files are read *)

Bounded(n) == IF n <= 0 \/ n > Total THEN Total ELSE n
GetMemoryLimit == IF files.v = 1 /\ (files.limit <= 0 \/ files.limit > Total)
                  THEN Bounded(files.hierarchical) ELSE Bounded(files.limit)

Poll(from, to, new) == poller = from /\ poller' = to /\ stat' = new
Reading == UNCHANGED <<environment, lastMemoryLimit, ch, applier, GOMEMLIMIT>>

ReadLimit == LET limit == GetMemoryLimit IN
    /\ IF limit < Total THEN Poll("limit", "usage", [NoStat EXCEPT !.total = limit])
       ELSE Poll("limit", "compare", [total |-> Total, available |-> Free, used |-> Total - Free, rss |-> Total - Free])
    /\ Reading
ReadUsage == Poll("usage", "inactive", [stat EXCEPT !.used = files.usage]) /\ Reading
WSS(used, inactive) == IF used < inactive THEN 0 ELSE used - inactive
ReadInactive == /\ Poll("inactive", IF files.v = 1 THEN "total_rss" ELSE "rss",
                        [stat EXCEPT !.used = WSS(@, files.inactive)])
                /\ Reading
ReadTotalRss == /\ Poll("total_rss", "rss", [stat EXCEPT !.used = Max({@, files.rss})])
                /\ Reading

Completed(s, rss) ==
    LET used == Min({s.used, s.total}) IN
    [s EXCEPT !.used = used, !.available = s.total - used,
              !.rss = IF rss = 0 \/ rss > used THEN used ELSE rss]
ReadRss == Poll("rss", "compare", Completed(stat, files.rss)) /\ Reading

-----------------------------------------------------------------------------
(* distinctMemoryLimitValues and the goroutine that sets the limits *)

Limit(p, total) == (p * total) \div 100
Compare == LET limit == Limit(percent, stat.total) IN
    /\ Poll("compare", IF limit # lastMemoryLimit THEN "send" ELSE "wait", NoStat)
    /\ lastMemoryLimit' = limit
    /\ UNCHANGED <<environment, ch, applier, GOMEMLIMIT>>

Room == Len(ch) < 1
\* Fault: a value is dropped while another waits.
Send_Drops == /\ Poll("send", "wait", stat) /\ ch' = (IF Room THEN Append(ch, lastMemoryLimit) ELSE ch)
              /\ UNCHANGED <<environment, lastMemoryLimit, applier, GOMEMLIMIT>>
Send == \/ /\ Room /\ Poll("send", "wait", stat) /\ ch' = Append(ch, lastMemoryLimit)
           /\ UNCHANGED <<environment, lastMemoryLimit, applier, GOMEMLIMIT>>
        \/ done /\ Poll("send", "closed", stat) /\ Reading
Wait == (\/ Poll("wait", "limit", stat)
         \/ done /\ Poll("wait", "closed", stat)) /\ Reading

Receive == /\ applier = "receive"
           /\ \/ /\ ch # <<>> /\ ch' = Tail(ch) /\ GOMEMLIMIT' = Head(ch) /\ UNCHANGED applier
              \/ /\ ch = <<>> /\ poller = "closed" /\ applier' = "done" /\ UNCHANGED <<ch, GOMEMLIMIT>>
           /\ UNCHANGED <<environment, poller, stat, lastMemoryLimit>>

Change == /\ changes < MaxChanges /\ changes' = changes + 1
          /\ \/ \E f \in Files : f.v = files.v /\ files' = f /\ UNCHANGED percent
             \/ percent' \in Percents /\ UNCHANGED files
          /\ UNCHANGED <<poller, stat, lastMemoryLimit, ch, applier, GOMEMLIMIT, done>>
CtxEnds == ~done /\ done' = TRUE
           /\ UNCHANGED <<files, percent, poller, stat, lastMemoryLimit, ch, applier, GOMEMLIMIT, changes>>

Goroutine == ReadLimit \/ ReadUsage \/ ReadInactive \/ ReadTotalRss \/ ReadRss \/ Compare \/ Send \/ Wait
Next == Goroutine \/ Receive \/ Change \/ CtxEnds
Fairness == WF_vars(Goroutine) /\ WF_vars(Receive)
Spec == Init /\ [][Next]_vars /\ Fairness

-----------------------------------------------------------------------------
\* However the files change while they are read, the statistics Get returns fit together,
\* so that no difference or percentage computed of them wraps: available is total minus
\* used, and what is resident is no more than what is used (mem.go Get, Stat).
StatFits == poller = "compare" =>
                /\ stat.used \in 0..stat.total /\ stat.available = stat.total - stat.used
                /\ stat.rss \in 0..stat.used /\ stat.total \in 1..Total

\* Once files and percentage are left alone GOMEMLIMIT becomes the percentage of the
\* limit and stays that, whatever changed while a value waited in the channel; or the
\* context ends and both goroutines return, which the wait group counts on.
LimitFollows == <>[](GOMEMLIMIT = Limit(percent, GetMemoryLimit) \/ applier = "done")
=============================================================================
