----------------------------- MODULE MCClients ------------------------------
(***************************************************************************)
(* Clients of stores and services, one at a time: the etcd watcher, the    *)
(* file managers, the throttlers, the sftp manager, the HTTP client that   *)
(* retries, and the two libraries behind the JSON documents. part says     *)
(* which one an execution is about, the variables of the others hold Off   *)
(* (those of EtcdWatcher a state in which it has ended).                   *)
(***************************************************************************)
EXTENDS EtcdWatcher, TLC

CONSTANTS Parts, k1, k2, t1, t2, None
VARIABLES part, provider, startAfter, ifNotExist, bucket, store, token, pcFiles,
          buffer, batch, left, items, ended, pending, removed, outcome, faults, up, given,
          always, kept, algorithm, burst, now, limiters, cached, tat, members, pcQuota, req,
          callsQuota, granted, late, retryOnIdleConnection, local, remote, connected, op,
          pcSftp, sent, tries, err, callsSftp, MaxRetry, bodyBytes, attempt, reqBody,
          responses, pcHttp, ctx, doc, use, held

Figure(i) == [t |-> "num", num |-> i, bool |-> "none"]
Text(s) == [t |-> "str", num |-> -1, bool |-> s]
MCScalars == {Figure(5), Text("true"), Text("none"), [t |-> "bool", num |-> -1, bool |-> "true"]}
MCIndexOf == "[0]" :> "0"
MCPositionOf == "0" :> 1
MCStart == [t |-> "obj", m |-> ("a" :> [t |-> "arr", e |-> <<Figure(5)>>])]

Files == INSTANCE FileManager WITH
       Keys <- {1, 2, 3}, Providers <- {"S3", "DO", "MINIO", "GCS", "AZURE"},
       Uploads <- <<2, 2>>, Deletions <- {<<1, 2>>}, MaxItems <- 2, PageSize <- 3,
       BatchSize <- 1, MaxFaults <- 1, pc <- pcFiles
Quota == INSTANCE Throttling WITH
       Callers <- {t1, t2}, Costs <- {1, 2},
       Algorithms <- {"gcra", "redis-gcra", "redis-sorted-set"}, Rate <- 2, Interval <- 1,
       Bursts <- {0, 1, 3}, MaxAttempts <- 1, MaxTime <- 4, MaxCalls <- 3, None <- None,
       pc <- pcQuota, calls <- callsQuota
Sftp == INSTANCE SftpManager WITH
       LocalFile <- {None, <<"a">>, <<"a", "b">>}, RemoteFile <- {None, <<"c", "d">>},
       None <- None, MaxCalls <- 3, pc <- pcSftp, calls <- callsSftp
Http == INSTANCE RetryableHTTP WITH
       MaxRetries <- {-1, 0, 2}, Body <- {None, <<>>, <<"a", "b">>}, None <- None,
       MaxAttempts <- 4, pc <- pcHttp
Json == INSTANCE JsonPaths WITH
       Segments <- {"a", "a.b", "0", "[0]", ""}, Empty <- "", IndexOf <- MCIndexOf,
       Numeric <- {"0"}, Special <- {"a.b"}, PositionOf <- MCPositionOf, Scalars <- MCScalars,
       MaxPath <- 2, Control <- {Text("none")}, MaxExact <- 4, MaxLeaves <- 2,
       Start <- MCStart, Syntax <- "*"

\* The configuration of a watcher that is not looked at.
MCEnded == [mode |-> "NONE", types |-> "ALL", gate |-> "off", filter |-> FALSE, loadFirst |-> FALSE]

varsFiles == <<provider, startAfter, ifNotExist, bucket, store, token, pcFiles, buffer, batch,
               left, items, ended, pending, removed, outcome, faults, up, given, always, kept>>
varsQuota == <<algorithm, burst, now, limiters, cached, tat, members, pcQuota, req, callsQuota,
               granted, late>>
varsSftp == <<retryOnIdleConnection, local, remote, connected, op, pcSftp, sent, tries, err,
              callsSftp>>
varsHttp == <<MaxRetry, bodyBytes, attempt, reqBody, responses, pcHttp, ctx>>
varsJson == <<doc, use, held>>

Off == "off"   \* what a part that is not looked at holds
\* The event types, the gate and the filter are varied one at a time, for who watches
\* everything; the modes and the loads without them.
MCInit ==
    /\ part \in Parts
    /\ IF part = "etcd"
       THEN Init /\ (config.types = "DELETE" => config.gate = "off" /\ ~config.filter)
                 /\ (config.gate # "off" => ~config.filter)
                 /\ (config.types = "DELETE" \/ config.gate # "off" \/ config.filter
                       => config.mode = "ALL" /\ ~config.loadFirst)
       ELSE config = MCEnded /\ log = <<>> /\ compacted = 0 /\ pc = "closed" /\ done = TRUE
            /\ open = FALSE /\ base = 0 /\ todo = {} /\ events = <<>> /\ pos = 0
            /\ cur = <<>> /\ emitted = {} /\ out = <<>>
    /\ IF part = "files" THEN Files!Init
       ELSE provider = Off /\ startAfter = Off /\ ifNotExist = Off /\ bucket = Off
            /\ store = Off /\ token = Off /\ pcFiles = Off /\ buffer = Off /\ batch = Off
            /\ left = Off /\ items = Off /\ ended = Off /\ pending = Off /\ removed = Off
            /\ outcome = Off /\ faults = Off /\ up = Off /\ given = Off /\ always = Off
            /\ kept = Off
    /\ IF part = "throttle" THEN Quota!Init
       ELSE algorithm = Off /\ burst = Off /\ now = Off /\ limiters = Off /\ cached = Off
            /\ tat = Off /\ members = Off /\ pcQuota = Off /\ req = Off /\ callsQuota = Off
            /\ granted = Off /\ late = Off
    /\ IF part = "sftp" THEN Sftp!Init
       ELSE retryOnIdleConnection = Off /\ local = Off /\ remote = Off /\ connected = Off
            /\ op = Off /\ pcSftp = Off /\ sent = Off /\ tries = Off /\ err = Off
            /\ callsSftp = Off
    /\ IF part = "http" THEN Http!Init
       ELSE MaxRetry = Off /\ bodyBytes = Off /\ attempt = Off /\ reqBody = Off
            /\ responses = Off /\ pcHttp = Off /\ ctx = Off
    /\ IF part = "json" THEN Json!Init
       ELSE doc = Off /\ use = Off /\ held = Off

MCNext ==
    \/ part = "etcd" /\ Next
       /\ UNCHANGED <<part, varsFiles, varsQuota, varsSftp, varsHttp, varsJson>>
    \/ part = "files" /\ Files!Next
       /\ UNCHANGED <<part, vars, varsQuota, varsSftp, varsHttp, varsJson>>
    \/ part = "throttle" /\ Quota!Next
       /\ UNCHANGED <<part, vars, varsFiles, varsSftp, varsHttp, varsJson>>
    \/ part = "sftp" /\ Sftp!Next
       /\ UNCHANGED <<part, vars, varsFiles, varsQuota, varsHttp, varsJson>>
    \/ part = "http" /\ Http!Next
       /\ UNCHANGED <<part, vars, varsFiles, varsQuota, varsSftp, varsJson>>
    \/ part = "json" /\ Json!Next
       /\ (use["Setter"] = "other" \/ use["Setter"] # use["Deleter"] => UNCHANGED doc)
       /\ (\A p \in DOMAIN held' : held'[p] = Figure(5) => p \in DOMAIN held /\ held[p] = Figure(5))
       /\ UNCHANGED <<part, vars, varsFiles, varsQuota, varsSftp, varsHttp>>
all == <<part, vars, varsFiles, varsQuota, varsSftp, varsHttp, varsJson>>

MCSpec == MCInit /\ [][MCNext]_all
\* The fairness of FairSpec of the watcher.
MCFairSpec == MCSpec /\ WF_all(part = "etcd" /\ Watcher /\ UNCHANGED <<part, varsFiles, varsQuota, varsSftp, varsHttp, varsJson>>)

-----------------------------------------------------------------------------
\* A listing gives every file that was there all the time, once and in order, and a
\* delete leaves none of its keys, whatever pages, retries, uploads and deletes come in
\* between; downloads read the bytes asked for and names are found in locations.
FilesAreListedAndFound == part = "files" => Files!ListsEverything /\ Files!FilesAreFound

\* Of any grants in a row, no more than the burst and what the time between is worth.
QuotaHolds == part = "throttle" => Quota!QuotaHolds

\* A retry does all of what the first attempt should have done, and there are no more
\* attempts than asked for.
RetriesAreSafe == /\ part = "sftp" => Sftp!NilMeansDone
                  /\ part = "http" => Http!AttemptsAreRight

\* Whichever library wrote a JSON document, and whichever reads it, a path reads as set.
ReadsWhatWasSet == part = "json" => Json!ReadsWhatWasSet

\* "Next returns the next batch of files, until there are no more files for this
\* session" (filemanager.go:105): the same of all providers.
AzureListsEverything == part = "files" => Files!AzureListsEverything

\* "If you can get a response, even if it's a 500 then err should be nil and the response
\* should simply contain the correct status code (e.g. 500) and body for the caller
\* perusal" (retryablehttp.go:138).
ReturnedIsReadable == part = "http" => Http!ReturnedIsReadable
=============================================================================
