----------------------------- MODULE FileManager -----------------------------
(***************************************************************************)
(* filemanager: one interface over the object stores of five providers.       *)
(* A key is its rank in the order of the store, a page one answer of it; any   *)
(* request may fail.  One goroutine iterates over a list session, one deletes, *)
(* others upload meanwhile.                                                    *)
(***************************************************************************)
EXTENDS Integers, Sequences, SequencesExt, FiniteSets, FiniteSetsExt

CONSTANTS Keys,            \* a set of positive integers
          Providers,       \* those of S3, DO, MINIO, GCS and AZURE that are looked at
          Uploads,         \* of each uploading goroutine: the key, uploaded once
          Deletions,       \* the sequences of keys that are deleted, one of them
          MaxItems,        \* of the session
          PageSize,        \* of the pages the GCS iterator asks for
          BatchSize,       \* of DeleteObjects: 1000 in the code
          MaxFaults        \* bound: requests, or keys of a request, that fail

VARIABLES provider, startAfter,
          ifNotExist,      \* GCS: uploadIfNotExist
          bucket,          \* it exists
          store,           \* its keys
          token,           \* where the session goes on: after this key; Done at the end
          pc,              \* of Next: "idle", "pages"
          buffer,          \* the GCS iterator's own page
          batch, left,     \* fileObjects and maxItems of Next
          items, ended,    \* of the ObjectIterator; ended: an empty batch, or an error
          pending, removed,\* of Delete: keys to go, keys it was given; its outcome
          outcome, faults,
          up,              \* of each uploader: the step it is at, or the outcome
          given, always,   \* history: what the iterator gave; keys there all the time
          kept             \* history: keys a DeleteObjects without an error left
config == <<provider, startAfter, ifNotExist>>
session == <<token, pc, buffer, batch, left, items, ended, given>>
deletion == <<pending, removed, outcome, kept>>
Uploaders == DOMAIN Uploads
vars == <<config, bucket, store, session, deletion, up, faults, always>>

Done == 1 + Max(Keys)      \* isTruncated is false, the marker or the iterator is done
Failed == Done + 1         \* the GCS iterator keeps its error
MaxOf(a, b) == IF a > b THEN a ELSE b
MinOf(a, b) == IF a < b THEN a ELSE b

Init == /\ provider \in Providers /\ store \in SUBSET Keys
        /\ bucket \in BOOLEAN /\ (~bucket => store = {} /\ provider \in {"MINIO", "AZURE"})
        /\ startAfter \in {0} \cup Keys /\ ifNotExist \in BOOLEAN /\ (ifNotExist => provider = "GCS")
        /\ token = 0 /\ pc = "idle" /\ buffer = <<>> /\ batch = <<>> /\ left = 0
        /\ items = <<>> /\ ended = FALSE /\ given = <<>>
        /\ pending = <<>> /\ removed = {} /\ outcome = "none" /\ kept = {}
        /\ up = [u \in Uploaders |-> "none"]
        /\ faults = 0 /\ always = store

\* The store's answer to a list request: at most n keys after k, and the token with it.
Page(k, n) == LET s == SetToSortSeq({x \in store : x > k}, <)
              IN SubSeq(s, 1, MinOf(n, Len(s)))
TokenAfter(page, k) == IF \E x \in store : x > (IF page = <<>> THEN k ELSE Last(page))
                       THEN Last(page) ELSE Done

-----------------------------------------------------------------------------
InNext(p) == pc = p /\ UNCHANGED <<config, bucket, store, deletion, up, always>>
\* ObjectIterator.Next asks the session when it has no items.
Ask == /\ InNext("idle") /\ items = <<>> /\ ~ended
       /\ pc' = "pages" /\ left' = MaxItems /\ batch' = <<>>
       /\ UNCHANGED <<token, buffer, items, ended, given, faults>>
Take == /\ InNext("idle") /\ items # <<>>
        /\ items' = Tail(items) /\ given' = Append(given, Head(items))
        /\ UNCHANGED <<token, pc, buffer, batch, left, ended, faults>>

Returns(b) == /\ pc' = "idle" /\ items' = b /\ ended' = (b = <<>>) /\ batch' = <<>>
              /\ UNCHANGED <<left, given, faults>>
\* Fault: the continuation token is not sent.
NextPage_NoToken(p) ==
    /\ InNext("pages") /\ provider = p /\ UNCHANGED buffer
    /\ IF token = Done THEN Returns(<<>>) /\ UNCHANGED token
       ELSE Returns(Page(startAfter, MaxItems)) /\ token' = TokenAfter(Page(token, MaxItems), token)
\* One ListObjectsV2, unless the last said that it was not truncated.
NextPage(p) == /\ InNext("pages") /\ provider = p /\ UNCHANGED buffer
               /\ LET from == MaxOf(token, startAfter) IN
                  IF token = Done THEN Returns(<<>>) /\ UNCHANGED token
                  ELSE bucket /\ Returns(Page(from, MaxItems)) /\ token' = TokenAfter(Page(from, MaxItems), from)
S3Next == NextPage("S3")
DONext == NextPage("DO")
MinioNext == NextPage("MINIO")
\* GCS: the iterator, which starts AT startAfter, is asked for one file at a time.
GcsNext ==
    /\ InNext("pages") /\ provider = "GCS" /\ token # Failed
    /\ LET n == MinOf(left, Len(buffer)) IN
       IF n > 0
       THEN /\ batch' = batch \o SubSeq(buffer, 1, n) /\ left' = left - n
            /\ buffer' = SubSeq(buffer, n + 1, Len(buffer))
            /\ UNCHANGED <<token, pc, items, ended, given, faults>>
       ELSE IF left = 0 \/ token = Done THEN Returns(batch) /\ UNCHANGED <<token, buffer>>
       ELSE LET p == Page(MaxOf(token, startAfter - 1), PageSize) IN
            /\ buffer' = p /\ token' = TokenAfter(p, MaxOf(token, startAfter - 1))
            /\ UNCHANGED <<pc, batch, left, items, ended, given, faults>>
\* Azure: pages from the marker on, filtered; each page replaces the files so far.
AzureNext ==
    /\ InNext("pages") /\ provider = "AZURE" /\ UNCHANGED buffer
    /\ IF left <= 0 \/ token = Done THEN Returns(batch) /\ UNCHANGED token
       ELSE LET p == Page(token, MaxItems)
                b == SelectSeq(p, LAMBDA k : k > startAfter) IN
            /\ bucket /\ token' = TokenAfter(p, token) /\ batch' = b /\ left' = left - Len(b)
            /\ UNCHANGED <<pc, items, ended, given, faults>>
\* A request that fails ends Next, the GCS iterator for good, with what it has.
NextFails == /\ InNext("pages") /\ token # Done
             /\ provider \in {"GCS", "AZURE"} => left > 0 /\ buffer = <<>>
             /\ pc' = "idle" /\ batch' = <<>>
             /\ IF token = Failed \/ ~bucket THEN UNCHANGED faults
                ELSE faults < MaxFaults /\ faults' = faults + 1
             /\ IF provider = "GCS" THEN items' = batch /\ token' = Failed ELSE UNCHANGED <<items, token>>
             /\ UNCHANGED <<buffer, left, ended, given>>

-----------------------------------------------------------------------------
Uploading(u, from, to) == /\ up[u] = from /\ up' = [up EXCEPT ![u] = to]
                          /\ UNCHANGED <<config, session, pending, outcome, kept, faults, always>>
\* S3, DigitalOcean and GCS take the bucket for granted.
Upload(u) == /\ provider \notin {"MINIO", "AZURE"}
                /\ Uploading(u, "none", "put") /\ UNCHANGED <<bucket, store, removed>>
\* Minio asks for it, and makes it if it was not there; making it twice is an error.
MinioUpload(u) == /\ provider = "MINIO"
                     /\ Uploading(u, "none", IF bucket THEN "put" ELSE "make")
                     /\ UNCHANGED <<bucket, store, removed>>
MinioMakesBucket(u) == /\ Uploading(u, "make", IF bucket THEN "error" ELSE "put") /\ bucket' = TRUE
                       /\ UNCHANGED <<store, removed>>
\* Azure makes it every time: a second time is no error.
AzureUpload(u) == /\ provider = "AZURE"
                     /\ Uploading(u, "none", "put") /\ bucket' = TRUE
                     /\ UNCHANGED <<store, removed>>
Put(u) == /\ UNCHANGED bucket
          /\ \/ /\ ifNotExist /\ Uploads[u] \in store
                /\ Uploading(u, "put", "exists") /\ UNCHANGED <<store, removed>>
             \/ /\ ~(ifNotExist /\ Uploads[u] \in store)
                /\ Uploading(u, "put", "done")
                /\ store' = store \cup {Uploads[u]} /\ removed' = removed \ {Uploads[u]}

-----------------------------------------------------------------------------
Delete(s) == /\ outcome = "none" /\ outcome' = "running" /\ bucket
             /\ pending' = s /\ removed' = Range(s)
             /\ UNCHANGED <<config, bucket, store, session, up, faults, always, kept>>
Deletes(n, refused) ==
    LET some == Range(SubSeq(pending, 1, n)) \ refused IN
    /\ outcome = "running" /\ pending # <<>> /\ refused \subseteq Range(SubSeq(pending, 1, n))
    /\ IF refused = {} THEN UNCHANGED faults ELSE faults < MaxFaults /\ faults' = faults + 1
    /\ store' = store \ some /\ always' = always \ some
    /\ pending' = SubSeq(pending, n + 1, Len(pending))
    /\ UNCHANGED <<config, bucket, session, up, removed>>
\* S3 and DigitalOcean delete in chunks, and look at the error of the request but not
\* at the keys that the answer says were not deleted.
DeleteObjects(p, refused) == /\ provider = p /\ Deletes(MinOf(Len(pending), BatchSize), refused)
                             /\ kept' = kept \cup refused /\ UNCHANGED outcome
S3Delete(refused) == DeleteObjects("S3", refused)
DODelete(refused) == DeleteObjects("DO", refused)
\* Minio deletes them all, and Delete returns the first error: those behind it may be
\* deleted or not.
MinioDelete(refused) == /\ provider = "MINIO" /\ Deletes(Len(pending), refused)
                        /\ outcome' = (IF refused # {} THEN "error" ELSE outcome) /\ UNCHANGED kept
\* GCS and Azure key by key; a missing one is an error of Azure's.
GcsDelete == /\ provider = "GCS" /\ Deletes(1, {}) /\ UNCHANGED <<outcome, kept>>
AzureDelete == /\ provider = "AZURE" /\ Deletes(1, {}) /\ UNCHANGED kept
               /\ outcome' = (IF Head(pending) \notin store THEN "error" ELSE outcome)
\* A request that fails (a timeout) may have been carried out.
DeleteFails(carriedOut) ==
    /\ outcome = "running" /\ pending # <<>> /\ faults < MaxFaults /\ faults' = faults + 1
    /\ LET n == CASE provider \in {"S3", "DO"} -> MinOf(Len(pending), BatchSize)
                  [] provider = "MINIO" -> Len(pending)
                  [] OTHER -> 1
           some == IF carriedOut THEN Range(SubSeq(pending, 1, n)) ELSE {} IN
       store' = store \ some /\ always' = always \ some
    /\ outcome' = "error"
    /\ UNCHANGED <<config, bucket, session, up, pending, removed, kept>>
DeleteReturns == /\ outcome = "running" /\ pending = <<>> /\ outcome' = "nil"
                 /\ UNCHANGED <<config, bucket, store, session, up, pending, removed, faults, always, kept>>

Next == \/ Ask \/ Take \/ S3Next \/ DONext \/ MinioNext \/ GcsNext \/ AzureNext \/ NextFails
        \/ \E u \in Uploaders : \/ Upload(u) \/ MinioUpload(u) \/ MinioMakesBucket(u)
                               \/ AzureUpload(u) \/ Put(u)
        \/ \E s \in Deletions : Delete(s)
        \/ \E r \in SUBSET Keys : S3Delete(r) \/ DODelete(r) \/ MinioDelete(r)
        \/ GcsDelete \/ AzureDelete \/ DeleteReturns \/ \E c \in BOOLEAN : DeleteFails(c)
Spec == Init /\ [][Next]_vars

-----------------------------------------------------------------------------
\* Downloads: what is read of an object of the given size, as its first and last byte.
Options(offset, length) == [offset |-> MaxOf(offset, 0), length |-> MaxOf(length, 0)]
Till(o, size) == IF o.length > 0 THEN MinOf(o.offset + o.length, size) - 1 ELSE size - 1
S3Range(o, size) == <<o.offset, Till(o, size)>>
DORange(o, size) == <<o.offset, Till(o, size)>>
GcsRange(o, size) == <<o.offset, Till(o, size)>>
AzureRange(o, size) == <<o.offset, Till(o, size)>>
\* SetRange(0, 0) asks for bytes=0-0, SetRange(n, 0) for bytes=n-
MinioRange(o, size) == IF o.offset = 0 /\ o.length = 0 THEN <<0, 0>> ELSE <<o.offset, Till(o, size)>>

\* Locations: the path of a URL is a sequence of segments, the host has the bucket's
\* name in it or not.  GetObjectNameFromLocation and GetDownloadKeyFromFileLocation.
TrimBucket(path) == IF path # <<>> /\ Head(path) = "bucket" THEN Tail(path) ELSE path
AfterBucket(path) == SubSeq(path, 1 + Max({0} \cup {i \in DOMAIN path : path[i] = "bucket"}), Len(path))
S3Name(inHost, path) == IF inHost THEN path ELSE TrimBucket(path)
DOName(inHost, path) == IF inHost THEN path ELSE TrimBucket(path)
MinioName(path) == Tail(path)
GcsName(path) == AfterBucket(path)
AzureName(path) == AfterBucket(path)
\* What the locations of uploaded objects are: the stores' for S3 and DigitalOcean.
StoreLocation(inHost, name) == IF inHost THEN name ELSE <<"bucket">> \o name
MinioLocation(name) == <<"bucket">> \o name
GcsLocation(name) == <<"bucket">> \o name
AzureLocation(name) == <<"bucket">> \o name

-----------------------------------------------------------------------------
\* A Delete without an error left none of its keys but those uploaded since and those
\* that the answer of DeleteObjects reports.
DeletesAll == outcome = "nil" => removed \cap store \subseteq kept

\* A finished iteration gave every file that was there all the time, each once and in
\* order, and none at or before startAfter (GCS: none before it), whatever pages,
\* retries, uploads and deletes came in between (Azure: with a startAfter it loses
\* files, see below).
ListsEverything ==
    /\ ended /\ (provider # "AZURE" \/ startAfter = 0) =>
           \A k \in always : k > startAfter => Contains(given, k)
    /\ \A i, j \in DOMAIN given : i < j => given[i] < given[j]
    /\ \A k \in Range(given) : k > startAfter \/ (provider = "GCS" /\ k = startAfter)
    /\ DeletesAll

\* The bytes a download reads are those asked for, from the offset to the length or
\* the end (Minio: not when both are zero), and the name found in the location of an
\* uploaded object is its name (GCS and Azure: unless a folder of it is named like
\* the bucket).
Names == UNION {[1..n -> {"bucket", "file"}] : n \in 1..3}
FilesAreFound ==
    /\ \A offset \in -1..2, length \in -1..3 :
          LET o == Options(offset, length)
              want == <<o.offset, IF length <= 0 THEN 3 ELSE MinOf(o.offset + length, 4) - 1>> IN
          /\ S3Range(o, 4) = want /\ DORange(o, 4) = want
          /\ GcsRange(o, 4) = want /\ AzureRange(o, 4) = want
          /\ MinioRange(o, 4) = want \/ (o.offset = 0 /\ o.length = 0)
    /\ \A name \in Names :
          /\ \A h \in BOOLEAN : /\ S3Name(h, StoreLocation(h, name)) = name
                              /\ DOName(h, StoreLocation(h, name)) = name
          /\ MinioName(MinioLocation(name)) = name
          /\ "bucket" \notin Range(name) => /\ GcsName(GcsLocation(name)) = name
                                          /\ AzureName(AzureLocation(name)) = name

\* "Next returns the next batch of files, until there are no more files for this
\* session" (filemanager.go:105): the same of all providers.
AzureListsEverything == ended => \A k \in always : k > startAfter => Contains(given, k)
=============================================================================
