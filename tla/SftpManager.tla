----------------------------- MODULE SftpManager -----------------------------
(***************************************************************************)
(* sftp: a file manager of one caller over a connection that may be lost at    *)
(* any request, the answer of one already executed included; optionally an     *)
(* operation is tried once more on a new connection.  What is not connected    *)
(* stays that until the operation that finds it out.                           *)
(***************************************************************************)
EXTENDS Naturals, Sequences

CONSTANTS LocalFile, RemoteFile,   \* contents at first, sequences of chunks, or None
          None, MaxCalls

VARIABLES retryOnIdleConnection,
          local, remote, connected,
          op, pc, sent,          \* the operation, its next request, and the chunks copied
          tries, err, calls      \* attempts, the last error, bound
vars == <<retryOnIdleConnection, local, remote, connected, op, pc, sent, tries, err, calls>>

Init == /\ retryOnIdleConnection \in BOOLEAN
        /\ local \in LocalFile /\ remote \in RemoteFile /\ connected = TRUE
        /\ op = "none" /\ pc = "idle" /\ sent = 0 /\ tries = 0 /\ err = "nil" /\ calls = 0

First(o) == CASE o = "upload" -> "mkdir" [] o = "download" -> "open" [] o = "delete" -> "remove"
Call == /\ pc = "idle" /\ calls < MaxCalls /\ calls' = calls + 1
        /\ op' \in {"upload", "download", "delete"}
        /\ sent' = 0 /\ tries' = 1 /\ pc' = First(op') /\ err' = "nil"
        /\ UNCHANGED <<retryOnIdleConnection, local, remote, connected>>

-----------------------------------------------------------------------------
(* One request: it is done and answered, or done and its answer lost, or lost, or refused. *)

Fail(e) == err' = e /\ pc' = "failed" /\ UNCHANGED sent
Request(can, effect, next, done) ==
    \/ connected /\ can /\ remote' = effect /\ pc' = next /\ sent' = done /\ UNCHANGED <<connected, err>>
    \/ connected /\ can /\ remote' = effect /\ connected' = FALSE /\ Fail("lost")
    \/ connected' = FALSE /\ UNCHANGED remote /\ Fail("lost")
    \/ connected /\ UNCHANGED <<connected, remote>> /\ Fail("other")
Unchanged == UNCHANGED <<retryOnIdleConnection, op, tries, calls>>

Truncated == <<>>
Mkdir == /\ pc = "mkdir" /\ Unchanged /\ UNCHANGED local
         /\ IF local = None THEN Fail("other") /\ UNCHANGED <<remote, connected>>
            ELSE Request(TRUE, remote, "open", sent)
OpenToWrite == /\ pc = "open" /\ op = "upload" /\ Unchanged /\ UNCHANGED local
               /\ Request(TRUE, Truncated, "copy", sent)

\* io.Copy; a write replaces what is at its offset.
Written(file, i, chunk) == [j \in 1..(IF Len(file) < i THEN i ELSE Len(file)) |->
                               IF j = i THEN chunk ELSE file[j]]
CopyUp == /\ pc = "copy" /\ op = "upload" /\ Unchanged /\ UNCHANGED local
          /\ IF sent = Len(local) THEN pc' = "closed" /\ UNCHANGED <<remote, connected, sent, err>>
             ELSE Request(TRUE, Written(remote, sent + 1, local[sent + 1]), "copy", sent + 1)

OpenToRead == /\ pc = "open" /\ op = "download" /\ Unchanged
              /\ Request(remote # None, remote, "copy", sent)
              /\ local' = IF pc' = "copy" THEN Truncated ELSE local
\* Fault: a download ends with the first chunk.
AtEnd_Early == sent > 0 \/ remote = <<>>
AtEnd == sent = Len(remote)
CopyDown == /\ pc = "copy" /\ op = "download" /\ Unchanged
            /\ Request(TRUE, remote, IF AtEnd THEN "closed" ELSE "copy", sent + 1)
            /\ local' = IF pc' = "copy" THEN Append(local, remote[sent + 1]) ELSE local

Remove == /\ pc = "remove" /\ Unchanged /\ UNCHANGED local
          /\ Request(remote # None, None, "closed", sent)

-----------------------------------------------------------------------------
\* retryOnConnectionLost
Retried == retryOnIdleConnection /\ err = "lost" /\ tries < 2
Reset == /\ pc = "failed" /\ Retried
         /\ \/ /\ connected' = TRUE /\ err' = "nil" /\ sent' = 0 /\ tries' = tries + 1 /\ pc' = First(op)
            \/ /\ err' = "other" /\ UNCHANGED <<connected, sent, tries, pc>>
         /\ UNCHANGED <<retryOnIdleConnection, local, remote, op, calls>>
Return == /\ \/ pc = "closed"
             \/ pc = "failed" /\ ~Retried
          /\ pc' = "idle"
          /\ UNCHANGED <<retryOnIdleConnection, local, remote, connected, op, sent, tries, err, calls>>
\* Between calls the server may close an idle connection.
ConnectionLost == pc = "idle" /\ connected /\ connected' = FALSE
                  /\ UNCHANGED <<retryOnIdleConnection, local, remote, op, pc, sent, tries, err, calls>>

Next == \/ Call \/ Mkdir \/ OpenToWrite \/ CopyUp \/ OpenToRead \/ CopyDown \/ Remove
        \/ Reset \/ Return \/ ConnectionLost
Spec == Init /\ [][Next]_vars

-----------------------------------------------------------------------------
\* No error means that it is done, in whatever state a first attempt left the files: the
\* remote file is the local one after Upload and Download, and gone after Delete.  There
\* is at most one attempt more, only with the option, and the lost connection is not what
\* the next operation finds after one that succeeded.
NilMeansDone ==
    /\ pc = "closed" => /\ err = "nil" /\ connected
                        /\ IF op = "delete" THEN remote = None ELSE remote = local
    /\ tries <= IF retryOnIdleConnection THEN 2 ELSE 1
=============================================================================
