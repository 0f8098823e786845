---------------------------- MODULE RetryableHTTP ----------------------------
(***************************************************************************)
(* retryablehttp: one Do, its attempts, the responses it gets and closes, and  *)
(* the ways the backoff library ends it: tries, context, elapsed time.         *)
(***************************************************************************)
EXTENDS Integers, Sequences

CONSTANTS MaxRetries,    \* values of the configuration; below 0 there is no limit
          Body,          \* contents of the request's body, sequences; or None
          None,
          MaxAttempts    \* bound on the attempts when there is no limit

VARIABLES MaxRetry, bodyBytes, attempt,
          reqBody,       \* what is left of the body to be read
          responses,     \* of each attempt: retry or not, or an error; open; the body sent
          pc, ctx        \* step of Do; whether the request's context lasts
vars == <<MaxRetry, bodyBytes, attempt, reqBody, responses, pc, ctx>>

\* Do, up to the first attempt: the body is read to its end.
Rest(body) == IF body = None THEN None ELSE <<>>
Init == /\ MaxRetry \in MaxRetries /\ bodyBytes \in Body /\ reqBody = Rest(bodyBytes)
        /\ attempt = 0 /\ responses = <<>> /\ pc = "attempt" /\ ctx = TRUE

maxTries == IF MaxRetry >= 0 THEN MaxRetry + 1 ELSE 0
BaseRetryStrategy(status) == status \in {"error", "5xx", "429"}
ResetBody == IF bodyBytes # None THEN bodyBytes ELSE reqBody

\* The client sends all, or what it comes to before an error or an early answer.
Send == /\ pc = "attempt" /\ attempt < MaxAttempts /\ attempt' = attempt + 1
        /\ \E status \in {"2xx", "4xx", "429", "5xx", "error"} :
              /\ responses' = Append(responses, [status |-> status, open |-> status # "error", sent |-> ResetBody])
              /\ pc' = IF BaseRetryStrategy(status) THEN "retry" ELSE "return"
        /\ reqBody' = Rest(ResetBody)
        /\ UNCHANGED <<MaxRetry, bodyBytes, ctx>>

\* backoff.Retry, after an attempt that is to be retried: the tries and the context, then
\* perhaps the elapsed time, end it; else the notification comes before the wait.
Newest == Len(responses)
TriesLeft == maxTries = 0 \/ attempt < maxTries
EndRetry == /\ pc = "retry" /\ pc' = "return"
            /\ UNCHANGED <<MaxRetry, bodyBytes, attempt, reqBody, responses, ctx>>
Notify == /\ pc = "retry" /\ TriesLeft /\ ctx /\ pc' = "wait"
          /\ responses' = [responses EXCEPT ![Newest].open = FALSE]
          /\ UNCHANGED <<MaxRetry, bodyBytes, attempt, reqBody, ctx>>
Wait == /\ pc = "wait" /\ pc' \in (IF ctx THEN {"attempt"} ELSE {"attempt", "return"})
        /\ UNCHANGED <<MaxRetry, bodyBytes, attempt, reqBody, responses, ctx>>
CtxEnds == ctx /\ ctx' = FALSE /\ UNCHANGED <<MaxRetry, bodyBytes, attempt, reqBody, responses, pc>>

Next == Send \/ EndRetry \/ Notify \/ Wait \/ CtxEnds
Spec == Init /\ [][Next]_vars

-----------------------------------------------------------------------------
\* Each attempt sends the whole body; no response is left open but the one returned, which
\* is the last; attempts are one more than the retries at most, and none comes after an
\* answer that is final.
AttemptsAreRight ==
    /\ MaxRetry >= 0 => attempt <= MaxRetry + 1
    /\ \A i \in DOMAIN responses :
          /\ responses[i].sent = bodyBytes
          /\ i < Newest => ~responses[i].open /\ BaseRetryStrategy(responses[i].status)
    /\ pc = "attempt" /\ responses # <<>> => ~responses[Newest].open

\* "If you can get a response, even if it's a 500 then err should be nil and the response
\* should simply contain the correct status code (e.g. 500) and body for the caller
\* perusal" (retryablehttp.go:138): a response is returned with its body open.
ReturnedIsReadable ==
    pc = "return" => responses[Newest].status = "error" \/ responses[Newest].open
=============================================================================
