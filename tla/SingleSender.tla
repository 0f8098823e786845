---------------------------- MODULE SingleSender ----------------------------
(***************************************************************************)
(* async/single_sender.go: a channel between a sending and a receiving side *)
(* either of which may stop first.  Send holds closedMu while it is blocked *)
(* in its select; Close needs closedMu, and gets it because it first        *)
(* cancels sendCtx, which the select listens to.  leave is the cancel       *)
(* function of sendCtx; the context that Begin returned is cancelled by     *)
(* Close and by a Send that notices that sendCtx is done.                   *)
(***************************************************************************)
EXTENDS Integers, FiniteSets

CONSTANTS Senders,    \* goroutines of the sending side
          MaxSends,   \* bound: calls of Send by each of them
          Nobody

VARIABLES parent,     \* the parent context is done
          ctx,        \* s.ctx is done
          sendCtx,    \* s.sendCtx is done
          mu,         \* who holds closedMu
          closed,     \* s.closed, and ch is closed
          pc, sends,  \* where each sender is, and its calls so far
          receiver,   \* "receiving", "left" or "ended": it saw the channel closed
          closing     \* history: Close has been called

vars == <<parent, ctx, sendCtx, mu, closed, pc, sends, receiver, closing>>

Labels == {"working", "lock", "select", "closeSend", "closeLock", "stopped"}

TypeOK == /\ parent \in BOOLEAN /\ ctx \in BOOLEAN /\ sendCtx \in BOOLEAN
          /\ mu \in Senders \cup {Nobody}
          /\ \A s \in Senders : pc[s] = "select" <=> mu = s
          /\ closed \in BOOLEAN /\ closing \in BOOLEAN
          /\ pc \in [Senders -> Labels]
          /\ sends \in [Senders -> 0..MaxSends]
          /\ receiver \in {"receiving", "left", "ended"}

\* Begin, before either side runs.
Init == /\ parent \in BOOLEAN /\ ctx = parent /\ sendCtx = FALSE
        /\ mu = Nobody /\ closed = FALSE /\ closing = FALSE
        /\ pc = [s \in Senders |-> "working"]
        /\ sends = [s \in Senders |-> 0]
        /\ receiver = "receiving"

Goto(s, label) == pc' = [pc EXCEPT ![s] = label]

\* Send(value) is called.
Send(s) == /\ pc[s] = "working" /\ sends[s] < MaxSends
           /\ sends' = [sends EXCEPT ![s] = @ + 1]
           /\ Goto(s, "lock")
           /\ UNCHANGED <<parent, ctx, sendCtx, mu, closed, receiver, closing>>

\* Send gets closedMu: nothing more for a closed channel, else the select.
SendLock(s) == /\ pc[s] = "lock" /\ mu = Nobody
               /\ \/ closed /\ Goto(s, "working") /\ UNCHANGED mu
                  \/ ~closed /\ Goto(s, "select") /\ mu' = s
               /\ UNCHANGED <<parent, ctx, sendCtx, closed, sends, receiver, closing>>

\* The select takes the done sendCtx: the value is dropped, the context cancelled.
SendLeft(s) == /\ pc[s] = "select" /\ sendCtx
               /\ ctx' = TRUE
               /\ mu' = Nobody
               /\ Goto(s, "working")
               /\ UNCHANGED <<parent, sendCtx, closed, sends, receiver, closing>>

\* The select meets the receiver.
Deliver(s) == /\ pc[s] = "select" /\ receiver = "receiving"
              /\ mu' = Nobody
              /\ Goto(s, "working")
              /\ UNCHANGED <<parent, ctx, sendCtx, closed, sends, receiver, closing>>

\* Close is called: ctxCancel.
Close(s) == /\ pc[s] = "working"
            /\ ctx' = TRUE /\ closing' = TRUE
            /\ Goto(s, "closeSend")
            /\ UNCHANGED <<parent, sendCtx, mu, closed, sends, receiver>>

\* Fault: Close does not cancel sendCtx before it waits for closedMu.
CloseSend_Not(s) ==
  /\ pc[s] = "closeSend"
  /\ Goto(s, "closeLock")
  /\ UNCHANGED <<parent, ctx, sendCtx, mu, closed, sends, receiver, closing>>

\* Close: sendCtxCancel.
CloseSend(s) == /\ pc[s] = "closeSend"
                /\ sendCtx' = TRUE
                /\ Goto(s, "closeLock")
                /\ UNCHANGED <<parent, ctx, mu, closed, sends, receiver, closing>>

\* Fault: Close does not take closedMu.
CloseLock_NoMutex(s) ==
  /\ pc[s] = "closeLock"
  /\ closed' = TRUE
  /\ Goto(s, "stopped")
  /\ UNCHANGED <<parent, ctx, sendCtx, mu, sends, receiver, closing>>

\* Fault: a Close that finds the context cancelled closes nothing.
CloseLock_IfNotDone(s) ==
  /\ pc[s] = "closeLock" /\ mu = Nobody
  /\ closed' = (closed \/ ~parent)
  /\ Goto(s, "stopped")
  /\ UNCHANGED <<parent, ctx, sendCtx, mu, sends, receiver, closing>>

\* Close: closedMu, and the channel is closed unless it is.
CloseLock(s) == /\ pc[s] = "closeLock" /\ mu = Nobody
                /\ closed' = TRUE
                /\ Goto(s, "stopped")
                /\ UNCHANGED <<parent, ctx, sendCtx, mu, sends, receiver, closing>>

\* The receiver leaves.
Leave == /\ receiver = "receiving"
         /\ receiver' = "left"
         /\ sendCtx' = TRUE
         /\ UNCHANGED <<parent, ctx, mu, closed, pc, sends, closing>>

\* The receiver finds the channel closed.
ReceiveClosed == /\ receiver = "receiving" /\ closed
                 /\ receiver' = "ended"
                 /\ UNCHANGED <<parent, ctx, sendCtx, mu, closed, pc, sends, closing>>

\* The parent context is cancelled, and s.ctx with it.
ParentEnds == /\ ~parent
              /\ parent' = TRUE /\ ctx' = TRUE
              /\ UNCHANGED <<sendCtx, mu, closed, pc, sends, receiver, closing>>

Step(s) == SendLock(s) \/ SendLeft(s) \/ CloseSend(s) \/ CloseLock(s)

Next == \/ \E s \in Senders : Send(s) \/ Deliver(s) \/ Close(s) \/ Step(s)
        \/ Leave \/ ReceiveClosed \/ ParentEnds

Spec == Init /\ [][Next]_vars

\* Goroutines that can run do, and closedMu is starvation free.  Nobody has to
\* call Send, Close or leave, nor to read from the channel.
Fairness == \A s \in Senders : SF_vars(Step(s))

FairSpec == Spec /\ Fairness

\* A receiver that has not left reads.
ReceiverReads == (\A s \in Senders : SF_vars(Deliver(s))) /\ WF_vars(ReceiveClosed)

\* The sending goroutine does what it is told to do when its context ends: it closes.
StopsOnCancel == \A s \in Senders : SF_vars(ctx /\ Close(s))

-----------------------------------------------------------------------------
\* Nobody is in the select, about to send, when the channel is closed: a send on
\* a closed channel would panic, also one that has been waiting.
NoSendOnClosed == closed => \A s \in Senders : pc[s] # "select"

\* The sender and its mutex are consistent, and no send can panic.
ChannelIsSafe == TypeOK /\ NoSendOnClosed

\* Doc, scenario 3, and Close: once the receiver has left, or Close has been
\* called, no call of Send or Close stays blocked, also if nobody reads.
CallsReturn ==
  \A s \in Senders : pc[s] \in {"lock", "select", "closeSend", "closeLock"}
                       /\ (closing \/ receiver = "left") ~> pc[s] \in {"working", "stopped"}

\* A receiver that reads is not left waiting when the sending side has been told to
\* stop, and does.
ReceiverEnds == ReceiverReads /\ StopsOnCancel => (ctx ~> receiver # "receiving")

=============================================================================
