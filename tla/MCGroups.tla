------------------------------ MODULE MCGroups ------------------------------
(***************************************************************************)
(* What starts, waits and has to end, one at a time: the limiter, the      *)
(* eager group and the single sender. part says which one an execution is  *)
(* about, the variables of the others hold Off (those of Limiter an        *)
(* initial state).                                                         *)
(***************************************************************************)
EXTENDS Limiter

CONSTANTS Parts, Low, t1, t2, t3, t4, NoError, CtxError, Parent
VARIABLES part, cancelled, cause, err, sem, st, by, fails, main, late, parent, ctx, sendCtx,
          mu, closed, pcSender, sends, receiver, closing

Group == INSTANCE EagerGroup WITH Calls <- {t1, t2, t3}, Limit <- 2, Main <- Nobody
Tight == INSTANCE EagerGroup WITH Calls <- {t1, t2, t3}, Limit <- 1, Main <- Nobody
Sender == INSTANCE SingleSender WITH Senders <- {t1, t2}, MaxSends <- 2, pc <- pcSender

varsGroup == <<cancelled, cause, err, sem, st, by, fails, main, late>>
varsSender == <<parent, ctx, sendCtx, mu, closed, pcSender, sends, receiver, closing>>

Off == "off"   \* what a part that is not looked at holds
MCInit ==
    /\ part \in Parts
    /\ Init /\ (part # "limiter" => limit = Low)
    /\ IF part \in {"group", "tight"} THEN Group!Init
       ELSE cancelled = Off /\ cause = Off /\ err = Off /\ sem = Off /\ st = Off /\ by = Off
            /\ fails = Off /\ main = Off /\ late = Off
    /\ IF part = "sender" THEN Sender!Init
       ELSE parent = Off /\ ctx = Off /\ sendCtx = Off /\ mu = Off /\ closed = Off
            /\ pcSender = Off /\ sends = Off /\ receiver = Off /\ closing = Off

\* Calls of Go are interchangeable: they are named in the order in which they are made.
InOrder == (st'[t2] # "new" => st'[t1] # "new") /\ (st'[t3] # "new" => st'[t2] # "new")

MCNext ==
    \/ part = "limiter" /\ Next
       /\ UNCHANGED <<part, varsGroup, varsSender>>
    \/ part = "group" /\ Group!Next /\ InOrder
       /\ UNCHANGED <<part, vars, varsSender>>
    \/ part = "tight" /\ Tight!Next /\ InOrder
       /\ UNCHANGED <<part, vars, varsSender>>
    \/ part = "sender" /\ Sender!Next
       /\ UNCHANGED <<part, vars, varsGroup>>
all == <<part, vars, varsGroup, varsSender>>

MCPriority == [t \in {t1, t2, t3, t4} |-> IF t \in {t1, t2} THEN 1 ELSE 2]
Callers == {t1, t2, t3}

\* A step of one part.
Only(p, A) == /\ part = p /\ A /\ UNCHANGED part
              /\ IF p = "limiter" THEN TRUE ELSE UNCHANGED vars
              /\ IF p \in {"group", "tight"} THEN TRUE ELSE UNCHANGED varsGroup
              /\ IF p = "sender" THEN TRUE ELSE UNCHANGED varsSender

\* The fairness of the modules, one conjunct for several parts and for steps
\* of which a task can take one at a time (it has a step of Run, or waits for the ticker).
Own(t) == \/ Only("limiter", Run(t) \/ Ticker(t))
          \/ t \in Callers /\ (Only("group", Group!Group(t)) \/ Only("tight", Tight!Group(t)))
Again(t) == Only("limiter", Handoff(t)) \/ (t \in {t1, t2} /\ Only("sender", Sender!Step(t)))
GoesOn == \/ Only("group", Group!WaitReturns) \/ Only("tight", Tight!WaitReturns)
MCFairness == /\ \A t \in Tasks : /\ WF_all(Own(t)) /\ SF_all(Again(t))
              /\ WF_all(GoesOn)

MCSpec == MCInit /\ [][MCNext]_all /\ MCFairness

-----------------------------------------------------------------------------
InGroups == part \in {"group", "tight"}

\* Wait does not hide what happened, nothing starts late, and no slot of the group is lost.
GroupTellsWhatHappened ==
  InGroups => /\ Group!WaitTellsWhatHappened /\ Group!LateNotRun
              /\ (IF part = "tight" THEN Tight!RecordsExact ELSE Group!RecordsExact)

\* No send can panic on a closed channel, and a value is dropped only after the receiver
\* left or Close was called.
SendsAreSafe ==
  [][part = "sender" => /\ Sender!ChannelIsSafe'
                        /\ \A s \in {t1, t2} : Sender!SendLeft(s) => receiver = "left" \/ closing]_all

\* Who submits to the group, waits for it, sends or closes is not blocked for ever: a Go
\* that the limit blocks ends with the context; Wait returns when the functions do, unless
\* they hold every slot while they wait for one; Send and Close return once one side stopped.
\* Senders are interchangeable, what holds of t1 holds of both; calls of Go are few, and so
\* that some are blocked cannot last unless one of them is.
Blocked == CASE InGroups -> cancelled /\ \E c \in Callers : st[c] = "select"
             [] part = "sender" -> /\ pcSender[t1] \in {"lock", "select", "closeSend", "closeLock"}
                                   /\ closing \/ receiver = "left"
             [] OTHER -> FALSE
CallsReturn == Blocked ~> ~Blocked

FunctionsReturn ==
  \A t \in Callers : WF_all(\E e \in {t, NoError} : (Only("group", Group!Return(t, e)) \/ Only("tight", Tight!Return(t, e))))
Entangled == ~cancelled /\ (IF part = "group" THEN Group!SlotsEntangled ELSE Tight!SlotsEntangled)
WaitEnds == FunctionsReturn =>
              ((InGroups /\ main = "waiting") ~> (InGroups /\ (main = "returned" \/ Entangled)))

\* A receiver that reads sees the channel closed when the sending side has been told to
\* stop, and does.
ReceiverReads == /\ \A t \in {t1, t2} : /\ SF_all(Only("sender", Sender!Deliver(t)))
                                        /\ SF_all(Only("sender", ctx /\ Sender!Close(t)))
                 /\ WF_all(Only("sender", Sender!ReceiveClosed))
ReceiverEnds == ReceiverReads => ((part = "sender" /\ ctx) ~> (part = "sender" /\ receiver # "receiving"))
=============================================================================
