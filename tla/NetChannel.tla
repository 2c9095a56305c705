----------------------------- MODULE NetChannel ------------------------------
(***************************************************************************)
(* One direction of RLbsNetChannel, the channel between the LBS processes  *)
(* (network gateway, network request handler, AGPS manager, SUPL PSY):     *)
(* a byte-array property that carries the message and an integer property  *)
(* that is 1 from the moment a message is sent until it has been read.     *)
(* The two ends run in different processes, so every kernel call on a      *)
(* property is a step of its own.                                          *)
(*                                                                         *)
(* Messages are numbered in the order in which SendMessage accepts them.   *)
(***************************************************************************)
EXTENDS Integers, Sequences

CONSTANTS
    MaxSend,         \* bound: messages that are accepted
    MaxRefused,      \* bound: calls completed with KErrInUse
    ReceiverFirst,   \* the sender does not send before the receiver is open
    SenderCancels,   \* the sender may call CancelSendMessageNotification
    ReceiverReopens  \* the receiver may close its end and open it again

ASSUME ParametersAssumption ==
    /\ MaxSend \in Nat
    /\ MaxRefused \in Nat
    /\ {ReceiverFirst, SenderCancels, ReceiverReopens} \subseteq BOOLEAN

VARIABLES
    ack,         \* the acknowledge property: 1 while a message is unread
    data,        \* the message property (0: never written)
    ackSub,      \* message whose request status waits on ack (0: none)
    dataSub,     \* subscription of the receiver's monitor to data
    senderPc,    \* where the sender is within SendMessage
    receiverPc,  \* where the receiver's monitor is
    sent,        \* messages accepted
    buf,         \* message RunL copied
    delivered,   \* messages given to the observer, in order
    completed,   \* messages whose status was completed with KErrNone
    refused,     \* calls completed with KErrInUse
    calm         \* history: nothing was cancelled, closed or sent too early

sender == <<senderPc, sent, refused>>
receiver == <<receiverPc, buf, delivered>>
vars == <<ack, data, ackSub, dataSub, sender, receiver, completed, calm>>

Message == 1 .. MaxSend

SenderPc == {"idle", "raise", "subscribe", "publish", "unset"}
ReceiverPc ==
    {"closed", "opening", "waiting", "resubscribe", "notify", "acknowledge"}

-----------------------------------------------------------------------------
\* RProperty: a subscription completes at the next write, whatever the value.

SetAck(v) ==
    /\ ack' = v
    /\ ackSub' = 0
    /\ completed' = completed \union (IF ackSub = 0 THEN {} ELSE {ackSub})

SetData(m) ==
    /\ data' = m
    /\ dataSub' = IF dataSub = "pending" THEN "signalled" ELSE dataSub

-----------------------------------------------------------------------------
Init ==
    /\ ack = 0
    /\ data = 0
    /\ ackSub = 0
    /\ dataSub = "none"
    /\ senderPc = "idle"
    /\ receiverPc = "closed"
    /\ sent = 0
    /\ buf = 0
    /\ delivered = <<>>
    /\ completed = {}
    /\ refused = 0
    /\ calm = TRUE

-----------------------------------------------------------------------------
\* The sender: RLbsNetChannel::SendMessage, callable at any time.

MaySend == senderPc = "idle" /\ (ReceiverFirst => receiverPc \notin {"closed", "opening"})

SendRefused ==
    /\ MaySend
    /\ ack = 1
    /\ refused < MaxRefused
    /\ refused' = refused + 1
    /\ UNCHANGED <<calm, ack, data, ackSub, dataSub, senderPc, sent, receiver, completed>>

\* Mutant: the previous message is not checked for having been read.
SendAcceptedUnchecked ==
    /\ MaySend
    /\ sent < MaxSend
    /\ sent' = sent + 1
    /\ senderPc' = "raise"
    /\ calm' = IF receiverPc \in {"closed", "opening"} THEN FALSE ELSE calm
    /\ UNCHANGED <<ack, data, ackSub, dataSub, refused, receiver, completed>>

SendAccepted ==
    /\ MaySend
    /\ ack = 0
    /\ sent < MaxSend
    /\ sent' = sent + 1
    /\ senderPc' = "raise"
    /\ calm' = IF receiverPc \in {"closed", "opening"} THEN FALSE ELSE calm
    /\ UNCHANGED <<ack, data, ackSub, dataSub, refused, receiver, completed>>

SendRaiseAck ==
    /\ senderPc = "raise"
    /\ senderPc' = "subscribe"
    /\ SetAck(1)
    /\ UNCHANGED <<calm, data, dataSub, sent, refused, receiver>>

SendSubscribeAck ==
    /\ senderPc = "subscribe"
    /\ senderPc' = "publish"
    /\ ackSub' = sent
    /\ UNCHANGED <<calm, ack, data, dataSub, sent, refused, receiver, completed>>

SendPublish ==
    /\ senderPc = "publish"
    /\ senderPc' = "idle"
    /\ SetData(sent)
    /\ UNCHANGED <<calm, ack, ackSub, sent, refused, receiver, completed>>

\* CancelSendMessageNotification: the subscription completes with KErrCancel,
\* then the flag is lowered although the message may still be unread.
CancelSubscription ==
    /\ SenderCancels
    /\ senderPc = "idle"
    /\ ackSub # 0
    /\ senderPc' = "unset"
    /\ ackSub' = 0
    /\ calm' = FALSE
    /\ UNCHANGED <<ack, data, dataSub, sent, refused, receiver, completed>>

CancelLowerAck ==
    /\ senderPc = "unset"
    /\ senderPc' = "idle"
    /\ SetAck(0)
    /\ UNCHANGED <<calm, data, dataSub, sent, refused, receiver>>

-----------------------------------------------------------------------------
\* The receiver: CNetChannelMonitor, an active object.

OpenSubscribe ==
    /\ receiverPc = "closed"
    /\ receiverPc' = "opening"
    /\ dataSub' = "pending"
    /\ UNCHANGED <<calm, ack, data, ackSub, sender, buf, delivered, completed>>

\* Mutant: the monitor does not flag that it is ready.
OpenReadySilent ==
    /\ receiverPc = "opening"
    /\ receiverPc' = "waiting"
    /\ UNCHANGED <<calm, ack, data, ackSub, dataSub, sender, buf, delivered, completed>>

OpenReady ==
    /\ receiverPc = "opening"
    /\ receiverPc' = "waiting"
    /\ SetAck(0)
    /\ UNCHANGED <<calm, data, dataSub, sender, buf, delivered>>

\* Mutant: RunL does not wait for its subscription.
RunLGetUnsignalled ==
    /\ receiverPc = "waiting"
    /\ receiverPc' = "resubscribe"
    /\ buf' = data
    /\ dataSub' = "none"
    /\ UNCHANGED <<calm, ack, data, ackSub, sender, delivered, completed>>

\* Mutant: the message is flagged as read when it is copied.
RunLGetAcknowledges ==
    /\ receiverPc = "waiting"
    /\ dataSub = "signalled"
    /\ receiverPc' = "resubscribe"
    /\ buf' = data
    /\ dataSub' = "none"
    /\ SetAck(0)
    /\ UNCHANGED <<calm, data, sender, delivered>>

RunLGet ==
    /\ receiverPc = "waiting"
    /\ dataSub = "signalled"
    /\ receiverPc' = "resubscribe"
    /\ buf' = data
    /\ dataSub' = "none"
    /\ UNCHANGED <<calm, ack, data, ackSub, sender, delivered, completed>>

\* Mutant: no subscription for further messages.
RunLForgetsToResubscribe ==
    /\ receiverPc = "resubscribe"
    /\ receiverPc' = "notify"
    /\ UNCHANGED <<calm, ack, data, ackSub, dataSub, sender, buf, delivered, completed>>

RunLResubscribe ==
    /\ receiverPc = "resubscribe"
    /\ receiverPc' = "notify"
    /\ dataSub' = "pending"
    /\ UNCHANGED <<calm, ack, data, ackSub, sender, buf, delivered, completed>>

RunLNotify ==
    /\ receiverPc = "notify"
    /\ receiverPc' = "acknowledge"
    /\ delivered' = Append(delivered, buf)
    /\ UNCHANGED <<calm, ack, data, ackSub, dataSub, sender, buf, completed>>

RunLAcknowledge ==
    /\ receiverPc = "acknowledge"
    /\ receiverPc' = "waiting"
    /\ SetAck(0)
    /\ UNCHANGED <<calm, data, dataSub, sender, buf, delivered>>

\* Close deletes the monitor; its destructor cancels the subscription.
CloseMonitor ==
    /\ ReceiverReopens
    /\ receiverPc = "waiting"
    /\ receiverPc' = "closed"
    /\ dataSub' = "none"
    /\ calm' = FALSE
    /\ UNCHANGED <<ack, data, ackSub, sender, buf, delivered, completed>>

-----------------------------------------------------------------------------
SenderStep ==
    SendRaiseAck \/ SendSubscribeAck \/ SendPublish \/ CancelLowerAck

\* What the receiver's thread still owes: the rest of an Open that was begun,
\* and RunL of a monitor that was signalled.
ReceiverOwes ==
    OpenReady \/ RunLGet \/ RunLResubscribe \/ RunLNotify \/ RunLAcknowledge

ReceiverStep == OpenSubscribe \/ ReceiverOwes

Next ==
    \/ SendRefused \/ SendAccepted \/ CancelSubscription
    \/ SenderStep
    \/ ReceiverStep
    \/ CloseMonitor

Spec == Init /\ [][Next]_vars

\* The kernel schedules both threads: a call that was begun returns and a
\* signalled monitor runs.  Nothing makes a closed receiver open.
FairSpec == Spec /\ WF_vars(SenderStep) /\ WF_vars(ReceiverOwes)

-----------------------------------------------------------------------------
(***************************************************************************)
(* Properties.  While the channel is calm (both ends stay open, the        *)
(* receiver was up before the first message and nothing was cancelled) it  *)
(* keeps its promise; after that it only keeps the order.                  *)
(***************************************************************************)

\* Every variable has its type.
TypeOK ==
    /\ ack \in {0, 1}
    /\ data \in 0 .. MaxSend
    /\ ackSub \in 0 .. MaxSend
    /\ dataSub \in {"none", "pending", "signalled"}
    /\ senderPc \in SenderPc
    /\ receiverPc \in ReceiverPc
    /\ sent \in 0 .. MaxSend
    /\ buf \in 0 .. MaxSend
    /\ delivered \in Seq(Message)
    /\ completed \subseteq Message
    /\ refused \in 0 .. MaxRefused
    /\ calm \in BOOLEAN

\* The observer sees exactly the accepted messages, in order and once each:
\* nothing is lost by overwriting the property and nothing is read twice.
DeliveredInOrder ==
    calm => /\ Len(delivered) <= sent
            /\ delivered = [i \in 1 .. Len(delivered) |-> i]

\* lbsnetinternalapi.cpp:148 - the send "only completes when the message has
\* been read".  The header states it without a condition.
SendOnlyCompletesWhenRead ==
    completed \subseteq {delivered[i] : i \in 1 .. Len(delivered)}

\* It is so while the channel is calm.
CompletedMeansRead == calm => SendOnlyCompletesWhenRead

\* A message is put into the property only when every earlier one was read
\* and its request completed.
PublishAfterCompletion ==
    [][calm /\ data' # data =>
          /\ Len(delivered) = sent - 1
          /\ completed = 1 .. (sent - 1)]_vars

\* Under cancellation and re-opening messages can be lost, but what the
\* observer sees is never repeated and never out of order.
NeverRepeatedNorReordered ==
    \A i, j \in 1 .. Len(delivered) : i < j => delivered[i] < delivered[j]

\* A pending send ends, whichever message was lost, unless the receiver is
\* closed for good: only then does the blocking User::WaitForRequest of the
\* SUPL PSY's CancelLocationRequest hang.
SendEnds == []<>(ackSub = 0) \/ <>[](receiverPc = "closed")

\* An accepted message is read and its request completed, unless the channel
\* is disturbed first.
AcceptedIsCompleted ==
    \A m \in Message : (sent >= m) ~> (m \in completed \/ ~calm)

-----------------------------------------------------------------------------
(***************************************************************************)
(* The channel implements the mailbox, which loses messages only after it  *)
(* was disturbed.                                                          *)
(***************************************************************************)
LastRead == IF Len(delivered) = 0 THEN 0 ELSE delivered[Len(delivered)]

Promise == INSTANCE Mailbox WITH
    accepted <- sent, read <- LastRead, lossy <- ~calm

ImplementsMailbox == Promise!Spec
=============================================================================
