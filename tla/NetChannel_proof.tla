--------------------------- MODULE NetChannel_proof --------------------------
(***************************************************************************)
(* Theorems about the net channel, for every number of messages and calls. *)
(***************************************************************************)
EXTENDS NetChannel, TLAPS

USE DEF Message

-----------------------------------------------------------------------------
(***************************************************************************)
(* Every mode of use.  What is on its way to the observer is newer than    *)
(* all the observer has seen: the property while a subscription is         *)
(* signalled, the monitor's copy until it is given to the observer.        *)
(***************************************************************************)
SeenBefore(m) == \A i \in 1 .. Len(delivered) : delivered[i] < m

NewestLast ==
    /\ data <= sent /\ ackSub <= sent
    /\ senderPc \in {"raise", "subscribe", "publish"} => data < sent
    /\ \A i \in 1 .. Len(delivered) : delivered[i] <= data
    /\ dataSub = "signalled" => data \in Message /\ SeenBefore(data)
    /\ receiverPc \in {"resubscribe", "notify"} =>
          /\ buf \in Message /\ buf <= data /\ SeenBefore(buf)
          /\ dataSub = "signalled" => buf < data

OrderInv == TypeOK /\ NewestLast /\ NeverRepeatedNorReordered

\* A write of the acknowledge property keeps the types.
LEMMA SetAckType ==
    ASSUME TypeOK, NEW v \in {0, 1}, SetAck(v)
    PROVE  ack' \in {0, 1} /\ ackSub' \in 0 .. MaxSend /\ completed' \subseteq Message
<1>1. ackSub = 0 \/ ackSub \in Message
  BY ParametersAssumption DEF TypeOK
<1> QED
  BY <1>1, ParametersAssumption DEF TypeOK, SetAck

\* and never leaves a status waiting for a message that was not sent.
LEMMA SetAckSub == ASSUME NEW v, SetAck(v) PROVE ackSub' = 0
BY DEF SetAck

\* The initial state satisfies the invariant.
LEMMA OrderInit == Init => OrderInv
  BY ParametersAssumption
     DEF Init, OrderInv, TypeOK, SenderPc, ReceiverPc, NewestLast, SeenBefore,
         NeverRepeatedNorReordered

\* Giving the copied message to the observer extends the sequence by a message
\* newer than all before it.
LEMMA OrderNotify == OrderInv /\ RunLNotify => OrderInv'
<1> SUFFICES ASSUME OrderInv, RunLNotify
             PROVE  OrderInv'
  OBVIOUS
<1> USE ParametersAssumption DEF OrderInv
<1>1. /\ delivered \in Seq(Message)
      /\ buf \in Message
      /\ buf <= data
      /\ SeenBefore(buf)
      /\ dataSub = "signalled" => buf < data
  BY DEF TypeOK, NewestLast, RunLNotify
<1>2. /\ delivered' = Append(delivered, buf)
      /\ Len(delivered') = Len(delivered) + 1
      /\ delivered' \in Seq(Message)
      /\ delivered'[Len(delivered) + 1] = buf
      /\ \A i \in 1 .. Len(delivered) : delivered'[i] = delivered[i]
  BY <1>1 DEF RunLNotify
<1>3. TypeOK'
  BY <1>2 DEF TypeOK, RunLNotify, sender, ReceiverPc
<1>4. \A i \in 1 .. Len(delivered') :
          \/ i = Len(delivered) + 1 /\ delivered'[i] = buf
          \/ i \in 1 .. Len(delivered) /\ delivered'[i] = delivered[i]
  <2>1. Len(delivered) \in Nat
    BY <1>1
  <2> QED
    BY <1>2, <2>1
<1>5. \A i \in 1 .. Len(delivered) : delivered[i] \in Message
  BY <1>1
<1>6. NewestLast'
  <2>1. (\A i \in 1 .. Len(delivered) : delivered[i] <= data)'
    BY <1>1, <1>4 DEF NewestLast, RunLNotify
  <2>2. dataSub = "signalled" => SeenBefore(data)'
    BY <1>1, <1>4 DEF NewestLast, SeenBefore, RunLNotify
  <2> QED
    BY <2>1, <2>2 DEF NewestLast, RunLNotify, sender
<1>7. NeverRepeatedNorReordered'
  <2> SUFFICES ASSUME NEW i \in 1 .. Len(delivered'), NEW j \in 1 .. Len(delivered'), i < j
               PROVE  delivered'[i] < delivered'[j]
    BY DEF NeverRepeatedNorReordered
  <2>1. Len(delivered) \in Nat
    BY <1>1
  <2>2. i \in 1 .. Len(delivered) /\ delivered'[i] = delivered[i]
    BY <1>2, <1>4, <2>1
  <2>3. CASE j = Len(delivered) + 1
    BY <1>1, <1>2, <2>2, <2>3 DEF SeenBefore
  <2>4. CASE j # Len(delivered) + 1
    BY <1>4, <2>2, <2>4 DEF NeverRepeatedNorReordered
  <2> QED
    BY <2>3, <2>4
<1> QED
  BY <1>3, <1>6, <1>7

\* No other step changes what was delivered.
LEMMA OrderOther == OrderInv /\ [Next]_vars /\ ~RunLNotify => OrderInv'
<1> SUFFICES ASSUME OrderInv, [Next]_vars, ~RunLNotify
             PROVE  OrderInv'
  OBVIOUS
<1> USE ParametersAssumption DEF OrderInv, SenderPc, ReceiverPc
<1>0. /\ sent \in 0 .. MaxSend /\ data \in 0 .. MaxSend /\ buf \in 0 .. MaxSend
      /\ \A i \in 1 .. Len(delivered) : delivered[i] \in Message
  BY DEF TypeOK
<1>1. delivered' = delivered
  BY DEF Next, SendRefused, SendAccepted, CancelSubscription, SenderStep,
         SendRaiseAck, SendSubscribeAck, SendPublish, CancelLowerAck,
         ReceiverStep, ReceiverOwes, OpenSubscribe, OpenReady, RunLGet, RunLResubscribe,
         RunLAcknowledge, CloseMonitor, vars, receiver
<1>2. NeverRepeatedNorReordered'
  BY <1>1 DEF NeverRepeatedNorReordered
<1>3. TypeOK' /\ NewestLast'
  <2>1. CASE SendRefused
    BY <1>1, <2>1 DEF SendRefused, receiver, TypeOK, NewestLast, SeenBefore
  <2>2. CASE SendAccepted
    <3>1. calm' \in BOOLEAN
      BY <2>2 DEF SendAccepted, TypeOK
    <3>2. /\ sent' = sent + 1 /\ sent < MaxSend /\ senderPc' = "raise"
          /\ UNCHANGED <<ack, data, ackSub, dataSub, refused, receiverPc, buf, completed>>
      BY <2>2 DEF SendAccepted, receiver
    <3>3. TypeOK'
      BY <1>0, <1>1, <3>1, <3>2 DEF TypeOK
    <3>4. NewestLast'
      BY <1>0, <1>1, <3>2 DEF TypeOK, NewestLast, SeenBefore
    <3> QED
      BY <3>3, <3>4
  <2>3. CASE SendRaiseAck
    BY <1>1, <2>3, SetAckType, SetAckSub DEF SendRaiseAck, receiver, TypeOK, NewestLast, SeenBefore
  <2>4. CASE SendSubscribeAck
    BY <1>1, <2>4 DEF SendSubscribeAck, receiver, TypeOK, NewestLast, SeenBefore
  <2>5. CASE SendPublish
    <3>1. data' = sent /\ sent' = sent /\ data < sent /\ sent \in Message
      BY <1>0, <2>5 DEF SendPublish, SetData, NewestLast
    <3>2. TypeOK'
      BY <1>1, <2>5 DEF SendPublish, SetData, receiver, TypeOK
    <3>3. \A i \in 1 .. Len(delivered) : delivered[i] < data'
      BY <1>0, <3>1 DEF NewestLast
    <3> QED
      BY <1>0, <1>1, <2>5, <3>1, <3>2, <3>3
         DEF SendPublish, SetData, receiver, NewestLast, SeenBefore
  <2>6. CASE CancelSubscription
    <3>1. TypeOK'
      <4>1. calm' \in BOOLEAN
        BY <2>6 DEF CancelSubscription
      <4>2. /\ senderPc' = "unset" /\ ackSub' = 0
            /\ UNCHANGED <<ack, data, dataSub, sent, refused, receiverPc, buf, completed>>
        BY <2>6 DEF CancelSubscription, receiver
      <4> QED
        BY <1>0, <1>1, <4>1, <4>2 DEF TypeOK
    <3>2. NewestLast'
      BY <1>0, <1>1, <2>6 DEF CancelSubscription, receiver, NewestLast, SeenBefore
    <3> QED
      BY <3>1, <3>2
  <2>7. CASE CancelLowerAck
    BY <1>1, <2>7, SetAckType, SetAckSub DEF CancelLowerAck, receiver, TypeOK, NewestLast, SeenBefore
  <2>8. CASE OpenSubscribe
    BY <1>1, <2>8 DEF OpenSubscribe, sender, TypeOK, NewestLast, SeenBefore
  <2>9. CASE OpenReady
    BY <1>1, <2>9, SetAckType, SetAckSub DEF OpenReady, sender, TypeOK, NewestLast, SeenBefore
  <2>10. CASE RunLGet
    BY <1>0, <1>1, <2>10 DEF RunLGet, sender, TypeOK, NewestLast, SeenBefore
  <2>11. CASE RunLResubscribe
    BY <1>1, <2>11 DEF RunLResubscribe, sender, TypeOK, NewestLast, SeenBefore
  <2>12. CASE RunLAcknowledge
    BY <1>1, <2>12, SetAckType, SetAckSub DEF RunLAcknowledge, sender, TypeOK, NewestLast, SeenBefore
  <2>13. CASE CloseMonitor
    BY <1>1, <2>13 DEF CloseMonitor, sender, TypeOK, NewestLast, SeenBefore
  <2>14. CASE UNCHANGED vars
    BY <1>1, <2>14 DEF vars, sender, receiver, TypeOK, NewestLast, SeenBefore
  <2> QED
    BY <2>1, <2>2, <2>3, <2>4, <2>5, <2>6, <2>7, <2>8, <2>9, <2>10, <2>11,
       <2>12, <2>13, <2>14 DEF Next, SenderStep, ReceiverStep, ReceiverOwes
<1> QED
  BY <1>2, <1>3

LEMMA OrderInvariant == Spec => []OrderInv
<1>1. OrderInv /\ [Next]_vars => OrderInv'
  BY OrderNotify, OrderOther
<1> QED
  BY <1>1, OrderInit, PTL DEF Spec

\* Every variable keeps its type, in every mode of use.
THEOREM TypeCorrect == Spec => []TypeOK
<1>1. OrderInv => TypeOK
  BY DEF OrderInv
<1> QED
  BY <1>1, OrderInvariant, PTL

\* Whatever is cancelled, re-opened or sent too early, the observer is never
\* given a message twice or after a later one.
THEOREM NeverRepeated == Spec => []NeverRepeatedNorReordered
<1>1. OrderInv => NeverRepeatedNorReordered
  BY DEF OrderInv
<1> QED
  BY <1>1, OrderInvariant, PTL

-----------------------------------------------------------------------------
(***************************************************************************)
(* The handshake.  While the channel is calm the two ends take turns, and  *)
(* the channel is in one of four phases.                                   *)
(***************************************************************************)
NotOpen ==
    /\ receiverPc \in {"closed", "opening"}
    /\ dataSub = IF receiverPc = "closed" THEN "none" ELSE "pending"
    /\ senderPc = "idle"
    /\ ack = 0 /\ ackSub = 0 /\ sent = 0
    /\ Len(delivered) = 0 /\ completed = {}

AllRead ==
    /\ receiverPc = "waiting" /\ dataSub = "pending"
    /\ senderPc = "idle"
    /\ ack = 0 /\ ackSub = 0
    /\ Len(delivered) = sent /\ completed = 1 .. sent

BeingSent ==
    /\ receiverPc = "waiting" /\ dataSub = "pending"
    /\ senderPc \in {"raise", "subscribe", "publish"}
    /\ ack = IF senderPc = "raise" THEN 0 ELSE 1
    /\ ackSub = IF senderPc = "publish" THEN sent ELSE 0
    /\ sent > 0
    /\ Len(delivered) = sent - 1 /\ completed = 1 .. (sent - 1)

BeingRead ==
    /\ receiverPc \in {"waiting", "resubscribe", "notify", "acknowledge"}
    /\ dataSub = CASE receiverPc = "waiting" -> "signalled"
                   [] receiverPc = "resubscribe" -> "none"
                   [] OTHER -> "pending"
    /\ receiverPc \in {"resubscribe", "notify"} => buf = sent
    /\ senderPc = "idle"
    /\ ack = 1 /\ ackSub = sent /\ data = sent
    /\ sent > 0
    /\ Len(delivered) = IF receiverPc = "acknowledge" THEN sent ELSE sent - 1
    /\ completed = 1 .. (sent - 1)

InOrder == \A i \in 1 .. Len(delivered) : delivered[i] = i

HandshakeInv == InOrder /\ (NotOpen \/ AllRead \/ BeingSent \/ BeingRead)

\* The initial state is the phase in which the receiver is not open.
LEMMA HandshakeInit == Init => HandshakeInv
BY DEF Init, HandshakeInv, NotOpen, InOrder

\* The observer is given the message the sender sent last.
LEMMA HandshakeNotify ==
    ASSUME TypeOK, HandshakeInv, RunLNotify
    PROVE  HandshakeInv'
<1>1. BeingRead /\ buf = sent /\ Len(delivered) = sent - 1 /\ delivered \in Seq(Message)
  BY DEF HandshakeInv, NotOpen, AllRead, BeingSent, BeingRead, RunLNotify, TypeOK
<1>2. /\ Len(delivered') = sent
      /\ delivered'[sent] = sent
      /\ \A i \in 1 .. (sent - 1) : delivered'[i] = delivered[i]
  <2>1. sent \in Message
    BY <1>1 DEF BeingRead, TypeOK
  <2> QED
    BY <1>1, <2>1 DEF RunLNotify
<1>3. InOrder'
  <2>1. \A i \in 1 .. sent : i = sent \/ i \in 1 .. (sent - 1)
    BY DEF TypeOK
  <2> QED
    BY <1>1, <1>2, <2>1 DEF InOrder, HandshakeInv
<1>4. BeingRead'
  BY <1>1, <1>2 DEF BeingRead, RunLNotify, sender
<1> QED
  BY <1>3, <1>4 DEF HandshakeInv

\* Accepting a message before the receiver is open disturbs the channel.
LEMMA AcceptedInTime ==
    ASSUME SendAccepted, calm' PROVE calm /\ receiverPc \notin {"closed", "opening"}
BY DEF SendAccepted

\* Every step that leaves the channel calm leads from a phase to the same or
\* the next phase.
LEMMA HandshakeOther ==
    ASSUME TypeOK, HandshakeInv, [Next]_vars, ~RunLNotify, calm'
    PROVE  HandshakeInv'
<1> USE DEF HandshakeInv
<1>0. sent \in 0 .. MaxSend /\ MaxSend \in Nat
  BY ParametersAssumption DEF TypeOK
<1>1. delivered' = delivered /\ InOrder'
  BY DEF Next, SendRefused, SendAccepted, CancelSubscription, SenderStep,
         SendRaiseAck, SendSubscribeAck, SendPublish, CancelLowerAck,
         ReceiverStep, ReceiverOwes, OpenSubscribe, OpenReady, RunLGet, RunLResubscribe,
         RunLAcknowledge, CloseMonitor, vars, receiver, InOrder
<1>2. CASE SendRefused
  <2>1. BeingRead
    BY <1>2 DEF SendRefused, NotOpen, AllRead, BeingSent, MaySend
  <2>2. BeingRead'
    BY <1>1, <1>2, <2>1 DEF SendRefused, receiver, BeingRead
  <2> QED
    BY <1>1, <2>2
<1>3. CASE SendAccepted
  <2>1. AllRead
    <3>1. receiverPc \notin {"closed", "opening"} /\ ack = 0 /\ senderPc = "idle"
      BY <1>3, AcceptedInTime DEF SendAccepted, MaySend
    <3> QED
      BY <3>1 DEF NotOpen, BeingSent, BeingRead
  <2>2. BeingSent'
    BY <1>0, <1>1, <1>3, <2>1 DEF SendAccepted, receiver, AllRead, BeingSent
  <2> QED
    BY <1>1, <2>2
<1>4. CASE SendRaiseAck
  <2>1. BeingSent
    BY <1>4 DEF SendRaiseAck, NotOpen, AllRead, BeingRead
  <2>2. BeingSent'
    BY <1>1, <1>4, <2>1 DEF SendRaiseAck, SetAck, receiver, BeingSent
  <2> QED
    BY <1>1, <2>2
<1>5. CASE SendSubscribeAck
  <2>1. BeingSent
    BY <1>5 DEF SendSubscribeAck, NotOpen, AllRead, BeingRead
  <2>2. BeingSent'
    BY <1>1, <1>5, <2>1 DEF SendSubscribeAck, receiver, BeingSent
  <2> QED
    BY <1>1, <2>2
<1>6. CASE SendPublish
  <2>1. BeingSent
    BY <1>6 DEF SendPublish, NotOpen, AllRead, BeingRead
  <2>2. BeingRead'
    BY <1>1, <1>6, <2>1 DEF SendPublish, SetData, receiver, BeingSent, BeingRead
  <2> QED
    BY <1>1, <2>2
<1>7. CASE OpenSubscribe
  <2>1. NotOpen
    BY <1>7 DEF OpenSubscribe, AllRead, BeingSent, BeingRead
  <2>2. NotOpen'
    BY <1>1, <1>7, <2>1 DEF OpenSubscribe, sender, NotOpen
  <2> QED
    BY <1>1, <2>2
<1>8. CASE OpenReady
  <2>1. NotOpen
    BY <1>8 DEF OpenReady, AllRead, BeingSent, BeingRead
  <2>2. AllRead'
    BY <1>1, <1>8, <2>1 DEF OpenReady, SetAck, sender, NotOpen, AllRead
  <2> QED
    BY <1>1, <2>2
<1>9. CASE RunLGet
  <2>1. BeingRead
    BY <1>9 DEF RunLGet, NotOpen, AllRead, BeingSent
  <2>2. BeingRead'
    BY <1>1, <1>9, <2>1 DEF RunLGet, sender, BeingRead
  <2> QED
    BY <1>1, <2>2
<1>10. CASE RunLResubscribe
  <2>1. BeingRead
    BY <1>10 DEF RunLResubscribe, NotOpen, AllRead, BeingSent
  <2>2. BeingRead'
    BY <1>1, <1>10, <2>1 DEF RunLResubscribe, sender, BeingRead
  <2> QED
    BY <1>1, <2>2
<1>11. CASE RunLAcknowledge
  <2>1. BeingRead
    BY <1>11 DEF RunLAcknowledge, NotOpen, AllRead, BeingSent
  <2>2. completed' = 1 .. sent
    BY <1>0, <1>11, <2>1 DEF RunLAcknowledge, SetAck, BeingRead
  <2>3. AllRead'
    BY <1>1, <1>11, <2>1, <2>2 DEF RunLAcknowledge, SetAck, sender, BeingRead, AllRead
  <2> QED
    BY <1>1, <2>3
<1>12. CASE CancelSubscription \/ CloseMonitor
  BY <1>12 DEF CancelSubscription, CloseMonitor
<1>13. CASE CancelLowerAck
  BY <1>13 DEF CancelLowerAck, NotOpen, AllRead, BeingSent, BeingRead
<1>14. CASE UNCHANGED vars
  BY <1>1, <1>14 DEF vars, sender, receiver, NotOpen, AllRead, BeingSent, BeingRead
<1> QED
  BY <1>2, <1>3, <1>4, <1>5, <1>6, <1>7, <1>8, <1>9, <1>10, <1>11, <1>12,
     <1>13, <1>14 DEF Next, SenderStep, ReceiverStep, ReceiverOwes

\* A channel that was disturbed does not become calm again.
LEMMA CalmBefore == ASSUME TypeOK, [Next]_vars, calm' PROVE calm
BY DEF Next, SendRefused, SendAccepted, CancelSubscription, SenderStep,
       SendRaiseAck, SendSubscribeAck, SendPublish, CancelLowerAck,
       ReceiverStep, ReceiverOwes, OpenSubscribe, OpenReady, RunLGet, RunLResubscribe,
       RunLNotify, RunLAcknowledge, CloseMonitor, vars, TypeOK

CalmInv == calm => HandshakeInv

LEMMA CalmInvariant == Spec => [](OrderInv /\ CalmInv)
<1>1. OrderInv /\ CalmInv /\ [Next]_vars => CalmInv'
  BY CalmBefore, HandshakeNotify, HandshakeOther DEF CalmInv, OrderInv
<1>2. Init => CalmInv
  BY HandshakeInit DEF CalmInv
<1> QED
  BY <1>1, <1>2, OrderInvariant, PTL DEF Spec

\* On a calm channel no message is lost, repeated or reordered.
THEOREM FifoExactlyOnce == Spec => []DeliveredInOrder
<1>1. OrderInv /\ CalmInv => DeliveredInOrder
  <2> SUFFICES ASSUME TypeOK, HandshakeInv, calm
               PROVE  DeliveredInOrder
    BY DEF CalmInv, DeliveredInOrder, OrderInv
  <2>1. Len(delivered) \in Nat /\ delivered = [i \in 1 .. Len(delivered) |-> delivered[i]]
    BY DEF TypeOK
  <2>2. delivered = [i \in 1 .. Len(delivered) |-> i]
    BY <2>1 DEF HandshakeInv, InOrder
  <2>3. Len(delivered) <= sent
    BY DEF TypeOK, HandshakeInv, NotOpen, AllRead, BeingSent, BeingRead
  <2> QED
    BY <2>2, <2>3 DEF DeliveredInOrder
<1> QED
  BY <1>1, CalmInvariant, PTL

\* On a calm channel a send completes only when its message was read: the
\* documented contract of SendMessage.
THEOREM CompletionMeansRead == Spec => []CompletedMeansRead
<1>1. OrderInv /\ CalmInv => CompletedMeansRead
  <2> SUFFICES ASSUME TypeOK, HandshakeInv, NEW m \in completed
               PROVE  \E i \in 1 .. Len(delivered) : m = delivered[i]
    BY DEF CompletedMeansRead, SendOnlyCompletesWhenRead, CalmInv, OrderInv
  <2>1. m \in 1 .. Len(delivered)
    BY DEF TypeOK, HandshakeInv, NotOpen, AllRead, BeingSent, BeingRead
  <2> QED
    BY <2>1 DEF HandshakeInv, InOrder
<1> QED
  BY <1>1, CalmInvariant, PTL

\* On a calm channel a message is written over the previous one only after
\* that one was read and its sender told.
THEOREM NoOverwrite == Spec => PublishAfterCompletion
<1>1. ASSUME TypeOK, HandshakeInv, [Next]_vars, data' # data
      PROVE  Len(delivered) = sent - 1 /\ completed = 1 .. (sent - 1)
  <2>1. SendPublish
    BY <1>1 DEF Next, SendRefused, SendAccepted, CancelSubscription, SenderStep,
         SendRaiseAck, SendSubscribeAck, SendPublish, CancelLowerAck,
         ReceiverStep, ReceiverOwes, OpenSubscribe, OpenReady, RunLGet, RunLResubscribe,
         RunLNotify, RunLAcknowledge, CloseMonitor, vars
  <2> QED
    BY <1>1, <2>1 DEF SendPublish, HandshakeInv, NotOpen, AllRead, BeingSent, BeingRead
<1>2. OrderInv /\ CalmInv /\ [Next]_vars =>
          [calm /\ data' # data =>
              Len(delivered) = sent - 1 /\ completed = 1 .. (sent - 1)]_vars
  BY <1>1 DEF CalmInv, OrderInv
<1> QED
  BY <1>2, CalmInvariant, PTL DEF Spec, PublishAfterCompletion

-----------------------------------------------------------------------------
(***************************************************************************)
(* The refinement, calm or not.                                            *)
(***************************************************************************)

\* On a calm channel the last message read is the number of messages read.
LEMMA CalmLastRead ==
    ASSUME TypeOK, HandshakeInv PROVE LastRead = Len(delivered)
<1>1. Len(delivered) \in Nat
  BY DEF TypeOK
<1> QED
  BY <1>1 DEF LastRead, HandshakeInv, InOrder

\* What SetAck does to the mailbox: nothing, or one completed request.
LEMMA SetAckCompletes ==
    ASSUME OrderInv, NEW v \in {0, 1}, SetAck(v)
    PROVE  \/ completed' = completed
           \/ ackSub \in 1 .. sent /\ completed' = completed \union {ackSub}
BY ParametersAssumption DEF SetAck, OrderInv, TypeOK, NewestLast

\* Every step of the channel is a step of the mailbox or leaves it alone.
LEMMA MailboxStep ==
    ASSUME OrderInv, CalmInv, [Next]_vars
    PROVE  [Promise!Next]_(Promise!mvars)
<1> USE DEF OrderInv, Promise!Next, Promise!mvars
<1>0. /\ sent \in 0 .. MaxSend /\ MaxSend \in Nat
      /\ delivered \in Seq(Message) /\ Len(delivered) \in Nat
      /\ calm \in BOOLEAN
  BY ParametersAssumption DEF TypeOK
<1>1. CASE SendRefused
  <2>1. calm => completed # 1 .. sent
    <3>1. SUFFICES ASSUME calm PROVE completed # 1 .. sent
      OBVIOUS
    <3>2. BeingRead
      BY <1>1, <3>1 DEF CalmInv, HandshakeInv, SendRefused, NotOpen, AllRead, BeingSent, MaySend
    <3> QED
      BY <1>0, <3>2 DEF BeingRead
  <2> QED
    BY <1>1, <2>1 DEF SendRefused, receiver, LastRead, Promise!Refuse, Promise!Idle
<1>2. CASE SendAccepted
  <2>1. ASSUME calm' PROVE calm /\ completed = 1 .. sent
    <3>1. HandshakeInv /\ receiverPc \notin {"closed", "opening"}
      BY <1>2, <2>1, AcceptedInTime DEF CalmInv
    <3>2. AllRead
      BY <1>2, <3>1 DEF HandshakeInv, SendAccepted, NotOpen, BeingSent, BeingRead, MaySend
    <3> QED
      BY <1>2, <2>1, <3>2, AcceptedInTime DEF AllRead
  <2>2. calm' \in BOOLEAN
    BY <1>0, <1>2 DEF SendAccepted
  <2> QED
    BY <1>2, <2>1, <2>2 DEF SendAccepted, receiver, LastRead, Promise!Accept, Promise!Idle
<1>3. CASE RunLNotify
  <2>1. /\ buf \in 1 .. sent
        /\ \A i \in 1 .. Len(delivered) : delivered[i] < buf
    BY <1>0, <1>3 DEF RunLNotify, TypeOK, NewestLast, SeenBefore
  <2>2. /\ Len(delivered') = Len(delivered) + 1
        /\ delivered'[Len(delivered) + 1] = buf
    BY <1>0, <1>3, <2>1 DEF RunLNotify
  <2>3. LastRead' = buf
    BY <1>0, <2>2 DEF LastRead
  <2>4. LastRead \in Nat /\ LastRead < buf
    BY <1>0, <2>1 DEF LastRead
  <2>5. calm => buf = LastRead + 1
    <3>1. SUFFICES ASSUME calm PROVE buf = LastRead + 1
      OBVIOUS
    <3>2. HandshakeInv
      BY <3>1 DEF CalmInv
    <3>3. BeingRead /\ buf = sent /\ Len(delivered) = sent - 1
      BY <1>3, <3>2 DEF HandshakeInv, RunLNotify, NotOpen, AllRead, BeingSent, BeingRead
    <3> QED
      BY <1>0, <3>2, <3>3, CalmLastRead
  <2>6. buf \in LastRead + 1 .. sent
    BY <1>0, <2>1, <2>4
  <2> QED
    BY <1>3, <2>3, <2>5, <2>6 DEF RunLNotify, sender, Promise!Read
<1>4. CASE RunLAcknowledge
  <2>1. ASSUME calm
        PROVE  /\ ackSub = LastRead /\ ackSub = sent
               /\ completed = 1 .. (ackSub - 1)
    <3>1. HandshakeInv
      BY <2>1 DEF CalmInv
    <3>2. BeingRead
      BY <1>4, <3>1 DEF HandshakeInv, RunLAcknowledge, NotOpen, AllRead, BeingSent
    <3> QED
      BY <1>0, <1>4, <3>1, <3>2, CalmLastRead DEF RunLAcknowledge, BeingRead
  <2>2. \/ completed' = completed
        \/ ackSub \in 1 .. sent /\ completed' = completed \union {ackSub}
    BY <1>4, SetAckCompletes DEF RunLAcknowledge
  <2> QED
    BY <1>4, <2>1, <2>2 DEF RunLAcknowledge, sender, LastRead, Promise!Complete
<1>5. CASE SendRaiseAck \/ OpenReady \/ CancelLowerAck
  <2>1. /\ UNCHANGED <<sent, delivered, refused, calm>>
        /\ \/ completed' = completed
           \/ ackSub \in 1 .. sent /\ completed' = completed \union {ackSub}
    BY <1>5, SetAckCompletes DEF SendRaiseAck, OpenReady, CancelLowerAck, sender, receiver
  <2>2. calm => ackSub = 0
    BY <1>5 DEF CalmInv, HandshakeInv, SendRaiseAck, OpenReady, CancelLowerAck,
                NotOpen, AllRead, BeingSent, BeingRead
  <2> QED
    BY <2>1, <2>2 DEF LastRead, Promise!Complete
<1>6. CASE SendSubscribeAck \/ SendPublish \/ OpenSubscribe \/ RunLGet \/ RunLResubscribe
  BY <1>6 DEF SendSubscribeAck, SendPublish, OpenSubscribe, RunLGet,
              RunLResubscribe, sender, receiver, LastRead
<1>7. CASE CancelSubscription \/ CloseMonitor
  BY <1>7 DEF CancelSubscription, CloseMonitor, sender, receiver, LastRead, Promise!Disturb
<1>8. CASE UNCHANGED vars
  BY <1>8 DEF vars, sender, receiver, LastRead
<1> QED
  BY <1>1, <1>2, <1>3, <1>4, <1>5, <1>6, <1>7, <1>8
     DEF Next, SenderStep, ReceiverStep, ReceiverOwes

\* In every mode of use the channel implements the mailbox.
THEOREM ChannelImplementsMailbox == Spec => ImplementsMailbox
<1>1. Init => Promise!Init
  BY DEF Init, Promise!Init, LastRead
<1>2. OrderInv /\ CalmInv /\ [Next]_vars => [Promise!Next]_(Promise!mvars)
  BY MailboxStep
<1> QED
  BY <1>1, <1>2, CalmInvariant, PTL DEF Spec, ImplementsMailbox, Promise!Spec
=============================================================================
