--------------------------- MODULE GatewayChannels ---------------------------
(***************************************************************************)
(* The channels on which the network gateway sends: CNetworkRequestChannel *)
(* to the network request handler, CPsyRequestChannel to the SUPL PSY and  *)
(* CAgpsChannel to the AGPS manager, as operators on the value of one      *)
(* object.  Each sits on one RLbsNetChannel, which is used here as the     *)
(* module Mailbox describes it: one message at a time, completed once it   *)
(* was read.  While IsActive() is true further messages wait in buffers    *)
(* that RunL empties.                                                      *)
(***************************************************************************)
EXTENDS Integers, Sequences

CONSTANTS
    None,       \* no message, no session, no module, no reason
    ItemCount   \* kinds of assistance data (KAssistanceDataListCount)

ASSUME ChannelAssumption == ItemCount \in Nat \ {0}

Item == 1 .. ItemCount

EmergencyKind == {"location", "privacy"}

SendMessage(ch, m) == [ch EXCEPT !.active = TRUE, !.unread = m]

\* The receiver reads the message; iStatus is completed.
Acknowledged(ch) == ch.active /\ ch.unread = None

-----------------------------------------------------------------------------
(* CNetworkRequestChannel and CPsyRequestChannel                           *)

\* emergency is iEmergencyBuffer, an array of pointers to the two members
\* that slot stands for: a second emergency message of one kind overwrites
\* the first and is listed twice.
RequestChannel ==
    [active |-> FALSE, unread |-> None, buffer |-> <<>>,
     emergency |-> <<>>, slot |-> [k \in EmergencyKind |-> None]]

PsyChannel == [active |-> FALSE, unread |-> None, buffer |-> <<>>]

\* The channels that carry messages of a set M.
RequestChannels(M) ==
    [active : BOOLEAN, unread : M \union {None}, buffer : Seq(M),
     emergency : Seq(EmergencyKind), slot : [EmergencyKind -> M \union {None}]]

PsyChannels(M) ==
    [active : BOOLEAN, unread : M \union {None}, buffer : Seq(M)]

\* Mutant: a message is sent at once, whatever is in the channel.
SendUnbuffered(ch, m) == SendMessage(ch, m)

SendNetworkResponse(ch, m) ==
    IF ch.active
    THEN [ch EXCEPT !.buffer = Append(@, m)]
    ELSE SendMessage(ch, m)

SendNetRequestMessage(ch, m) ==
    IF ch.active /\ m.emergency /\ m.type \in EmergencyKind
    THEN [ch EXCEPT !.emergency = Append(@, m.type), !.slot[m.type] = m]
    ELSE SendNetworkResponse(ch, m)

SendNextBufferedMessage(ch) ==
    IF ch.buffer = <<>>
    THEN [ch EXCEPT !.active = FALSE]
    ELSE [SendMessage(ch, Head(ch.buffer)) EXCEPT !.buffer = Tail(@)]

\* Mutants: the emergency message is sent and stays listed; the next message
\* is sent and SetActive() is forgotten.
RequestRunLKeeps(ch) ==
    IF ch.emergency = <<>>
    THEN SendNextBufferedMessage(ch)
    ELSE SendMessage(ch, ch.slot[Head(ch.emergency)])

RequestRunLStops(ch) == [SendNextBufferedMessage(ch) EXCEPT !.active = FALSE]

RequestRunL(ch) ==
    IF ch.emergency = <<>>
    THEN SendNextBufferedMessage(ch)
    ELSE [SendMessage(ch, ch.slot[Head(ch.emergency)])
             EXCEPT !.emergency = Tail(@)]

-----------------------------------------------------------------------------
(* CAgpsChannel and its RAssistanceDataMsgBuffer                           *)

\* complete is iSessionCompleteMsgBuffer where iSessionCompleteMsgValid.
AgpsChannel ==
    [active |-> FALSE, unread |-> None, complete |-> None,
     items |-> [i \in Item |-> None], generic |-> None, empty |-> TRUE]

\* The messages, and the channels, with reasons of R and sessions of S.
AgpsMessages(R, S) ==
    [type : {"data"}, mask : SUBSET Item, reason : R]
    \union [type : {"complete"}, session : S]

AgpsChannels(R, S) ==
    [active : BOOLEAN, unread : AgpsMessages(R, S) \union {None},
     complete : S \union {None}, items : [Item -> R \union {None}],
     generic : R \union {None}, empty : BOOLEAN]

DataMessage(mask, reason) == [type |-> "data", mask |-> mask, reason |-> reason]
CompleteMessage(s) == [type |-> "complete", session |-> s]

WriteData(ch, mask, reason) ==
    IF mask = {}
    THEN [ch EXCEPT !.generic = reason, !.empty = FALSE]
    ELSE [ch EXCEPT
             !.items = [i \in Item |-> IF i \in mask THEN reason ELSE @[i]],
             !.empty = FALSE]

Valid(ch) == {i \in Item : ch.items[i] # None}

\* Items that failed or succeeded alike go in one message, beginning with
\* the reason of the first valid item; an error without items goes first.
ReadGroup(ch) ==
    IF ch.generic # None THEN {}
    ELSE LET first == CHOOSE i \in Valid(ch) : \A j \in Valid(ch) : i <= j
         IN {i \in Item : ch.items[i] = ch.items[first]}

ReadReason(ch) ==
    IF ch.generic # None THEN ch.generic
    ELSE LET first == CHOOSE i \in Valid(ch) : \A j \in Valid(ch) : i <= j
         IN ch.items[first]

\* Mutant: reading the error without items empties the buffer.
AfterReadEmpties(ch) ==
    LET rest == [i \in Item |-> IF i \in ReadGroup(ch) THEN None ELSE ch.items[i]]
    IN [ch EXCEPT !.items = rest, !.generic = None,
                  !.empty = ch.generic # None \/ \A i \in Item : rest[i] = None]

AfterRead(ch) ==
    LET rest == [i \in Item |-> IF i \in ReadGroup(ch) THEN None ELSE ch.items[i]]
    IN [ch EXCEPT !.items = rest,
                  !.generic = None,
                  !.empty = \A i \in Item : rest[i] = None]

AgpsRunL(ch) ==
    IF ch.complete # None
    THEN [SendMessage(ch, CompleteMessage(ch.complete)) EXCEPT !.complete = None]
    ELSE IF ~ch.empty
    THEN SendMessage(AfterRead(ch), DataMessage(ReadGroup(ch), ReadReason(ch)))
    ELSE [ch EXCEPT !.active = FALSE]

SendAssistanceDataResponse(ch, mask, reason) ==
    IF ch.active
    THEN WriteData(ch, mask, reason)
    ELSE SendMessage(ch, DataMessage(mask, reason))

SendSessionComplete(ch, s) ==
    IF ch.active
    THEN [ch EXCEPT !.complete = s]
    ELSE SendMessage(ch, CompleteMessage(s))
=============================================================================
