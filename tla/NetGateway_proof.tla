--------------------------- MODULE NetGateway_proof --------------------------
(***************************************************************************)
(* Theorems about the network gateway, for any modules, sessions, kinds of *)
(* assistance data and numbers of calls.                                   *)
(***************************************************************************)
EXTENDS NetGateway, SequenceTheorems, WellFoundedInduction, TLAPS

-----------------------------------------------------------------------------
(***************************************************************************)
(* The channels, with messages of any set M.                               *)
(***************************************************************************)

\* A set of messages may be replaced by a larger one.
LEMMA RequestChannelsGrow ==
    ASSUME NEW M, NEW N, M \subseteq N
    PROVE  RequestChannels(M) \subseteq RequestChannels(N)
<1> SUFFICES ASSUME NEW ch \in RequestChannels(M)
             PROVE  ch \in RequestChannels(N)
  OBVIOUS
<1>1. ch.buffer \in Seq(N)
  BY DEF RequestChannels
<1> QED
  BY <1>1 DEF RequestChannels

\* The same for the channel of the PSY.
LEMMA PsyChannelsGrow ==
    ASSUME NEW M, NEW N, M \subseteq N
    PROVE  PsyChannels(M) \subseteq PsyChannels(N)
<1> SUFFICES ASSUME NEW ch \in PsyChannels(M)
             PROVE  ch \in PsyChannels(N)
  OBVIOUS
<1>1. ch.buffer \in Seq(N)
  BY DEF PsyChannels
<1> QED
  BY <1>1 DEF PsyChannels

\* The sessions of the channel of the AGPS manager may be more.
LEMMA AgpsChannelsGrow ==
    ASSUME NEW R, NEW S, NEW T, S \subseteq T
    PROVE  AgpsChannels(R, S) \subseteq AgpsChannels(R, T)
<1>1. AgpsMessages(R, S) \subseteq AgpsMessages(R, T)
  BY DEF AgpsMessages
<1> QED
  BY <1>1 DEF AgpsChannels

\* Sending on the channel to the NRH: the message goes out, to the buffer or
\* to the emergency slot of its type.
LEMMA SendNetRequestTyped ==
    ASSUME NEW M, NEW ch \in RequestChannels(M), NEW m \in M
    PROVE  SendNetRequestMessage(ch, m) \in RequestChannels(M)
<1>1. Append(ch.buffer, m) \in Seq(M)
  BY DEF RequestChannels
<1>2. m.type \in EmergencyKind => Append(ch.emergency, m.type) \in Seq(EmergencyKind)
  BY DEF RequestChannels
<1> QED
  BY <1>1, <1>2 DEF RequestChannels, SendNetRequestMessage, SendNetworkResponse,
     SendMessage

\* Sending on the channel to the PSY.
LEMMA SendNetworkResponseTyped ==
    ASSUME NEW M, NEW ch \in PsyChannels(M), NEW m \in M
    PROVE  SendNetworkResponse(ch, m) \in PsyChannels(M)
<1>1. Append(ch.buffer, m) \in Seq(M)
  BY DEF PsyChannels
<1> QED
  BY <1>1 DEF PsyChannels, SendNetworkResponse, SendMessage

\* RunL sends what is listed or buffered.
LEMMA RequestRunLTyped ==
    ASSUME NEW M, NEW ch \in RequestChannels(M),
           \A i \in 1 .. Len(ch.emergency) : ch.slot[ch.emergency[i]] # None
    PROVE  RequestRunL(ch) \in RequestChannels(M)
<1>1. CASE ch.emergency = <<>> /\ ch.buffer = <<>>
  BY <1>1 DEF RequestChannels, RequestRunL, SendNextBufferedMessage, SendMessage
<1>2. CASE ch.emergency = <<>> /\ ch.buffer # <<>>
  <2>1. Head(ch.buffer) \in M /\ Tail(ch.buffer) \in Seq(M)
    BY <1>2 DEF RequestChannels
  <2> QED
    BY <1>2, <2>1 DEF RequestChannels, RequestRunL, SendNextBufferedMessage, SendMessage
<1>3. CASE ch.emergency # <<>>
  <2>1. /\ Head(ch.emergency) = ch.emergency[1] /\ 1 \in 1 .. Len(ch.emergency)
        /\ Head(ch.emergency) \in EmergencyKind
        /\ Tail(ch.emergency) \in Seq(EmergencyKind)
    BY <1>3 DEF RequestChannels
  <2>2. ch.slot[Head(ch.emergency)] \in M
    BY <2>1 DEF RequestChannels
  <2> QED
    BY <1>3, <2>1, <2>2 DEF RequestChannels, RequestRunL, SendMessage
<1> QED
  BY <1>1, <1>2, <1>3

\* What is sent next comes out of the buffer.
LEMMA SendNextTyped ==
    ASSUME NEW M, NEW ch \in PsyChannels(M)
    PROVE  SendNextBufferedMessage(ch) \in PsyChannels(M)
<1>1. ch.buffer # <<>> => Head(ch.buffer) \in M /\ Tail(ch.buffer) \in Seq(M)
  BY DEF PsyChannels
<1> QED
  BY <1>1 DEF PsyChannels, SendNextBufferedMessage, SendMessage

-----------------------------------------------------------------------------
(***************************************************************************)
(* The channel to the AGPS manager.  Known is what its reader will know    *)
(* when it has read all of it, from what it knows.                         *)
(***************************************************************************)
Latest(waiting, known) == IF waiting = None THEN known ELSE waiting

Seen(ch, news) ==
    IF ch.unread = None THEN news
    ELSE IF ch.unread.type = "complete"
    THEN [news EXCEPT !.complete = ch.unread.session]
    ELSE AddResult(news, ch.unread.mask, ch.unread.reason)

Known(ch, news) ==
    [complete |-> Latest(ch.complete, Seen(ch, news).complete),
     generic |-> Latest(ch.generic, Seen(ch, news).generic),
     items |-> [i \in Item |-> Latest(ch.items[i], Seen(ch, news).items[i])]]

NoData(ch) == ch.generic = None /\ \A i \in Item : ch.items[i] = None

\* What is flagged empty is empty, and an idle channel has nothing to send.
AgpsIdleInv(ch) ==
    /\ ch.empty <=> NoData(ch)
    /\ ~ch.active => ch.unread = None /\ ch.complete = None /\ ch.empty

\* Every set of numbers that is not empty has a least one.
LEMMA LeastNumber ==
    ASSUME NEW T \in SUBSET Nat, T # {}
    PROVE  \E i \in T : \A j \in T : i <= j
<1> DEFINE R == OpToRel(<, Nat)
<1>1. IsWellFoundedOn(R, Nat)
  BY NatLessThanWellFounded, Zenon
<1>2. \A m, n \in Nat : m < n => <<m, n>> \in R
  BY DEF OpToRel
<1> HIDE DEF R
<1>3. PICK i \in T : \A j \in T : ~(<<j, i>> \in R)
  BY <1>1, WFMin, Zenon
<1>4. ASSUME NEW j \in T PROVE i <= j
  <2>1. i \in Nat /\ j \in Nat
    OBVIOUS
  <2>2. ~(j < i)
    BY <1>2, <1>3, <2>1, Zenon
  <2> QED
    BY <2>1, <2>2
<1> QED
  BY <1>4

\* None is told from every reason, session and message.
LEMMA NoneIsNothing ==
    /\ None \notin Reason /\ None \notin SetSession
    /\ None \notin AgpsMessages(Reason, SetSession)
BY GatewayAssumption DEF Session

\* What the AGPS manager knows keeps its type when results are added to it.
LEMMA AddResultTyped ==
    ASSUME NEW news \in News, NEW mask \in SUBSET Item, NEW reason \in Reason
    PROVE  AddResult(news, mask, reason) \in News
BY DEF News, AddResult

\* It keeps its type when the message in the channel is read.
LEMMA SeenTyped ==
    ASSUME NEW S \in SUBSET SetSession, NEW ch \in AgpsChannels(Reason, S), NEW news \in News
    PROVE  Seen(ch, news) \in News
<1>1. CASE ch.unread = None
  BY <1>1 DEF Seen
<1>2. CASE ch.unread \in [type : {"complete"}, session : S]
  BY <1>2, NoneIsNothing DEF Seen, News, AgpsMessages
<1>3. CASE ch.unread \in [type : {"data"}, mask : SUBSET Item, reason : Reason]
  BY <1>3, NoneIsNothing, AddResultTyped DEF Seen, AgpsMessages
<1> QED
  BY <1>1, <1>2, <1>3 DEF AgpsChannels, AgpsMessages

\* Data is added to what the reader will know, whatever is on its way.
LEMMA SendAssistanceData ==
    ASSUME NEW S \in SUBSET SetSession, NEW ch \in AgpsChannels(Reason, S),
           AgpsIdleInv(ch), NEW news \in News,
           NEW mask \in SUBSET Item, NEW reason \in Reason
    PROVE  LET new == SendAssistanceDataResponse(ch, mask, reason)
           IN /\ new \in AgpsChannels(Reason, S)
              /\ AgpsIdleInv(new)
              /\ Known(new, news) = AddResult(Known(ch, news), mask, reason)
<1> DEFINE new == SendAssistanceDataResponse(ch, mask, reason)
<1>0. Seen(ch, news) \in News
  BY SeenTyped
<1>n. None \notin Reason
  BY NoneIsNothing
<1>1. CASE ch.active /\ mask = {}
  <2>1. new = [ch EXCEPT !.generic = reason, !.empty = FALSE]
    BY <1>1 DEF SendAssistanceDataResponse, WriteData
  <2>2. new \in AgpsChannels(Reason, S) /\ Seen(new, news) = Seen(ch, news)
    BY <2>1 DEF AgpsChannels, Seen
  <2>3. AgpsIdleInv(new)
    BY <2>1, <1>1, <1>n DEF AgpsIdleInv, AgpsChannels, NoData
  <2>4. Known(new, news) = AddResult(Known(ch, news), mask, reason)
    <3> DEFINE known == [complete |-> Latest(ch.complete, Seen(ch, news).complete),
                         generic |-> reason,
                         items |-> [i \in Item |-> Latest(ch.items[i], Seen(ch, news).items[i])]]
    <3>1. new.complete = ch.complete /\ new.generic = reason /\ new.items = ch.items
      BY <2>1 DEF AgpsChannels
    <3>2. Known(new, news) = known
      BY <2>2, <3>1, <1>n DEF Known, Latest
    <3>3. AddResult(Known(ch, news), mask, reason) = known
      BY <1>1 DEF Known, AddResult
    <3> QED
      BY <3>2, <3>3
  <2> QED
    BY <2>2, <2>3, <2>4
<1>2. CASE ch.active /\ mask # {}
  <2>1. new = [ch EXCEPT
             !.items = [i \in Item |-> IF i \in mask THEN reason ELSE ch.items[i]],
             !.empty = FALSE]
    BY <1>2 DEF SendAssistanceDataResponse, WriteData, AgpsChannels
  <2>2. new \in AgpsChannels(Reason, S) /\ Seen(new, news) = Seen(ch, news)
    <3>1. [i \in Item |-> IF i \in mask THEN reason ELSE ch.items[i]]
              \in [Item -> Reason \union {None}]
      BY DEF AgpsChannels
    <3> QED
      BY <2>1, <3>1 DEF AgpsChannels, Seen
  <2>3. AgpsIdleInv(new)
    BY <2>1, <1>2, <1>n DEF AgpsIdleInv, AgpsChannels, NoData
  <2>4. Known(new, news) = AddResult(Known(ch, news), mask, reason)
    <3> DEFINE seen == Seen(ch, news)
               known == [complete |-> Latest(ch.complete, seen.complete),
                         generic |-> Latest(ch.generic, seen.generic),
                         items |-> [i \in Item |-> IF i \in mask THEN reason
                                                   ELSE Latest(ch.items[i], seen.items[i])]]
    <3>1. /\ new.complete = ch.complete /\ new.generic = ch.generic
          /\ new.items = [i \in Item |-> IF i \in mask THEN reason ELSE ch.items[i]]
      BY <2>1 DEF AgpsChannels
    <3> HIDE DEF seen
    <3>2. [i \in Item |-> Latest(new.items[i], seen.items[i])]
          = [i \in Item |-> IF i \in mask THEN reason ELSE Latest(ch.items[i], seen.items[i])]
      BY <3>1, <1>n DEF Latest
    <3>3. Known(new, news) = known
      BY <2>2, <3>1, <3>2 DEF Known, seen
    <3>4. AddResult(Known(ch, news), mask, reason) = known
      BY <1>2 DEF Known, AddResult, seen
    <3> QED
      BY <3>3, <3>4
  <2> QED
    BY <2>2, <2>3, <2>4
<1>3. CASE ~ch.active
  <2> DEFINE m == DataMessage(mask, reason)
  <2>1. new = [ch EXCEPT !.active = TRUE, !.unread = m]
    BY <1>3 DEF SendAssistanceDataResponse, SendMessage
  <2>2. m \in AgpsMessages(Reason, S) /\ m # None /\ m.type = "data"
    BY NoneIsNothing DEF DataMessage, AgpsMessages
  <2>3. new \in AgpsChannels(Reason, S) /\ AgpsIdleInv(new)
    BY <2>1, <2>2 DEF AgpsChannels, AgpsIdleInv, NoData
  <2>4. Seen(new, news) = AddResult(news, mask, reason) /\ Seen(ch, news) = news
    BY <1>3, <2>1, <2>2 DEF Seen, AgpsChannels, AgpsIdleInv, DataMessage
  <2>5. NoData(ch) /\ ch.complete = None
    BY <1>3 DEF AgpsIdleInv
  <2>6. Known(ch, news) = news
    BY <2>4, <2>5 DEF Known, Latest, News, NoData
  <2>7. AddResult(news, mask, reason) \in News
    BY AddResultTyped
  <2>8. Known(new, news) = AddResult(news, mask, reason)
    BY <2>1, <2>4, <2>5, <2>7 DEF Known, Latest, News, NoData, AgpsChannels
  <2> QED
    BY <2>3, <2>6, <2>8
<1> QED
  BY <1>1, <1>2, <1>3

\* A record of this shape with another completion.
LEMMA WithCompletion ==
    ASSUME NEW a, NEW b, NEW c, NEW s
    PROVE  [[complete |-> a, generic |-> b, items |-> c] EXCEPT !.complete = s]
           = [complete |-> s, generic |-> b, items |-> c]
OBVIOUS

\* So is a completion.
LEMMA SendComplete ==
    ASSUME NEW S \in SUBSET SetSession, NEW ch \in AgpsChannels(Reason, S),
           AgpsIdleInv(ch), NEW news \in News, NEW s \in S
    PROVE  LET new == SendSessionComplete(ch, s)
           IN /\ new \in AgpsChannels(Reason, S)
              /\ AgpsIdleInv(new)
              /\ Known(new, news) = [Known(ch, news) EXCEPT !.complete = s]
<1> DEFINE new == SendSessionComplete(ch, s)
<1>0. Seen(ch, news) \in News
  BY SeenTyped
<1>n. None # s
  BY NoneIsNothing
<1>1. CASE ch.active
  <2>1. new = [ch EXCEPT !.complete = s]
    BY <1>1 DEF SendSessionComplete
  <2>2. new \in AgpsChannels(Reason, S) /\ Seen(new, news) = Seen(ch, news)
    BY <2>1 DEF AgpsChannels, Seen
  <2>3. AgpsIdleInv(new)
    BY <2>1, <1>1 DEF AgpsIdleInv, AgpsChannels, NoData
  <2>4. Known(new, news) = [Known(ch, news) EXCEPT !.complete = s]
    <3>1. new.complete = s /\ new.generic = ch.generic /\ new.items = ch.items
      BY <2>1 DEF AgpsChannels
    <3> DEFINE seen == Seen(ch, news)
               known == [complete |-> s, generic |-> Latest(ch.generic, seen.generic),
                         items |-> [i \in Item |-> Latest(ch.items[i], seen.items[i])]]
    <3>2. Known(new, news) = known
      BY <2>2, <3>1, <1>n DEF Known, Latest
    <3>3. [Known(ch, news) EXCEPT !.complete = s] = known
      BY WithCompletion DEF Known
    <3> QED
      BY <3>2, <3>3
  <2> QED
    BY <2>2, <2>3, <2>4
<1>2. CASE ~ch.active
  <2> DEFINE m == CompleteMessage(s)
  <2>1. new = [ch EXCEPT !.active = TRUE, !.unread = m]
    BY <1>2 DEF SendSessionComplete, SendMessage
  <2>2. m \in AgpsMessages(Reason, S) /\ m # None /\ m.type = "complete"
    BY NoneIsNothing DEF CompleteMessage, AgpsMessages
  <2>3. new \in AgpsChannels(Reason, S) /\ AgpsIdleInv(new)
    BY <2>1, <2>2 DEF AgpsChannels, AgpsIdleInv, NoData
  <2>4. Seen(new, news) = [news EXCEPT !.complete = s] /\ Seen(ch, news) = news
    BY <1>2, <2>1, <2>2 DEF Seen, AgpsChannels, AgpsIdleInv, CompleteMessage
  <2>5. NoData(ch) /\ ch.complete = None
    BY <1>2 DEF AgpsIdleInv
  <2>6. Known(ch, news) = news
    BY <2>4, <2>5 DEF Known, Latest, News, NoData
  <2>8. Known(new, news) = [news EXCEPT !.complete = s]
    BY <2>1, <2>4, <2>5 DEF Known, Latest, News, NoData, AgpsChannels
  <2> QED
    BY <2>3, <2>6, <2>8
<1> QED
  BY <1>1, <1>2

\* Reading takes the unread message to what is known.
LEMMA ReadAgps ==
    ASSUME NEW S \in SUBSET SetSession, NEW ch \in AgpsChannels(Reason, S),
           AgpsIdleInv(ch), NEW news \in News
    PROVE  LET new == [ch EXCEPT !.unread = None]
           IN /\ new \in AgpsChannels(Reason, S)
              /\ AgpsIdleInv(new)
              /\ Known(new, Seen(ch, news)) = Known(ch, news)
<1> DEFINE new == [ch EXCEPT !.unread = None]
<1>1. new \in AgpsChannels(Reason, S)
  BY DEF AgpsChannels
<1>2. AgpsIdleInv(new)
  BY DEF AgpsChannels, AgpsIdleInv, NoData
<1>3. /\ new.complete = ch.complete /\ new.generic = ch.generic
      /\ new.items = ch.items /\ new.unread = None
  BY DEF AgpsChannels
<1>4. Seen(new, Seen(ch, news)) = Seen(ch, news)
  BY <1>3 DEF Seen
<1>5. Known(new, Seen(ch, news)) = Known(ch, news)
  BY <1>3, <1>4 DEF Known
<1> QED
  BY <1>1, <1>2, <1>5

\* RunL moves a completion, or the results of one kind, from the buffers to
\* the channel, and what the reader will know stays the same.
LEMMA RunAgps ==
    ASSUME NEW S \in SUBSET SetSession, NEW ch \in AgpsChannels(Reason, S),
           AgpsIdleInv(ch), Acknowledged(ch), NEW news \in News
    PROVE  LET new == AgpsRunL(ch)
           IN /\ new \in AgpsChannels(Reason, S)
              /\ AgpsIdleInv(new)
              /\ Known(new, news) = Known(ch, news)
<1> DEFINE new == AgpsRunL(ch)
<1>u. ch.unread = None /\ Seen(ch, news) = news /\ ch.active
  BY DEF Acknowledged, Seen
<1>n. None \notin Reason /\ None \notin S
  BY NoneIsNothing
<1>1. CASE ch.complete # None
  <2> DEFINE m == CompleteMessage(ch.complete)
  <2>1. new = [ch EXCEPT !.active = TRUE, !.unread = m, !.complete = None]
    BY <1>1 DEF AgpsRunL, SendMessage
  <2>2. m \in AgpsMessages(Reason, S) /\ m # None /\ m.type = "complete" /\ m.session = ch.complete
    BY <1>1, NoneIsNothing DEF CompleteMessage, AgpsMessages, AgpsChannels
  <2>3. new \in AgpsChannels(Reason, S) /\ AgpsIdleInv(new)
    BY <2>1, <2>2 DEF AgpsChannels, AgpsIdleInv, NoData
  <2>4. /\ new.complete = None /\ new.generic = ch.generic
        /\ new.items = ch.items /\ new.unread = m
    BY <2>1 DEF AgpsChannels
  <2>5. Seen(new, news) = [news EXCEPT !.complete = ch.complete]
    BY <2>2, <2>4 DEF Seen
  <2>6. Known(new, news) = Known(ch, news)
    BY <1>1, <1>u, <2>4, <2>5 DEF Known, Latest, News
  <2> QED
    BY <2>3, <2>6
<1>2. CASE ch.complete = None /\ ~ch.empty /\ ch.generic # None
  <2>1. ReadGroup(ch) = {} /\ ReadReason(ch) = ch.generic
    BY <1>2 DEF ReadGroup, ReadReason
  <2> DEFINE m == DataMessage({}, ch.generic)
             rest == AfterRead(ch)
  <2>2. m \in AgpsMessages(Reason, S) /\ m # None
        /\ m.type = "data" /\ m.mask = {} /\ m.reason = ch.generic
    BY <1>2, NoneIsNothing DEF DataMessage, AgpsMessages, AgpsChannels
  <2>3. [i \in Item |-> IF i \in ReadGroup(ch) THEN None ELSE ch.items[i]] = ch.items
    BY <2>1 DEF AgpsChannels
  <2>4. rest = [ch EXCEPT !.items = ch.items, !.generic = None,
                          !.empty = \A i \in Item : ch.items[i] = None]
    BY <2>3 DEF AfterRead
  <2>5. /\ new.active = TRUE /\ new.unread = m /\ new.complete = None /\ new.generic = None
        /\ new.items = ch.items /\ new.empty = (\A i \in Item : ch.items[i] = None)
        /\ new \in AgpsChannels(Reason, S)
    BY <1>2, <2>1, <2>2, <2>4 DEF AgpsChannels, AgpsRunL, SendMessage
  <2>6. AgpsIdleInv(new)
    BY <2>2, <2>5 DEF AgpsIdleInv, NoData
  <2>7. Seen(new, news) = [news EXCEPT !.generic = ch.generic]
    BY <2>2, <2>5 DEF Seen, AddResult
  <2>8. Known(new, news) = Known(ch, news)
    BY <1>2, <1>u, <2>5, <2>7 DEF Known, Latest, News
  <2> QED
    BY <2>5, <2>6, <2>8
<1>3. CASE ch.complete = None /\ ~ch.empty /\ ch.generic = None
  <2> DEFINE first == CHOOSE i \in Valid(ch) : \A j \in Valid(ch) : i <= j
             group == ReadGroup(ch)
             reason == ch.items[first]
             left == [i \in Item |-> IF i \in group THEN None ELSE ch.items[i]]
             m == DataMessage(group, reason)
  <2>1. first \in Valid(ch)
    <3>1. Valid(ch) # {} /\ Valid(ch) \subseteq Nat
      BY <1>3 DEF AgpsIdleInv, NoData, Valid, Item
    <3>2. \E i \in Valid(ch) : \A j \in Valid(ch) : i <= j
      BY <3>1, LeastNumber
    <3> QED
      BY <3>2
  <2> HIDE DEF first
  <2>2. /\ group = {i \in Item : ch.items[i] = reason} /\ ReadReason(ch) = reason
        /\ reason \in Reason /\ group \in SUBSET Item /\ first \in group
    <3>1. group = {i \in Item : ch.items[i] = reason} /\ ReadReason(ch) = reason
      BY <1>3 DEF ReadGroup, ReadReason, first
    <3> QED
      BY <2>1, <3>1 DEF Valid, AgpsChannels
  <2> HIDE DEF group, reason
  <2>3. m \in AgpsMessages(Reason, S) /\ m # None
        /\ m.type = "data" /\ m.mask = group /\ m.reason = reason
    BY <2>2, NoneIsNothing DEF DataMessage, AgpsMessages
  <2>4. left \in [Item -> Reason \union {None}]
    BY DEF AgpsChannels
  <2>5. AfterRead(ch) = [ch EXCEPT !.items = left, !.generic = None,
                                   !.empty = \A i \in Item : left[i] = None]
    BY DEF AfterRead, group
  <2>6. /\ new.active = TRUE /\ new.unread = m /\ new.complete = None /\ new.generic = None
        /\ new.items = left /\ new.empty = (\A i \in Item : left[i] = None)
        /\ new \in AgpsChannels(Reason, S)
    <3>1. new = SendMessage(AfterRead(ch), m)
      BY <1>3, <2>2 DEF AgpsRunL, group
    <3> HIDE DEF left, m
    <3>2. new = [ch EXCEPT !.items = left, !.generic = None,
                           !.empty = \A i \in Item : left[i] = None,
                           !.active = TRUE, !.unread = m]
      BY <2>5, <3>1 DEF SendMessage
    <3> QED
      BY <1>3, <2>3, <2>4, <3>2 DEF AgpsChannels
  <2>7. AgpsIdleInv(new)
    BY <2>3, <2>6 DEF AgpsIdleInv, NoData
  <2>8. Seen(new, news) = AddResult(news, group, reason)
    BY <2>3, <2>6 DEF Seen
  <2>9. AddResult(news, group, reason)
        = [news EXCEPT !.items = [i \in Item |-> IF i \in group THEN reason ELSE news.items[i]]]
    BY <2>2 DEF AddResult, News
  <2>10. \A i \in Item : Latest(left[i], Seen(new, news).items[i]) = Latest(ch.items[i], news.items[i])
    BY <1>n, <2>2, <2>8, <2>9 DEF Latest, News
  <2>11. /\ Seen(new, news).complete = news.complete /\ Seen(new, news).generic = news.generic
    BY <2>8, <2>9 DEF News
  <2>12. Known(new, news) = Known(ch, news)
    BY <1>3, <1>u, <2>6, <2>10, <2>11 DEF Known, Latest
  <2> QED
    BY <2>6, <2>7, <2>12
<1>4. CASE ch.complete = None /\ ch.empty
  <2>1. new = [ch EXCEPT !.active = FALSE]
    BY <1>4 DEF AgpsRunL
  <2>2. new \in AgpsChannels(Reason, S)
    BY <2>1 DEF AgpsChannels
  <2>3. AgpsIdleInv(new)
    BY <1>4, <1>u, <2>1 DEF AgpsChannels, AgpsIdleInv, NoData
  <2>4. Known(new, news) = Known(ch, news)
    BY <2>1 DEF Known, Seen, AgpsChannels
  <2> QED
    BY <2>2, <2>3, <2>4
<1> QED
  BY <1>1, <1>2, <1>3, <1>4 DEF AgpsChannels

-----------------------------------------------------------------------------
(***************************************************************************)
(* Types, and what the messages on their way say about the sessions.       *)
(***************************************************************************)
Done == SetSession \intersect closed

Truthful ==
    {m \in SessionMessage :
        /\ m.emergency <=> m.session \in Emergency
        /\ m.type = "complete" => m.session \in closed
        /\ m.type = "privacy" => m.session \in asked}

PsyTruthful ==
    {m \in SessionMessage : m.type = "complete" => m.session \in Done}

\* What is listed as an emergency is in its slot.
SlotInv(ch) ==
    /\ \A i \in 1 .. Len(ch.emergency) : ch.slot[ch.emergency[i]] # None
    /\ \A k \in EmergencyKind :
          ch.slot[k] # None => ch.slot[k].emergency /\ ch.slot[k].type = k

ChannelInv ==
    /\ TypeOK
    /\ nrh \in RequestChannels(Truthful) /\ SlotInv(nrh)
    /\ psy \in PsyChannels(PsyTruthful)
    /\ agps \in AgpsChannels(Reason, Done) /\ AgpsIdleInv(agps)
    /\ \A s \in Session : <<"privacy", s>> \in due => s \in asked
    /\ reject \in asked \union {None}
    /\ agpsSent = Known(agps, agpsRead)

\* Sessions that are completed, or asked for, only make more true.
LEMMA TrafficGrows ==
    ASSUME closed \subseteq closed', asked \subseteq asked'
    PROVE  /\ RequestChannels(Truthful) \subseteq RequestChannels(Truthful')
           /\ PsyChannels(PsyTruthful) \subseteq PsyChannels(PsyTruthful')
           /\ AgpsChannels(Reason, Done) \subseteq AgpsChannels(Reason, Done')
<1>1. Truthful \subseteq Truthful' /\ PsyTruthful \subseteq PsyTruthful' /\ Done \subseteq Done'
  BY DEF Truthful, PsyTruthful, Done
<1> QED
  BY <1>1, RequestChannelsGrow, PsyChannelsGrow, AgpsChannelsGrow, Zenon

\* Messages that say the truth about their sessions are messages.
LEMMA TrafficTyped ==
    /\ RequestChannels(Truthful') \subseteq RequestChannels(SessionMessage)
    /\ PsyChannels(PsyTruthful') \subseteq PsyChannels(SessionMessage)
    /\ AgpsChannels(Reason, Done') \subseteq AgpsChannels(Reason, SetSession)
<1>1. /\ Truthful' \subseteq SessionMessage /\ PsyTruthful' \subseteq SessionMessage
      /\ Done' \subseteq SetSession
  BY DEF Truthful, PsyTruthful, Done
<1> QED
  BY <1>1, RequestChannelsGrow, PsyChannelsGrow, AgpsChannelsGrow, Zenon

\* The channels as a step leaves them, with the other variables, make the
\* invariant.
LEMMA ChannelStep ==
    ASSUME ChannelInv, closed \subseteq closed', asked \subseteq asked',
           nrh' \in RequestChannels(Truthful'), SlotInv(nrh'),
           psy' \in PsyChannels(PsyTruthful'),
           agps' \in AgpsChannels(Reason, Done'), AgpsIdleInv(agps'),
           agpsSent' \in News, agpsRead' \in News,
           agpsSent' = Known(agps', agpsRead'),
           strategy' = strategy, scene' = scene,
           status' \in {"none", "home", "roaming"}, loaded' \subseteq Module,
           moduleFor' \in [ClientKind -> Module \union {None}],
           reject' \in NetSession \union {None},
           current' \in [ClientKind -> SetSession \union {None}],
           given' \in [SetSession -> Module \union {None}],
           asked' \subseteq NetSession, answered' \subseteq asked',
           locating' \subseteq Session, closed' \subseteq Session,
           told' \subseteq SetSession \intersect closed',
           sent' \in [Session -> Nat], readLog' \in [Session -> Seq(Nat)],
           due' \subseteq EmergencyKind \X Session,
           \A s \in Session : <<"privacy", s>> \in due' => s \in asked',
           reject' \in asked' \union {None}
    PROVE  ChannelInv'
<1>1. TypeOK'
  BY TrafficTyped DEF TypeOK, ChannelInv
<1> QED
  BY <1>1 DEF ChannelInv

\* A listed emergency message has its slot filled after any call that sends.
LEMMA SlotKept ==
    ASSUME NEW M, NEW ch \in RequestChannels(M), SlotInv(ch), NEW m \in SessionMessage
    PROVE  SlotInv(SendNetRequestMessage(ch, m))
<1>n. m # None
  BY GatewayAssumption
<1>1. CASE ch.active /\ m.emergency /\ m.type \in EmergencyKind
  <2> DEFINE new == SendNetRequestMessage(ch, m)
  <2>1. /\ new.emergency = Append(ch.emergency, m.type)
        /\ new.slot = [ch.slot EXCEPT ![m.type] = m]
    BY <1>1 DEF SendNetRequestMessage, RequestChannels
  <2>2. \A i \in 1 .. Len(new.emergency) :
            \/ new.emergency[i] = m.type
            \/ i \in 1 .. Len(ch.emergency) /\ new.emergency[i] = ch.emergency[i]
    BY <1>1, <2>1 DEF RequestChannels
  <2>3. \A i \in 1 .. Len(ch.emergency) : ch.emergency[i] \in EmergencyKind
    BY DEF RequestChannels
  <2> HIDE DEF new
  <2>4. \A k \in EmergencyKind : new.slot[k] = IF k = m.type THEN m ELSE ch.slot[k]
    BY <2>1 DEF RequestChannels
  <2>5. SlotInv(new)
    BY <1>1, <1>n, <2>2, <2>3, <2>4 DEF SlotInv
  <2> QED
    BY <2>5 DEF new
<1>2. CASE ~(ch.active /\ m.emergency /\ m.type \in EmergencyKind)
  BY <1>2 DEF SendNetRequestMessage, SendNetworkResponse, SendMessage, SlotInv, RequestChannels
<1> QED
  BY <1>1, <1>2

\* ... and after RunL, which empties no slot.
LEMMA SlotKeptRunL ==
    ASSUME NEW M, NEW ch \in RequestChannels(M), SlotInv(ch)
    PROVE  SlotInv(RequestRunL(ch))
<1> DEFINE new == RequestRunL(ch)
<1>1. CASE ch.emergency # <<>>
  <2>1. new.emergency = Tail(ch.emergency) /\ new.slot = ch.slot
    BY <1>1 DEF RequestRunL, SendMessage, RequestChannels
  <2>2. \A i \in 1 .. Len(new.emergency) :
            i + 1 \in 1 .. Len(ch.emergency) /\ new.emergency[i] = ch.emergency[i + 1]
    BY <1>1, <2>1 DEF RequestChannels
  <2> HIDE DEF new
  <2>3. SlotInv(new)
    BY <2>1, <2>2 DEF SlotInv
  <2> QED
    BY <2>3 DEF new
<1>2. CASE ch.emergency = <<>>
  BY <1>2 DEF RequestRunL, SendNextBufferedMessage, SendMessage, SlotInv, RequestChannels
<1> QED
  BY <1>1, <1>2

\* A message to the NRH.
LEMMA ToNrhTyped ==
    ASSUME ChannelInv, closed \subseteq closed', asked \subseteq asked',
           NEW s \in Session,
           NEW type \in {"privacy", "location", "update", "complete"},
           type = "complete" => s \in closed', type = "privacy" => s \in asked',
           ToNrh(s, type)
    PROVE  /\ nrh' \in RequestChannels(Truthful') /\ SlotInv(nrh')
           /\ sent' \in [Session -> Nat]
<1> DEFINE m == Message(s, type)
<1>1. m \in Truthful'
  <2>1. (s \in Emergency) \in BOOLEAN /\ sent[s] + 1 \in Nat
    BY DEF ChannelInv, TypeOK
  <2>2. m \in SessionMessage
    BY <2>1 DEF Message, SessionMessage
  <2>3. m.session = s /\ m.type = type /\ m.emergency = (s \in Emergency)
    BY DEF Message
  <2> HIDE DEF m
  <2> QED
    BY <2>2, <2>3 DEF Truthful
<1>2. nrh \in RequestChannels(Truthful')
  BY TrafficGrows DEF ChannelInv
<1>3. nrh' = SendNetRequestMessage(nrh, m)
  BY DEF ToNrh
<1>4. nrh' \in RequestChannels(Truthful')
  BY <1>1, <1>2, <1>3, SendNetRequestTyped
<1>5. m \in SessionMessage
  BY <1>1 DEF Truthful
<1>6. SlotInv(nrh')
  BY <1>3, <1>5, SlotKept DEF ChannelInv
<1> QED
  BY <1>4, <1>6 DEF ToNrh, ChannelInv, TypeOK

\* A completion, to the NRH and to the PSY.
LEMMA SessionCompletedTyped ==
    ASSUME ChannelInv, asked' = asked, NEW s \in Session, SessionCompleted(s)
    PROVE  /\ closed' = closed \union {s} /\ told' = told
           /\ nrh' \in RequestChannels(Truthful') /\ SlotInv(nrh')
           /\ sent' \in [Session -> Nat]
           /\ psy' \in PsyChannels(PsyTruthful')
<1>1. closed' = closed \union {s} /\ told' = told /\ ToNrh(s, "complete")
  BY DEF SessionCompleted
<1>2. psy' \in PsyChannels(PsyTruthful')
  <2> DEFINE m == Message(s, "complete")
  <2>1. psy \in PsyChannels(PsyTruthful')
    BY <1>1, TrafficGrows DEF ChannelInv
  <2>2. CASE IsClient(s, "psy")
    <3>1. (s \in Emergency) \in BOOLEAN /\ sent[s] + 1 \in Nat /\ s \in Done'
      BY <1>1, <2>2 DEF ChannelInv, TypeOK, IsClient, Done
    <3>2. m \in SessionMessage
      BY <3>1 DEF Message, SessionMessage
    <3>3. m.session = s
      BY DEF Message
    <3>4. m \in PsyTruthful'
      BY <3>1, <3>2, <3>3 DEF PsyTruthful
    <3> QED
      BY <2>1, <2>2, <3>4, SendNetworkResponseTyped DEF SessionCompleted
  <2>3. CASE ~IsClient(s, "psy")
    BY <2>1, <2>3 DEF SessionCompleted
  <2> QED
    BY <2>2, <2>3
<1> QED
  BY <1>1, <1>2, ToNrhTyped

\* and to the AGPS manager.
LEMMA SelfCompletedTyped ==
    ASSUME NEW S \in SUBSET SetSession, NEW ch \in AgpsChannels(Reason, S),
           AgpsIdleInv(ch), agpsSent \in News, agpsRead \in News,
           NEW s \in Session, IsClient(s, "self") => s \in S, SelfCompleted(ch, s)
    PROVE  /\ agps' \in AgpsChannels(Reason, S) /\ AgpsIdleInv(agps')
           /\ agpsSent' \in News
           /\ agpsSent = Known(ch, agpsRead) => agpsSent' = Known(agps', agpsRead)
<1>1. CASE IsClient(s, "self")
  <2>1. agps' = SendSessionComplete(ch, s) /\ agpsSent' = [agpsSent EXCEPT !.complete = s]
    BY <1>1 DEF SelfCompleted
  <2>2. s \in SetSession
    BY <1>1
  <2>3. agpsSent' \in News
    BY <2>1, <2>2 DEF News
  <2> QED
    BY <1>1, <2>1, <2>3, SendComplete
<1>2. CASE ~IsClient(s, "self")
  <2>1. agps' = ch /\ agpsSent' = agpsSent
    BY <1>2 DEF SelfCompleted, News
  <2> QED
    BY <2>1
<1> QED
  BY <1>1, <1>2

\* Data for the AGPS manager.
LEMMA ToAgpsDataTyped ==
    ASSUME NEW S \in SUBSET SetSession, NEW ch \in AgpsChannels(Reason, S),
           AgpsIdleInv(ch), agpsSent \in News, agpsRead \in News,
           NEW mask \in SUBSET Item, NEW reason \in Reason, ToAgpsData(ch, mask, reason)
    PROVE  /\ agps' \in AgpsChannels(Reason, S) /\ AgpsIdleInv(agps')
           /\ agpsSent' \in News
           /\ agpsSent = Known(ch, agpsRead) => agpsSent' = Known(agps', agpsRead)
<1>1. agps' = SendAssistanceDataResponse(ch, mask, reason)
      /\ agpsSent' = AddResult(agpsSent, mask, reason)
  BY DEF ToAgpsData
<1> QED
  BY <1>1, SendAssistanceData, AddResultTyped

\* The channels start empty.
LEMMA ChannelInit == Init => ChannelInv
<1> SUFFICES ASSUME Init PROVE ChannelInv
  OBVIOUS
<1>1. RequestChannel \in RequestChannels(Truthful) /\ SlotInv(RequestChannel)
  BY DEF RequestChannel, RequestChannels, SlotInv
<1>2. RequestChannel \in RequestChannels(SessionMessage)
  BY DEF RequestChannel, RequestChannels
<1>3. PsyChannel \in PsyChannels(PsyTruthful) /\ PsyChannel \in PsyChannels(SessionMessage)
  BY DEF PsyChannel, PsyChannels
<1>4. AgpsChannel \in AgpsChannels(Reason, Done) /\ AgpsChannel \in AgpsChannels(Reason, SetSession)
  BY DEF AgpsChannel, AgpsChannels
<1>5. AgpsIdleInv(AgpsChannel)
  BY DEF AgpsChannel, AgpsIdleInv, NoData
<1>6. agpsSent \in News /\ agpsRead = agpsSent
  BY DEF Init, News
<1>7. agpsSent = Known(AgpsChannel, agpsRead)
  BY DEF Init, Known, Latest, Seen, AgpsChannel
<1>8. TypeOK
  BY <1>2, <1>3, <1>4, <1>6, GatewayAssumption DEF Init, TypeOK
<1> QED
  BY <1>1, <1>3, <1>4, <1>5, <1>7, <1>8 DEF Init, ChannelInv

\* Calls of a protocol module that send one message.
LEMMA ChannelPrivacyRequest ==
    ASSUME ChannelInv, NEW s \in NetSession, ProcessPrivacyRequest(s)
    PROVE  ChannelInv'
<1> USE DEF ProcessPrivacyRequest, gateway, fixed, channels, readers, world
<1>1. closed \subseteq closed' /\ asked \subseteq asked' /\ asked' \subseteq NetSession
      /\ s \in Session /\ s \in asked'
  BY DEF ChannelInv, TypeOK, Session
<1>2. nrh' \in RequestChannels(Truthful') /\ SlotInv(nrh') /\ sent' \in [Session -> Nat]
  <2>1. CASE ToNrh(s, "privacy")
    BY <1>1, <2>1, ToNrhTyped
  <2>2. CASE UNCHANGED <<nrh, sent>>
    BY <1>1, <2>2, TrafficGrows DEF ChannelInv, TypeOK
  <2> QED
    BY <2>1, <2>2
<1>3. psy' \in PsyChannels(PsyTruthful') /\ agps' \in AgpsChannels(Reason, Done')
  BY <1>1, TrafficGrows DEF ChannelInv
<1> QED
  BY <1>1, <1>2, <1>3, ChannelStep DEF ChannelInv, TypeOK

\* ChannelInv is preserved by ProcessLocationRequest.
LEMMA ChannelLocationRequest ==
    ASSUME ChannelInv, NEW s \in Session, ProcessLocationRequest(s)
    PROVE  ChannelInv'
<1> USE DEF ProcessLocationRequest, gateway, fixed, channels, readers, world
<1>1. closed' = closed /\ asked' = asked
  OBVIOUS
<1>2. nrh' \in RequestChannels(Truthful') /\ SlotInv(nrh') /\ sent' \in [Session -> Nat]
  <2>1. CASE ToNrh(s, "location")
    BY <1>1, <2>1, ToNrhTyped
  <2>2. CASE UNCHANGED <<nrh, sent>>
    BY <1>1, <2>2, TrafficGrows DEF ChannelInv, TypeOK
  <2> QED
    BY <2>1, <2>2
<1>3. psy' \in PsyChannels(PsyTruthful') /\ agps' \in AgpsChannels(Reason, Done')
  BY <1>1, TrafficGrows DEF ChannelInv
<1> QED
  BY <1>1, <1>2, <1>3, ChannelStep DEF ChannelInv, TypeOK

\* ChannelInv is preserved by ProcessLocationUpdate.
LEMMA ChannelLocationUpdate ==
    ASSUME ChannelInv, NEW s \in Session, ProcessLocationUpdate(s)
    PROVE  ChannelInv'
<1> USE DEF ProcessLocationUpdate, gateway, fixed, channels, readers, world
<1>1. closed' = closed /\ asked' = asked
  OBVIOUS
<1>2. nrh' \in RequestChannels(Truthful') /\ SlotInv(nrh') /\ sent' \in [Session -> Nat]
  <2>1. CASE ToNrh(s, "update")
    BY <1>1, <2>1, ToNrhTyped
  <2>2. CASE UNCHANGED <<nrh, sent>>
    BY <1>1, <2>2, TrafficGrows DEF ChannelInv, TypeOK
  <2> QED
    BY <2>1, <2>2
<1>3. psy' \in PsyChannels(PsyTruthful')
  <2> DEFINE m == Message(s, "update")
  <2>1. (s \in Emergency) \in BOOLEAN /\ sent[s] + 1 \in Nat
    BY DEF ChannelInv, TypeOK
  <2>2. m \in SessionMessage /\ m.type = "update"
    BY <2>1 DEF Message, SessionMessage
  <2>3. m \in PsyTruthful'
    BY <2>2 DEF PsyTruthful
  <2>4. psy \in PsyChannels(PsyTruthful')
    BY <1>1, TrafficGrows DEF ChannelInv
  <2> QED
    BY <2>3, <2>4, SendNetworkResponseTyped
<1>4. agps' \in AgpsChannels(Reason, Done')
  BY <1>1, TrafficGrows DEF ChannelInv
<1> QED
  BY <1>1, <1>2, <1>3, <1>4, ChannelStep DEF ChannelInv, TypeOK

\* ChannelInv is preserved by ProcessSessionComplete, whose session is closed then.
LEMMA ChannelSessionComplete ==
    ASSUME ChannelInv, NEW s \in Session, ProcessSessionComplete(s)
    PROVE  ChannelInv'
<1> USE DEF ProcessSessionComplete, gateway, fixed, channels, readers, world
<1>1. asked' = asked /\ closed' = closed \union {s} /\ told' = told
  BY DEF SessionCompleted
<1>2. agps \in AgpsChannels(Reason, Done') /\ Done' \subseteq SetSession
  BY <1>1, TrafficGrows DEF ChannelInv, Done
<1>3. CASE UNCHANGED channels
  <2>1. nrh' \in RequestChannels(Truthful') /\ psy' \in PsyChannels(PsyTruthful')
    BY <1>1, <1>3, TrafficGrows DEF ChannelInv
  <2> QED
    BY <1>1, <1>2, <1>3, <2>1, ChannelStep DEF ChannelInv, TypeOK
<1>4. CASE SessionCompleted(s) /\ SelfCompleted(agps, s)
  <2>1. /\ nrh' \in RequestChannels(Truthful') /\ SlotInv(nrh')
        /\ sent' \in [Session -> Nat] /\ psy' \in PsyChannels(PsyTruthful')
    BY <1>1, <1>4, SessionCompletedTyped
  <2>2. IsClient(s, "self") => s \in Done'
    BY <1>1 DEF IsClient, Done
  <2>3. /\ agps' \in AgpsChannels(Reason, Done') /\ AgpsIdleInv(agps')
        /\ agpsSent' \in News /\ agpsSent' = Known(agps', agpsRead)
    BY <1>2, <1>4, <2>2, SelfCompletedTyped DEF ChannelInv, TypeOK
  <2> QED
    BY <1>1, <2>1, <2>3, ChannelStep DEF ChannelInv, TypeOK
<1> QED
  BY <1>3, <1>4

\* Data for the AGPS manager, and the failure of its requests.
LEMMA ChannelData ==
    ASSUME ChannelInv, NEW mask \in SUBSET Item, NEW reason \in Reason,
           ToAgpsData(agps, mask, reason),
           UNCHANGED <<gateway, nrh, psy, sent, readers, world>>
    PROVE  ChannelInv'
<1> USE DEF gateway, fixed, channels, readers, world
<1>1. closed' = closed /\ asked' = asked /\ Done' \in SUBSET SetSession
  BY DEF Done
<1>2. /\ nrh' \in RequestChannels(Truthful') /\ psy' \in PsyChannels(PsyTruthful')
      /\ agps \in AgpsChannels(Reason, Done')
  BY <1>1, TrafficGrows DEF ChannelInv
<1>3. /\ agps' \in AgpsChannels(Reason, Done') /\ AgpsIdleInv(agps')
      /\ agpsSent' \in News /\ agpsSent' = Known(agps', agpsRead)
  BY <1>1, <1>2, ToAgpsDataTyped DEF ChannelInv, TypeOK
<1> QED
  BY <1>1, <1>2, <1>3, ChannelStep DEF ChannelInv, TypeOK

\* ChannelInv is preserved by the callback that rejects a privacy request.
LEMMA ChannelReject ==
    ASSUME ChannelInv, RejectPrivacyRequest
    PROVE  ChannelInv'
<1> USE DEF RejectPrivacyRequest, gateway, fixed, channels, readers, world
<1>1. closed' = closed /\ asked' = asked
  OBVIOUS
<1>2. /\ nrh' \in RequestChannels(Truthful') /\ psy' \in PsyChannels(PsyTruthful')
      /\ agps' \in AgpsChannels(Reason, Done')
  BY <1>1, TrafficGrows DEF ChannelInv
<1> QED
  BY <1>1, <1>2, ChannelStep DEF ChannelInv, TypeOK

\* Requests of the clients: the module is remembered, or the session ends.
LEMMA DefaultPmTyped == loaded \subseteq Module => DefaultPm \in Module \union {None}
BY DEF DefaultPm

\* What Request remembers is a module or None.
LEMMA RequestTyped ==
    ASSUME TypeOK, NEW s \in SetSession, NEW m \in Module \union {None}, Request(s, m)
    PROVE  /\ moduleFor' \in [ClientKind -> Module \union {None}]
           /\ given' \in [SetSession -> Module \union {None}]
BY GatewayAssumption DEF TypeOK, Request

\* What the requests of the four clients have in common: the session goes to a
\* module, or it is completed at once.
LEMMA ChannelRequest ==
    ASSUME ChannelInv, NEW s \in SetSession, NEW k \in ClientKind, NewSession(s, k),
           moduleFor' \in [ClientKind -> Module \union {None}],
           given' \in [SetSession -> Module \union {None}],
           \/ UNCHANGED <<channels, closed, told>>
           \/ /\ SessionCompleted(s)
              /\ \/ UNCHANGED <<agps, agpsSent>>
                 \/ SelfCompleted(agps, s)
                 \/ /\ k = "self"
                    /\ agps' = SendSessionComplete(
                           SendAssistanceDataResponse(agps, {}, "error"), s)
                    /\ agpsSent' = [agpsSent EXCEPT !.generic = "error", !.complete = s],
           UNCHANGED <<fixed, status, loaded, reject, readLog, agpsRead, due,
                       asked, answered, locating, astray>>
    PROVE  ChannelInv'
<1> USE DEF gateway, fixed, channels, readers, world
<1>1. current' \in [ClientKind -> SetSession \union {None}]
  BY DEF NewSession, ChannelInv, TypeOK
<1>2. CASE UNCHANGED <<channels, closed, told>>
  <2>1. closed' = closed /\ asked' = asked
    BY <1>2
  <2>2. /\ nrh' \in RequestChannels(Truthful') /\ psy' \in PsyChannels(PsyTruthful')
        /\ agps' \in AgpsChannels(Reason, Done')
    BY <1>2, <2>1, TrafficGrows DEF ChannelInv
  <2> QED
    BY <1>1, <1>2, <2>1, <2>2, ChannelStep DEF ChannelInv, TypeOK
<1>3. CASE SessionCompleted(s)
  <2>0. s \in Session
    BY DEF Session
  <2>1. asked' = asked /\ closed' = closed \union {s} /\ told' = told
    BY <1>3 DEF SessionCompleted
  <2>2. /\ nrh' \in RequestChannels(Truthful') /\ SlotInv(nrh')
        /\ sent' \in [Session -> Nat] /\ psy' \in PsyChannels(PsyTruthful')
    BY <1>3, <2>0, <2>1, SessionCompletedTyped
  <2>3. /\ agps \in AgpsChannels(Reason, Done') /\ AgpsIdleInv(agps)
        /\ Done' \in SUBSET SetSession /\ s \in Done'
        /\ agpsSent \in News /\ agpsRead \in News /\ agpsSent = Known(agps, agpsRead)
    BY <2>1, TrafficGrows DEF ChannelInv, TypeOK, Done
  <2>4. /\ agps' \in AgpsChannels(Reason, Done') /\ AgpsIdleInv(agps')
        /\ agpsSent' \in News /\ agpsSent' = Known(agps', agpsRead)
    <3>1. CASE UNCHANGED <<agps, agpsSent>>
      BY <2>3, <3>1
    <3>2. CASE SelfCompleted(agps, s)
      BY <2>0, <2>3, <3>2, SelfCompletedTyped
    <3>3. CASE /\ agps' = SendSessionComplete(
                      SendAssistanceDataResponse(agps, {}, "error"), s)
               /\ agpsSent' = [agpsSent EXCEPT !.generic = "error", !.complete = s]
      <4> DEFINE mid == SendAssistanceDataResponse(agps, {}, "error")
      <4>1. {} \in SUBSET Item /\ "error" \in Reason
        BY DEF Reason
      <4>2. /\ mid \in AgpsChannels(Reason, Done') /\ AgpsIdleInv(mid)
            /\ Known(mid, agpsRead) = AddResult(agpsSent, {}, "error")
        BY <2>3, <4>1, SendAssistanceData
      <4>3. AddResult(agpsSent, {}, "error") = [agpsSent EXCEPT !.generic = "error"]
        BY DEF AddResult
      <4> HIDE DEF mid
      <4>4. /\ SendSessionComplete(mid, s) \in AgpsChannels(Reason, Done')
            /\ AgpsIdleInv(SendSessionComplete(mid, s))
            /\ Known(SendSessionComplete(mid, s), agpsRead)
               = [Known(mid, agpsRead) EXCEPT !.complete = s]
        BY <2>3, <4>2, SendComplete
      <4>5. agpsSent' \in News /\ agpsSent' = [Known(mid, agpsRead) EXCEPT !.complete = s]
        BY <2>3, <3>3, <4>2, <4>3 DEF News, Reason
      <4> QED
        BY <3>3, <4>4, <4>5 DEF mid
    <3> QED
      BY <1>2, <1>3, <2>3, <3>1, <3>2, <3>3
  <2>5. /\ closed \subseteq closed' /\ asked \subseteq asked'
        /\ asked' \subseteq NetSession /\ answered' \subseteq asked'
        /\ locating' \subseteq Session /\ closed' \subseteq Session
        /\ told' \subseteq SetSession \intersect closed'
        /\ readLog' \in [Session -> Seq(Nat)] /\ due' \subseteq EmergencyKind \X Session
        /\ \A t \in Session : <<"privacy", t>> \in due' => t \in asked'
        /\ agpsRead' \in News
    BY <2>0, <2>1 DEF ChannelInv, TypeOK
  <2>6. /\ strategy' = strategy /\ scene' = scene /\ loaded' \subseteq Module
        /\ status' \in {"none", "home", "roaming"}
        /\ reject' \in NetSession \union {None} /\ reject' \in asked' \union {None}
        /\ agpsRead' = agpsRead
    BY DEF ChannelInv, TypeOK
  <2> QED
    BY <1>1, <2>2, <2>4, <2>5, <2>6, ChannelStep
<1> QED
  BY <1>2, <1>3


\* ChannelInv is preserved by OnSelfLocationRequest.
LEMMA ChannelSelfLocation ==
    ASSUME ChannelInv, NEW s \in SetSession, OnSelfLocationRequest(s)
    PROVE  ChannelInv'
<1>1. DefaultPm \in Module \union {None}
  BY DefaultPmTyped DEF ChannelInv, TypeOK
<1>2. /\ moduleFor' \in [ClientKind -> Module \union {None}]
      /\ given' \in [SetSession -> Module \union {None}]
  BY <1>1, RequestTyped DEF OnSelfLocationRequest, ChannelInv
<1>3. "self" \in ClientKind /\ NewSession(s, "self")
  BY DEF OnSelfLocationRequest, ClientKind
<1>4. \/ UNCHANGED <<channels, closed, told>>
      \/ /\ SessionCompleted(s)
         /\ \/ SelfCompleted(agps, s)
            \/ /\ agps' = SendSessionComplete(
                      SendAssistanceDataResponse(agps, {}, "error"), s)
               /\ agpsSent' = [agpsSent EXCEPT !.generic = "error", !.complete = s]
  BY Zenon DEF OnSelfLocationRequest
<1>5. UNCHANGED <<fixed, status, loaded, reject, readLog, agpsRead, due,
                  asked, answered, locating, astray>>
  BY DEF OnSelfLocationRequest
<1> QED
  BY <1>2, <1>3, <1>4, <1>5, ChannelRequest, Zenon

\* ChannelInv is preserved by the request of the network location manager.
LEMMA ChannelNetworkLocation ==
    ASSUME ChannelInv, NEW s \in SetSession, NetworkLocationRequest(s)
    PROVE  ChannelInv'
<1>1. DefaultPm \in Module \union {None}
  BY DefaultPmTyped DEF ChannelInv, TypeOK
<1>2. /\ moduleFor' \in [ClientKind -> Module \union {None}]
      /\ given' \in [SetSession -> Module \union {None}]
  BY <1>1, RequestTyped DEF NetworkLocationRequest, ChannelInv
<1>3. "net" \in ClientKind /\ NewSession(s, "net")
  BY DEF NetworkLocationRequest, ClientKind
<1>4. \/ UNCHANGED <<channels, closed, told>>
      \/ SessionCompleted(s) /\ UNCHANGED <<agps, agpsSent>>
  BY Zenon DEF NetworkLocationRequest
<1>5. UNCHANGED <<fixed, status, loaded, reject, readLog, agpsRead, due,
                  asked, answered, locating, astray>>
  BY DEF NetworkLocationRequest
<1> QED
  BY <1>2, <1>3, <1>4, <1>5, ChannelRequest, Zenon

\* ChannelInv is preserved by the request of the X3P handler.
LEMMA ChannelTransmitLocation ==
    ASSUME ChannelInv, NEW s \in SetSession, TransmitLocationRequest(s)
    PROVE  ChannelInv'
<1>1. DefaultPm \in Module \union {None}
  BY DefaultPmTyped DEF ChannelInv, TypeOK
<1>2. /\ moduleFor' \in [ClientKind -> Module \union {None}]
      /\ given' \in [SetSession -> Module \union {None}]
  BY <1>1, RequestTyped DEF TransmitLocationRequest, ChannelInv
<1>3. "x3p" \in ClientKind /\ NewSession(s, "x3p")
  BY DEF TransmitLocationRequest, ClientKind
<1>4. \/ UNCHANGED <<channels, closed, told>>
      \/ SessionCompleted(s) /\ UNCHANGED <<agps, agpsSent>>
  BY Zenon DEF TransmitLocationRequest
<1>5. UNCHANGED <<fixed, status, loaded, reject, readLog, agpsRead, due,
                  asked, answered, locating, astray>>
  BY DEF TransmitLocationRequest
<1> QED
  BY <1>2, <1>3, <1>4, <1>5, ChannelRequest, Zenon

\* ChannelInv is preserved by the request of the SUPL PSY.
LEMMA ChannelPsyLocation ==
    ASSUME ChannelInv, NEW s \in SetSession, NEW m \in Module \union {None},
           PsyLocationRequest(s, m)
    PROVE  ChannelInv'
<1>2. /\ moduleFor' \in [ClientKind -> Module \union {None}]
      /\ given' \in [SetSession -> Module \union {None}]
  <2>1. CASE Request(s, m)
    BY <2>1, RequestTyped DEF ChannelInv
  <2>2. CASE UNCHANGED <<moduleFor, given>>
    BY <2>2 DEF ChannelInv, TypeOK
  <2> QED
    BY <2>1, <2>2 DEF PsyLocationRequest
<1>3. "psy" \in ClientKind /\ NewSession(s, "psy")
  BY DEF PsyLocationRequest, ClientKind
<1>4. \/ UNCHANGED <<channels, closed, told>>
      \/ SessionCompleted(s) /\ UNCHANGED <<agps, agpsSent>>
  BY DEF PsyLocationRequest
<1>5. UNCHANGED <<fixed, status, loaded, reject, readLog, agpsRead, due,
                  asked, answered, locating, astray>>
  BY DEF PsyLocationRequest
<1> QED
  BY <1>2, <1>3, <1>4, <1>5, ChannelRequest, Zenon

\* Steps that leave the channels alone.
LEMMA ChannelQuiet ==
    ASSUME ChannelInv, UNCHANGED <<channels, closed, asked, strategy, scene, moduleFor,
                                   reject, readLog, agpsRead, told, current, given>>,
           status' \in {"none", "home", "roaming"}, loaded' \subseteq Module,
           answered' \subseteq asked, locating' \subseteq Session, due' \subseteq due
    PROVE  ChannelInv'
<1>1. closed' = closed /\ asked' = asked
  OBVIOUS
<1>2. /\ nrh' \in RequestChannels(Truthful') /\ psy' \in PsyChannels(PsyTruthful')
      /\ agps' \in AgpsChannels(Reason, Done')
  BY <1>1, TrafficGrows DEF ChannelInv, channels
<1> QED
  BY <1>1, <1>2, ChannelStep DEF ChannelInv, TypeOK, channels

\* The readers.
LEMMA ChannelNrhReads ==
    ASSUME ChannelInv, NrhReads
    PROVE  ChannelInv'
<1> USE DEF NrhReads, gateway, fixed, channels, readers, world
<1>1. closed' = closed /\ asked' = asked
  OBVIOUS
<1> DEFINE m == nrh.unread
<1>2. m \in Truthful
  BY DEF ChannelInv, RequestChannels
<1>3. m \in SessionMessage /\ m.session \in Session /\ m.n \in Nat
  BY <1>2 DEF Truthful, SessionMessage
<1>4. readLog' \in [Session -> Seq(Nat)]
  BY <1>3 DEF ChannelInv, TypeOK
<1>5. due' \subseteq EmergencyKind \X Session
  BY <1>3 DEF ChannelInv, TypeOK
<1>6. \A s \in Session : <<"privacy", s>> \in due' => s \in asked'
  BY <1>1, <1>2, <1>3 DEF ChannelInv, Truthful
<1>7. told' \subseteq SetSession \intersect closed'
  BY <1>1, <1>2 DEF ChannelInv, TypeOK, Truthful, IsClient
<1>8. nrh' \in RequestChannels(Truthful') /\ SlotInv(nrh')
  <2>1. nrh \in RequestChannels(Truthful')
    BY <1>1, TrafficGrows DEF ChannelInv
  <2>2. nrh' = [nrh EXCEPT !.unread = None]
    OBVIOUS
  <2> QED
    BY <2>1, <2>2 DEF RequestChannels, SlotInv, ChannelInv
<1>9. psy' \in PsyChannels(PsyTruthful') /\ agps' \in AgpsChannels(Reason, Done')
  BY <1>1, TrafficGrows DEF ChannelInv
<1> QED
  BY <1>1, <1>4, <1>5, <1>6, <1>7, <1>8, <1>9, ChannelStep DEF ChannelInv, TypeOK

\* ChannelInv is preserved when the AGPS manager reads.
LEMMA ChannelAgpsReads ==
    ASSUME ChannelInv, AgpsReads
    PROVE  ChannelInv'
<1> USE DEF AgpsReads, gateway, fixed, channels, readers, world
<1>1. closed' = closed /\ asked' = asked
  OBVIOUS
<1>2. nrh' \in RequestChannels(Truthful') /\ psy' \in PsyChannels(PsyTruthful')
  BY <1>1, TrafficGrows DEF ChannelInv
<1>3. Done \in SUBSET SetSession /\ Done' = Done
  BY <1>1 DEF Done
<1>4. agpsRead' = Seen(agps, agpsRead)
  BY DEF Seen
<1>5. agpsRead' \in News
  BY <1>3, <1>4, SeenTyped DEF ChannelInv, TypeOK
<1>6. /\ agps' \in AgpsChannels(Reason, Done') /\ AgpsIdleInv(agps')
      /\ Known(agps', agpsRead') = Known(agps, agpsRead)
  BY <1>3, <1>4, ReadAgps DEF ChannelInv, TypeOK
<1>7. told' \subseteq SetSession \intersect closed'
  <2>1. CASE agps.unread.type = "complete"
    <3>1. agps.unread \in AgpsMessages(Reason, Done)
      BY DEF ChannelInv, AgpsChannels
    <3>2. agps.unread.session \in Done
      BY <2>1, <3>1 DEF AgpsMessages
    <3> QED
      BY <1>1, <2>1, <3>2 DEF ChannelInv, TypeOK, Done
  <2>2. CASE agps.unread.type # "complete"
    BY <1>1, <2>2 DEF ChannelInv, TypeOK
  <2> QED
    BY <2>1, <2>2
<1> QED
  BY <1>1, <1>2, <1>5, <1>6, <1>7, ChannelStep DEF ChannelInv, TypeOK

\* ChannelInv is preserved when the SUPL PSY reads.
LEMMA ChannelPsyReads ==
    ASSUME ChannelInv, PsyReads
    PROVE  ChannelInv'
<1> USE DEF PsyReads, gateway, fixed, channels, readers, world
<1>1. closed' = closed /\ asked' = asked
  OBVIOUS
<1>2. nrh' \in RequestChannels(Truthful') /\ agps' \in AgpsChannels(Reason, Done')
  BY <1>1, TrafficGrows DEF ChannelInv
<1>3. psy' \in PsyChannels(PsyTruthful')
  <2>1. psy \in PsyChannels(PsyTruthful')
    BY <1>1, TrafficGrows DEF ChannelInv
  <2> QED
    BY <2>1 DEF PsyChannels
<1>4. told' \subseteq SetSession \intersect closed'
  <2>1. psy.unread \in PsyTruthful
    BY DEF ChannelInv, PsyChannels
  <2> QED
    BY <1>1, <2>1 DEF ChannelInv, TypeOK, PsyTruthful, Done
<1> QED
  BY <1>1, <1>2, <1>3, <1>4, ChannelStep DEF ChannelInv, TypeOK

\* ChannelInv is preserved by RunL of each channel.
LEMMA ChannelRunL ==
    ASSUME ChannelInv, NrhRunL \/ AgpsChannelRunL \/ PsyRunL
    PROVE  ChannelInv'
<1> USE DEF gateway, fixed, channels, readers, world
<1>1. closed' = closed /\ asked' = asked
  BY DEF NrhRunL, AgpsChannelRunL, PsyRunL
<1>2. /\ nrh \in RequestChannels(Truthful') /\ psy \in PsyChannels(PsyTruthful')
      /\ agps \in AgpsChannels(Reason, Done')
  BY <1>1, TrafficGrows DEF ChannelInv
<1>3. CASE NrhRunL
  <2>1. nrh' \in RequestChannels(Truthful') /\ SlotInv(nrh')
    <3>1. nrh' = RequestRunL(nrh)
      BY <1>3 DEF NrhRunL
    <3>2. \A i \in 1 .. Len(nrh.emergency) : nrh.slot[nrh.emergency[i]] # None
      BY DEF ChannelInv, SlotInv
    <3>3. nrh' \in RequestChannels(Truthful')
      BY <1>2, <3>1, <3>2, RequestRunLTyped
    <3>4. SlotInv(nrh')
      BY <1>2, <3>1, SlotKeptRunL DEF ChannelInv
    <3> QED
      BY <3>3, <3>4
  <2> QED
    BY <1>1, <1>2, <1>3, <2>1, ChannelStep DEF ChannelInv, TypeOK, NrhRunL
<1>4. CASE AgpsChannelRunL
  <2>1. /\ agps' \in AgpsChannels(Reason, Done') /\ AgpsIdleInv(agps')
        /\ Known(agps', agpsRead) = Known(agps, agpsRead)
    <3>1. Done' \in SUBSET SetSession
      BY DEF Done
    <3> QED
      BY <1>2, <1>4, <3>1, RunAgps DEF AgpsChannelRunL, ChannelInv, TypeOK
  <2> QED
    BY <1>1, <1>2, <1>4, <2>1, ChannelStep DEF ChannelInv, TypeOK, AgpsChannelRunL
<1>5. CASE PsyRunL
  <2>1. psy' \in PsyChannels(PsyTruthful')
    BY <1>2, <1>5, SendNextTyped DEF PsyRunL
  <2> QED
    BY <1>1, <1>2, <1>5, <2>1, ChannelStep DEF ChannelInv, TypeOK, PsyRunL
<1> QED
  BY <1>3, <1>4, <1>5


\* Every step keeps the invariant.
LEMMA ChannelNext == ChannelInv /\ [Next]_vars => ChannelInv'
<1> SUFFICES ASSUME ChannelInv, [Next]_vars
             PROVE  ChannelInv'
  OBVIOUS
<1>1. CASE ModuleCalls
  <2>1. ASSUME NEW s \in Session,
               \/ ProcessLocationRequest(s) \/ ProcessLocationUpdate(s)
               \/ ProcessSessionComplete(s)
        PROVE  ChannelInv'
    BY <2>1, ChannelLocationRequest, ChannelLocationUpdate, ChannelSessionComplete
  <2>2. ASSUME NEW s \in NetSession, ProcessPrivacyRequest(s)
        PROVE  ChannelInv'
    BY <2>2, ChannelPrivacyRequest
  <2>3. ASSUME NEW mask \in Masks, NEW reason \in Reason, ProcessAssistanceData(mask, reason)
        PROVE  ChannelInv'
    <3>1. mask \in SUBSET Item
      BY GatewayAssumption
    <3> QED
      BY <2>3, <3>1, ChannelData DEF ProcessAssistanceData
  <2> QED
    BY <1>1, <2>1, <2>2, <2>3 DEF ModuleCalls
<1>2. CASE ClientCalls
  <2>1. ASSUME NEW s \in SetSession,
               \/ OnSelfLocationRequest(s) \/ NetworkLocationRequest(s)
               \/ TransmitLocationRequest(s)
               \/ \E m \in Module \union {None} : PsyLocationRequest(s, m)
        PROVE  ChannelInv'
    BY <2>1, ChannelSelfLocation, ChannelNetworkLocation, ChannelTransmitLocation,
       ChannelPsyLocation
  <2>2. ASSUME NEW k \in ClientKind, Cancel(k)
        PROVE  ChannelInv'
    BY <2>2, ChannelQuiet DEF Cancel, ChannelInv, TypeOK, gateway, fixed, readers
  <2>3. ASSUME NEW mask \in Masks, OnAssistanceDataRequest(mask)
        PROVE  ChannelInv'
    <3>1. mask \in SUBSET Item /\ "error" \in Reason
      BY GatewayAssumption DEF Reason
    <3> QED
      BY <2>3, <3>1, ChannelData DEF OnAssistanceDataRequest
  <2> QED
    BY <1>2, <2>1, <2>2, <2>3 DEF ClientCalls
<1>3. CASE Responses
  <2>1. ASSUME NEW s \in Session, LocationResponse(s)
        PROVE  ChannelInv'
    BY <2>1, ChannelQuiet DEF LocationResponse, ChannelInv, TypeOK, gateway, fixed
  <2>2. ASSUME NEW s \in NetSession, PrivacyResponse(s)
        PROVE  ChannelInv'
    BY <2>2, ChannelQuiet DEF PrivacyResponse, ChannelInv, TypeOK, gateway, fixed, Session
  <2> QED
    BY <1>3, <2>1, <2>2 DEF Responses
<1>4. ASSUME NEW new \in {"none", "home", "roaming"}, OnNetworkRegistrationStatusChange(new)
      PROVE  ChannelInv'
  <2>1. loaded' \subseteq Module
    BY <1>4, GatewayAssumption DEF OnNetworkRegistrationStatusChange, Configured, ChannelInv, TypeOK
  <2> QED
    BY <1>4, <2>1, ChannelQuiet
       DEF OnNetworkRegistrationStatusChange, ChannelInv, TypeOK, fixed, readers, world
<1>5. CASE UNCHANGED vars
  BY <1>5, ChannelQuiet DEF vars, gateway, fixed, readers, world, ChannelInv, TypeOK
<1> QED
  BY <1>1, <1>2, <1>3, <1>4, <1>5, ChannelReject, ChannelNrhReads, ChannelAgpsReads,
     ChannelPsyReads, ChannelRunL
     DEF Next

\* The channels agree with what was sent and read in every state.
LEMMA ChannelInvariant == Spec => []ChannelInv
  BY ChannelInit, ChannelNext, PTL DEF Spec

\* Every variable keeps its type; what the receivers of completions are told
\* is true.
THEOREM GatewayTypes == Spec => []TypeOK
<1>1. ChannelInv => TypeOK
  BY DEF ChannelInv
<1> QED
  BY <1>1, ChannelInvariant, PTL

\* For each item of assistance data, for errors without items and for
\* completions, what the AGPS manager has read or will read last is the
\* latest that the gateway was given, in whatever order the buffers give it.
THEOREM AgpsManagerUpToDate == Spec => []AgpsUpToDate
<1>1. ChannelInv => AgpsUpToDate
  BY DEF ChannelInv, AgpsUpToDate, Known, Seen, Latest
<1> QED
  BY <1>1, ChannelInvariant, PTL

-----------------------------------------------------------------------------
(***************************************************************************)
(* Where calls go.  The latest session of a client has the module that is  *)
(* remembered for the client, or none, and then it is closed.              *)
(***************************************************************************)
RouteInv ==
    /\ \A k \in ClientKind :
          current[k] # None =>
              /\ IsClient(current[k], k)
              /\ IF given[current[k]] = None THEN current[k] \in closed
                 ELSE moduleFor[k] = given[current[k]]
    /\ \A s \in SetSession :
          <<"cancel", s>> \in astray => given[s] = None /\ s \in closed

\* No session has been given to a module yet.
LEMMA RouteInit == Init => RouteInv
  BY DEF Init, RouteInv

\* A new session of a client takes the place of the latest one.
LEMMA RouteRequest ==
    ASSUME TypeOK, RouteInv, NEW s \in SetSession, NEW k \in ClientKind, NewSession(s, k),
           \/ \E m \in Module : Request(s, m) /\ closed' = closed
           \/ /\ closed' = closed \union {s}
              /\ Request(s, None) \/ UNCHANGED <<moduleFor, given>>,
           astray' = astray
    PROVE  RouteInv'
<1>1. /\ Client[s] = k /\ given[s] = None /\ s \notin closed /\ s # None
      /\ current' = [current EXCEPT ![k] = s] /\ current \in [ClientKind -> SetSession \union {None}]
  BY NoneIsNothing DEF NewSession, IsClient, TypeOK
<1>2. <<"cancel", s>> \notin astray
  BY <1>1 DEF RouteInv
<1>3. ASSUME NEW m \in Module, Request(s, m), closed' = closed
      PROVE  RouteInv'
  <2>1. /\ given' = [given EXCEPT ![s] = m] /\ given \in [SetSession -> Module \union {None}]
        /\ moduleFor' = [moduleFor EXCEPT ![k] = m]
        /\ moduleFor \in [ClientKind -> Module \union {None}] /\ m # None
    BY <1>1, <1>3, GatewayAssumption DEF Request, TypeOK
  <2>2. ASSUME NEW j \in ClientKind, current'[j] # None
        PROVE  /\ IsClient(current'[j], j)
               /\ IF given'[current'[j]] = None THEN current'[j] \in closed'
                  ELSE moduleFor'[j] = given'[current'[j]]
    <3>1. CASE j = k
      BY <1>1, <2>1, <3>1 DEF IsClient
    <3>2. CASE j # k
      <4>1. current'[j] = current[j] /\ moduleFor'[j] = moduleFor[j] /\ IsClient(current[j], j)
        BY <1>1, <2>1, <2>2, <3>2 DEF RouteInv
      <4>2. current[j] # s /\ current[j] \in SetSession
        BY <1>1, <3>2, <4>1 DEF IsClient
      <4> QED
        BY <1>3, <2>1, <2>2, <4>1, <4>2 DEF RouteInv
    <3> QED
      BY <3>1, <3>2
  <2>3. ASSUME NEW t \in SetSession, <<"cancel", t>> \in astray'
        PROVE  given'[t] = None /\ t \in closed'
    BY <1>2, <1>3, <2>1, <2>3 DEF RouteInv
  <2> QED
    BY <2>2, <2>3 DEF RouteInv
<1>4. ASSUME closed' = closed \union {s}, Request(s, None) \/ UNCHANGED <<moduleFor, given>>
      PROVE  RouteInv'
  <2>1. given' = given
    BY <1>1, <1>4 DEF Request, TypeOK
  <2>2. ASSUME NEW j \in ClientKind, current'[j] # None
        PROVE  /\ IsClient(current'[j], j)
               /\ IF given'[current'[j]] = None THEN current'[j] \in closed'
                  ELSE moduleFor'[j] = given'[current'[j]]
    <3>1. CASE j = k
      BY <1>1, <1>4, <2>1, <3>1 DEF IsClient
    <3>2. CASE j # k
      <4>1. current'[j] = current[j] /\ moduleFor'[j] = moduleFor[j]
        BY <1>1, <1>4, <3>2 DEF Request, TypeOK
      <4> QED
        BY <1>4, <2>1, <2>2, <4>1 DEF RouteInv
    <3> QED
      BY <3>1, <3>2
  <2>3. ASSUME NEW t \in SetSession, <<"cancel", t>> \in astray'
        PROVE  given'[t] = None /\ t \in closed'
    BY <1>4, <2>1, <2>3 DEF RouteInv
  <2> QED
    BY <2>2, <2>3 DEF RouteInv
<1> QED
  BY <1>3, <1>4

\* Calls that do not concern the clients' latest sessions.
LEMMA RouteQuiet ==
    ASSUME RouteInv, UNCHANGED <<current, given, moduleFor>>, closed \subseteq closed',
           \A s \in SetSession : <<"cancel", s>> \in astray' => <<"cancel", s>> \in astray
    PROVE  RouteInv'
BY DEF RouteInv

\* Every step keeps the module of the latest session of each client.
LEMMA RouteNext == TypeOK /\ RouteInv /\ [Next]_vars => RouteInv'
<1> SUFFICES ASSUME TypeOK, RouteInv, [Next]_vars
             PROVE  RouteInv'
  OBVIOUS
<1> USE DEF gateway, fixed, channels, readers, world
<1>1. CASE ModuleCalls
  BY <1>1, RouteQuiet DEF ModuleCalls, ProcessLocationRequest, ProcessLocationUpdate,
     ProcessSessionComplete, ProcessPrivacyRequest, ProcessAssistanceData, SessionCompleted
<1>2. ASSUME NEW s \in SetSession, OnSelfLocationRequest(s)
      PROVE  RouteInv'
  <2>1. NewSession(s, "self") /\ Request(s, DefaultPm) /\ astray' = astray /\ "self" \in ClientKind
    BY <1>2 DEF OnSelfLocationRequest, ClientKind
  <2>2. IF DefaultPm # None THEN closed' = closed ELSE closed' = closed \union {s}
    BY <1>2 DEF OnSelfLocationRequest, SessionCompleted
  <2> QED
    BY <2>1, <2>2, DefaultPmTyped, RouteRequest DEF TypeOK
<1>3. ASSUME NEW s \in SetSession, NetworkLocationRequest(s)
      PROVE  RouteInv'
  <2>1. NewSession(s, "net") /\ Request(s, DefaultPm) /\ astray' = astray /\ "net" \in ClientKind
    BY <1>3 DEF NetworkLocationRequest, ClientKind
  <2>2. IF DefaultPm # None THEN closed' = closed ELSE closed' = closed \union {s}
    BY <1>3 DEF NetworkLocationRequest, SessionCompleted
  <2> QED
    BY <2>1, <2>2, DefaultPmTyped, RouteRequest DEF TypeOK
<1>4. ASSUME NEW s \in SetSession, TransmitLocationRequest(s)
      PROVE  RouteInv'
  <2>1. NewSession(s, "x3p") /\ Request(s, DefaultPm) /\ astray' = astray /\ "x3p" \in ClientKind
    BY <1>4 DEF TransmitLocationRequest, ClientKind
  <2>2. IF DefaultPm # None THEN closed' = closed ELSE closed' = closed \union {s}
    BY <1>4 DEF TransmitLocationRequest, SessionCompleted
  <2> QED
    BY <2>1, <2>2, DefaultPmTyped, RouteRequest DEF TypeOK
<1>5. ASSUME NEW s \in SetSession, NEW m \in Module \union {None}, PsyLocationRequest(s, m)
      PROVE  RouteInv'
  <2>1. NewSession(s, "psy") /\ astray' = astray /\ "psy" \in ClientKind
    BY <1>5 DEF PsyLocationRequest, ClientKind
  <2>2. IF m # None THEN Request(s, m) /\ closed' = closed
        ELSE closed' = closed \union {s} /\ UNCHANGED <<moduleFor, given>>
    BY <1>5 DEF PsyLocationRequest, SessionCompleted
  <2> QED
    BY <2>1, <2>2, RouteRequest
<1>6. ASSUME NEW k \in ClientKind, Cancel(k)
      PROVE  RouteInv'
  <2> DEFINE c == current[k]
  <2>1. UNCHANGED <<current, given, moduleFor, closed>> /\ c # None
    BY <1>6 DEF Cancel
  <2>2. c \in SetSession /\ c \notin NetSession /\ ModuleOf(c) = given[c]
    BY <2>1, GatewayAssumption DEF RouteInv, IsClient, ModuleOf
  <2>3. CASE given[c] = None
    <3>1. astray' \subseteq astray \union {<<"cancel", c>>}
      BY <1>6 DEF Cancel, CallModule
    <3> QED
      BY <2>1, <2>3, <3>1 DEF RouteInv
  <2>4. CASE given[c] # None
    <3>1. moduleFor[k] = ModuleOf(c)
      BY <2>1, <2>2, <2>4 DEF RouteInv
    <3>2. astray' = astray
      BY <1>6, <3>1 DEF Cancel, CallModule
    <3> QED
      BY <2>1, <3>2, RouteQuiet
  <2> QED
    BY <2>3, <2>4
<1>7. ASSUME NEW mask \in Masks, OnAssistanceDataRequest(mask)
      PROVE  RouteInv'
  BY <1>7, RouteQuiet DEF OnAssistanceDataRequest
<1>8. CASE Responses
  <2>1. \E s \in Session, what \in {"response", "privacy"} :
            astray' \subseteq astray \union {<<what, s>>}
    BY <1>8 DEF Responses, LocationResponse, PrivacyResponse, CallModule, Session
  <2>2. UNCHANGED <<current, given, moduleFor, closed>>
    BY <1>8 DEF Responses, LocationResponse, PrivacyResponse
  <2> QED
    BY <2>1, <2>2, RouteQuiet
<1>9. CASE \E new \in {"none", "home", "roaming"} : OnNetworkRegistrationStatusChange(new)
  BY <1>9, RouteQuiet DEF OnNetworkRegistrationStatusChange
<1>10. CASE \/ RejectPrivacyRequest \/ NrhReads \/ AgpsReads \/ PsyReads
            \/ NrhRunL \/ AgpsChannelRunL \/ PsyRunL
  BY <1>10, RouteQuiet DEF RejectPrivacyRequest, NrhReads, AgpsReads, PsyReads, NrhRunL,
     AgpsChannelRunL, PsyRunL
<1>11. CASE UNCHANGED vars
  BY <1>11, RouteQuiet DEF vars
<1> QED
  BY <1>1, <1>2, <1>3, <1>4, <1>5, <1>6, <1>7, <1>8, <1>9, <1>10, <1>11 DEF Next, ClientCalls

\* However often the registration changes and new sessions start, the cancel
\* of a session goes to the module that was given its request.
THEOREM CancelsFollowSessions == Spec => []CancelsReachTheirModule
<1>1. RouteInv => CancelsReachTheirModule
  BY DEF RouteInv, CancelsReachTheirModule
<1> QED
  BY <1>1, RouteInit, RouteNext, GatewayTypes, PTL DEF Spec

-----------------------------------------------------------------------------
(***************************************************************************)
(* Privacy requests.  The numbers of messages sent only grow.              *)
(***************************************************************************)
LEMMA ToNrhCounts ==
    ASSUME TypeOK, NEW s \in Session, NEW type, ToNrh(s, type)
    PROVE  sent' = [sent EXCEPT ![s] = sent[s] + 1]
BY DEF ToNrh, TypeOK

\* A step sends at most one message to the NRH, which is numbered.
LEMMA SentGrows ==
    ASSUME TypeOK, [Next]_vars
    PROVE  sent' = sent \/ \E t \in Session : sent' = [sent EXCEPT ![t] = sent[t] + 1]
<1> USE DEF gateway, fixed, channels, readers, world
<1>1. CASE ModuleCalls
  BY <1>1, ToNrhCounts DEF ModuleCalls, ProcessLocationRequest, ProcessLocationUpdate,
     ProcessSessionComplete, ProcessPrivacyRequest, ProcessAssistanceData, SessionCompleted,
     Session
<1>2. CASE ClientCalls
  BY <1>2, ToNrhCounts DEF ClientCalls, OnSelfLocationRequest, NetworkLocationRequest,
     TransmitLocationRequest, PsyLocationRequest, SessionCompleted, Cancel,
     OnAssistanceDataRequest, Session
<1>3. CASE Responses \/ \E new \in {"none", "home", "roaming"} : OnNetworkRegistrationStatusChange(new)
  BY <1>3 DEF Responses, LocationResponse, PrivacyResponse, OnNetworkRegistrationStatusChange
<1>4. CASE \/ RejectPrivacyRequest \/ NrhReads \/ AgpsReads \/ PsyReads
           \/ NrhRunL \/ AgpsChannelRunL \/ PsyRunL
  BY <1>4 DEF RejectPrivacyRequest, NrhReads, AgpsReads, PsyReads, NrhRunL,
     AgpsChannelRunL, PsyRunL
<1>5. CASE UNCHANGED vars
  BY <1>5 DEF vars
<1> QED
  BY <1>1, <1>2, <1>3, <1>4, <1>5 DEF Next

\* No step drops a privacy request.
LEMMA PrivacyNext == TypeOK /\ PrivacyRequestKept /\ [Next]_vars => PrivacyRequestKept'
<1> SUFFICES ASSUME TypeOK, PrivacyRequestKept, [Next]_vars
             PROVE  PrivacyRequestKept'
  OBVIOUS
<1> USE DEF gateway, fixed, channels, readers, world
<1>1. /\ asked \subseteq Session
      /\ \A s \in Session : sent[s] > 0 => sent'[s] > 0
  BY SentGrows DEF TypeOK, Session
<1>2. ASSUME asked' = asked, answered \subseteq answered', reject' = reject
      PROVE  PrivacyRequestKept'
  BY <1>1, <1>2 DEF PrivacyRequestKept
<1>3. ASSUME NEW s \in NetSession, ProcessPrivacyRequest(s)
      PROVE  PrivacyRequestKept'
  <2>1. /\ asked' = asked \union {s} /\ answered' = answered /\ reject = None
        /\ reject' = s \/ (reject' = reject /\ ToNrh(s, "privacy"))
    BY <1>3 DEF ProcessPrivacyRequest, Call
  <2>2. \A t \in asked : t # None
    BY <1>1, GatewayAssumption DEF TypeOK, Session
  <2>3. ToNrh(s, "privacy") => sent'[s] > 0
    BY ToNrhCounts DEF TypeOK, Session
  <2> QED
    BY <1>1, <2>1, <2>2, <2>3 DEF PrivacyRequestKept
<1>4. CASE RejectPrivacyRequest
  BY <1>1, <1>4 DEF RejectPrivacyRequest, PrivacyRequestKept
<1>5. CASE ModuleCalls
  <2>1. ASSUME NEW s \in Session,
               \/ ProcessLocationRequest(s) \/ ProcessLocationUpdate(s)
               \/ ProcessSessionComplete(s)
        PROVE  asked' = asked /\ answered' = answered /\ reject' = reject
    BY <2>1 DEF ProcessLocationRequest, ProcessLocationUpdate, ProcessSessionComplete
  <2>2. ASSUME NEW mask \in Masks, NEW reason \in Reason, ProcessAssistanceData(mask, reason)
        PROVE  asked' = asked /\ answered' = answered /\ reject' = reject
    BY <2>2 DEF ProcessAssistanceData
  <2> QED
    BY <1>2, <1>3, <1>5, <2>1, <2>2 DEF ModuleCalls
<1>6. CASE ClientCalls
  BY <1>2, <1>6 DEF ClientCalls, OnSelfLocationRequest, NetworkLocationRequest,
     TransmitLocationRequest, PsyLocationRequest, Cancel, OnAssistanceDataRequest
<1>7. CASE Responses \/ \E new \in {"none", "home", "roaming"} : OnNetworkRegistrationStatusChange(new)
  BY <1>2, <1>7 DEF Responses, LocationResponse, PrivacyResponse, OnNetworkRegistrationStatusChange
<1>8. CASE \/ NrhReads \/ AgpsReads \/ PsyReads \/ NrhRunL \/ AgpsChannelRunL \/ PsyRunL
  BY <1>2, <1>8 DEF NrhReads, AgpsReads, PsyReads, NrhRunL, AgpsChannelRunL, PsyRunL
<1>9. CASE UNCHANGED vars
  BY <1>2, <1>9 DEF vars
<1> QED
  BY <1>4, <1>5, <1>6, <1>7, <1>8, <1>9 DEF Next

\* A privacy request is answered, is going to be rejected, or went to the NRH.
THEOREM PrivacyRequestsKept == Spec => []PrivacyRequestKept
<1>1. Init => PrivacyRequestKept
  BY DEF Init, PrivacyRequestKept
<1> QED
  BY <1>1, PrivacyNext, GatewayTypes, PTL DEF Spec

-----------------------------------------------------------------------------
(***************************************************************************)
(* Loading by registration status.  A set that was loaded has its first    *)
(* module, which keeps the other set from being loaded.  The first module  *)
(* must not fail to load, unless the others serve both networks.           *)
(***************************************************************************)
FirstModulesLoad ==
    /\ HomePm \notin Broken \/ Home \ {HomePm} \subseteq Roaming
    /\ RoamingPm \notin Broken \/ Roaming \ {RoamingPm} \subseteq Home

LoadInv ==
    strategy = "by_status" =>
        \/ loaded \subseteq Home \intersect Roaming
        \/ loaded \subseteq Home /\ HomePm \in loaded
        \/ loaded \subseteq Roaming /\ RoamingPm \in loaded

\* No step loads modules of a second network.
LEMMA LoadNext == FirstModulesLoad /\ LoadInv /\ [Next]_vars => LoadInv'
<1> SUFFICES ASSUME FirstModulesLoad, LoadInv, [Next]_vars
             PROVE  LoadInv'
  OBVIOUS
<1>1. CASE loaded' = loaded /\ strategy' = strategy
  BY <1>1 DEF LoadInv
<1>2. ASSUME NEW new \in {"none", "home", "roaming"}, OnNetworkRegistrationStatusChange(new)
      PROVE  LoadInv'
  BY <1>2, GatewayAssumption
     DEF OnNetworkRegistrationStatusChange, OtherSetLoaded, Configured, LoadInv,
         FirstModulesLoad, fixed
<1>3. CASE ModuleCalls \/ ClientCalls \/ Responses
  BY <1>1, <1>3 DEF ModuleCalls, ProcessLocationRequest, ProcessLocationUpdate,
     ProcessSessionComplete, ProcessPrivacyRequest, ProcessAssistanceData,
     ClientCalls, OnSelfLocationRequest, NetworkLocationRequest,
     TransmitLocationRequest, PsyLocationRequest, Cancel, OnAssistanceDataRequest,
     Responses, LocationResponse, PrivacyResponse, gateway, fixed
<1>4. CASE \/ RejectPrivacyRequest \/ NrhReads \/ AgpsReads \/ PsyReads
           \/ NrhRunL \/ AgpsChannelRunL \/ PsyRunL \/ UNCHANGED vars
  BY <1>1, <1>4 DEF RejectPrivacyRequest, NrhReads, AgpsReads, PsyReads, NrhRunL,
     AgpsChannelRunL, PsyRunL, vars, gateway, fixed
<1> QED
  BY <1>2, <1>3, <1>4 DEF Next

\* Where the first module of each network loads, or the rest of its modules
\* serve both networks, whatever the others do and
\* in whatever order the registration changes, the modules of one network
\* are loaded at a time.
THEOREM OneSetAtATime == FirstModulesLoad => (Spec => []OneSetLoaded)
<1> SUFFICES ASSUME FirstModulesLoad
             PROVE  Spec => []OneSetLoaded
  OBVIOUS
<1>1. Init => LoadInv
  BY DEF Init, LoadInv
<1>2. LoadInv => OneSetLoaded
  BY DEF LoadInv, OneSetLoaded
<1>3. LoadInv /\ [Next]_vars => LoadInv'
  BY LoadNext
<1> QED
  BY <1>1, <1>2, <1>3, PTL DEF Spec

-----------------------------------------------------------------------------
(***************************************************************************)
(* The order of the messages to the NRH.  Of a session that is no          *)
(* emergency the NRH has read the first messages, the next may be in the   *)
(* channel, and the buffer holds the rest.                                 *)
(***************************************************************************)

\* Of the messages of s, q holds number low + 1 to number high, in order.
Holds(q, s, low, high) ==
    /\ low <= high
    /\ \A i \in 1 .. Len(q) : q[i].session = s => q[i].n \in low + 1 .. high
    /\ \A i, j \in 1 .. Len(q) :
          i < j /\ q[i].session = s /\ q[j].session = s => q[i].n < q[j].n
    /\ \A v \in low + 1 .. high : \E i \in 1 .. Len(q) : q[i].session = s /\ q[i].n = v

\* An empty queue holds no message of a session.
LEMMA HoldsEmpty ==
    ASSUME NEW s, NEW low \in Nat, NEW high \in Nat
    PROVE  Holds(<<>>, s, low, high) <=> low = high
BY DEF Holds

\* A queue holds the messages up to the one that was appended.
LEMMA HoldsAppend ==
    ASSUME NEW q \in Seq(SessionMessage), NEW s, NEW low \in Nat, NEW high \in Nat,
           Holds(q, s, low, high), NEW m \in SessionMessage
    PROVE  /\ m.session = s /\ m.n = high + 1 => Holds(Append(q, m), s, low, high + 1)
           /\ m.session # s => Holds(Append(q, m), s, low, high)
<1> DEFINE new == Append(q, m)
<1>1. /\ Len(new) = Len(q) + 1 /\ Len(q) \in Nat /\ new[Len(q) + 1] = m
      /\ \A i \in 1 .. Len(q) : new[i] = q[i]
  OBVIOUS
<1>2. ASSUME NEW i \in 1 .. Len(q)
      PROVE  q[i].n \in Nat
  <2>1. q[i] \in SessionMessage
    OBVIOUS
  <2> QED
    BY <2>1 DEF SessionMessage
<1> HIDE DEF new
<1>3. \A i \in 1 .. Len(new) : i = Len(q) + 1 \/ i \in 1 .. Len(q)
  BY <1>1
<1>4. ASSUME m.session = s, m.n = high + 1
      PROVE  Holds(new, s, low, high + 1)
  <2>1. \A i \in 1 .. Len(new) : new[i].session = s => new[i].n \in low + 1 .. high + 1
    BY <1>1, <1>3, <1>4 DEF Holds
  <2>2. ASSUME NEW i \in 1 .. Len(new), NEW j \in 1 .. Len(new), i < j,
               new[i].session = s, new[j].session = s
        PROVE  new[i].n < new[j].n
    <3>1. i \in 1 .. Len(q) /\ new[i] = q[i]
      BY <1>1, <2>2
    <3>2. q[i].n \in low + 1 .. high
      BY <2>2, <3>1 DEF Holds
    <3>3. CASE j = Len(q) + 1
      BY <1>1, <1>4, <3>1, <3>2, <3>3
    <3>4. CASE j \in 1 .. Len(q)
      <4>1. new[j] = q[j]
        BY <1>1, <3>4
      <4> QED
        BY <2>2, <3>1, <3>4, <4>1 DEF Holds
    <3> QED
      BY <1>3, <3>3, <3>4
  <2>3. ASSUME NEW v \in low + 1 .. high + 1
        PROVE  \E i \in 1 .. Len(new) : new[i].session = s /\ new[i].n = v
    <3>1. CASE v = high + 1
      BY <1>1, <1>4, <3>1
    <3>2. CASE v # high + 1
      <4>1. v \in low + 1 .. high
        BY <3>2 DEF Holds
      <4>2. PICK i \in 1 .. Len(q) : q[i].session = s /\ q[i].n = v
        BY <4>1 DEF Holds
      <4>3. i \in 1 .. Len(new) /\ new[i] = q[i]
        BY <1>1
      <4> QED
        BY <4>2, <4>3
    <3> QED
      BY <3>1, <3>2
  <2>4. low <= high + 1
    BY DEF Holds
  <2> QED
    BY <2>1, <2>2, <2>3, <2>4, Zenon DEF Holds
<1>5. ASSUME m.session # s
      PROVE  Holds(new, s, low, high)
  <2>1. \A i \in 1 .. Len(new) : new[i].session = s => i \in 1 .. Len(q) /\ new[i] = q[i]
    BY <1>1, <1>3, <1>5
  <2>2. \A v \in low + 1 .. high : \E i \in 1 .. Len(new) : new[i].session = s /\ new[i].n = v
    BY <1>1 DEF Holds
  <2> QED
    BY <2>1, <2>2 DEF Holds
<1> QED
  BY <1>4, <1>5 DEF new

\* The messages of a session leave a queue in the order of their numbers.
LEMMA HoldsTail ==
    ASSUME NEW q \in Seq(SessionMessage), NEW s, NEW low \in Nat, NEW high \in Nat,
           Holds(q, s, low, high), q # <<>>
    PROVE  /\ Head(q).session = s => Head(q).n = low + 1 /\ Holds(Tail(q), s, low + 1, high)
           /\ Head(q).session # s => Holds(Tail(q), s, low, high)
<1> DEFINE new == Tail(q)
<1>1. /\ Len(q) \in Nat /\ Len(q) >= 1 /\ Len(new) = Len(q) - 1 /\ Head(q) = q[1]
      /\ \A i \in 1 .. Len(new) : i + 1 \in 1 .. Len(q) /\ new[i] = q[i + 1]
  OBVIOUS
<1>2. ASSUME NEW i \in 1 .. Len(q)
      PROVE  q[i].n \in Nat
  <2>1. q[i] \in SessionMessage
    OBVIOUS
  <2> QED
    BY <2>1 DEF SessionMessage
<1> HIDE DEF new
<1>3. \A i \in 1 .. Len(q) : i = 1 \/ (i - 1 \in 1 .. Len(new) /\ q[i] = new[i - 1])
  BY <1>1
<1>4. ASSUME q[1].session = s
      PROVE  q[1].n = low + 1 /\ Holds(new, s, low + 1, high)
  <2>1. q[1].n \in low + 1 .. high
    BY <1>1, <1>4 DEF Holds
  <2>2. PICK i \in 1 .. Len(q) : q[i].session = s /\ q[i].n = low + 1
    BY <2>1 DEF Holds
  <2>3. i = 1
    <3>1. 1 < i => q[1].n < q[i].n
      BY <1>1, <1>4, <2>2 DEF Holds
    <3> QED
      BY <1>2, <2>1, <2>2, <3>1
  <2>4. q[1].n = low + 1
    BY <2>2, <2>3
  <2>5. \A j \in 1 .. Len(new) : new[j].session = s => new[j].n \in low + 2 .. high
    <3>1. ASSUME NEW j \in 1 .. Len(new), new[j].session = s
          PROVE  new[j].n \in low + 2 .. high
      <4>1. j + 1 \in 1 .. Len(q) /\ 1 < j + 1 /\ new[j] = q[j + 1] /\ 1 \in 1 .. Len(q)
        BY <1>1
      <4>2. q[1].n < q[j + 1].n /\ q[j + 1].n \in low + 1 .. high
        BY <1>4, <3>1, <4>1 DEF Holds
      <4> QED
        BY <2>4, <4>1, <4>2
    <3> QED
      BY <3>1
  <2>6. ASSUME NEW j \in 1 .. Len(new), NEW k \in 1 .. Len(new), j < k,
               new[j].session = s, new[k].session = s
        PROVE  new[j].n < new[k].n
    <3>1. /\ j + 1 \in 1 .. Len(q) /\ k + 1 \in 1 .. Len(q) /\ j + 1 < k + 1
          /\ new[j] = q[j + 1] /\ new[k] = q[k + 1]
      BY <1>1, <2>6
    <3>2. \A a, b \in 1 .. Len(q) :
              a < b /\ q[a].session = s /\ q[b].session = s => q[a].n < q[b].n
      BY DEF Holds
    <3> QED
      BY <2>6, <3>1, <3>2
  <2>7. ASSUME NEW v \in low + 2 .. high
        PROVE  \E j \in 1 .. Len(new) : new[j].session = s /\ new[j].n = v
    <3>1. PICK j \in 1 .. Len(q) : q[j].session = s /\ q[j].n = v
      <4>1. v \in low + 1 .. high
        OBVIOUS
      <4> QED
        BY <4>1 DEF Holds
    <3>2. j # 1
      BY <2>4, <3>1
    <3> QED
      BY <1>3, <3>1, <3>2
  <2> QED
    BY <2>1, <2>4, <2>5, <2>6, <2>7 DEF Holds
<1>5. ASSUME q[1].session # s
      PROVE  Holds(new, s, low, high)
  <2>1. \A j \in 1 .. Len(new) : new[j].session = s => new[j].n \in low + 1 .. high
    BY <1>1 DEF Holds
  <2>2. ASSUME NEW j \in 1 .. Len(new), NEW k \in 1 .. Len(new), j < k,
               new[j].session = s, new[k].session = s
        PROVE  new[j].n < new[k].n
    <3>1. /\ j + 1 \in 1 .. Len(q) /\ k + 1 \in 1 .. Len(q) /\ j + 1 < k + 1
          /\ new[j] = q[j + 1] /\ new[k] = q[k + 1]
      BY <1>1, <2>2
    <3>2. \A a, b \in 1 .. Len(q) :
              a < b /\ q[a].session = s /\ q[b].session = s => q[a].n < q[b].n
      BY DEF Holds
    <3> QED
      BY <2>2, <3>1, <3>2
  <2>3. ASSUME NEW v \in low + 1 .. high
        PROVE  \E j \in 1 .. Len(new) : new[j].session = s /\ new[j].n = v
    <3>1. PICK j \in 1 .. Len(q) : q[j].session = s /\ q[j].n = v
      BY DEF Holds
    <3> QED
      BY <1>3, <1>5, <3>1
  <2> QED
    BY <2>1, <2>2, <2>3 DEF Holds
<1> QED
  BY <1>1, <1>4, <1>5 DEF new

\* The channel, with the numbers of messages read and sent.
IsOf(m, s) == m # None /\ m.session = s

ChannelHolds(ch, s, read, high) ==
    /\ IsOf(ch.unread, s) => ch.unread.n = read + 1
    /\ Holds(ch.buffer, s, IF IsOf(ch.unread, s) THEN read + 1 ELSE read, high)

RequestIdleInv(ch) ==
    ~ch.active => ch.unread = None /\ ch.buffer = <<>> /\ ch.emergency = <<>>

\* The next message of a session goes behind those that wait.
LEMMA OrderSend ==
    ASSUME NEW ch \in RequestChannels(SessionMessage), RequestIdleInv(ch),
           NEW s, NEW read \in Nat, NEW high \in Nat, ChannelHolds(ch, s, read, high),
           NEW m \in SessionMessage
    PROVE  LET new == SendNetRequestMessage(ch, m)
           IN /\ RequestIdleInv(new)
              /\ m.session = s /\ m.n = high + 1 /\ ~m.emergency
                 => ChannelHolds(new, s, read, high + 1)
              /\ m.session # s => ChannelHolds(new, s, read, high)
<1> DEFINE new == SendNetRequestMessage(ch, m)
           low == IF IsOf(ch.unread, s) THEN read + 1 ELSE read
<1>0. ch.buffer \in Seq(SessionMessage) /\ low \in Nat /\ m # None
  BY GatewayAssumption DEF RequestChannels
<1>1. CASE ch.active /\ m.emergency /\ m.type \in EmergencyKind
  <2>1. new.active = TRUE /\ new.unread = ch.unread /\ new.buffer = ch.buffer
    BY <1>1 DEF SendNetRequestMessage, RequestChannels
  <2> QED
    BY <1>1, <2>1 DEF RequestIdleInv, ChannelHolds
<1>2. CASE ch.active /\ ~(m.emergency /\ m.type \in EmergencyKind)
  <2>1. new.active = TRUE /\ new.unread = ch.unread /\ new.buffer = Append(ch.buffer, m)
    BY <1>2 DEF SendNetRequestMessage, SendNetworkResponse, RequestChannels
  <2>2. Holds(ch.buffer, s, low, high)
    BY DEF ChannelHolds
  <2>3. /\ m.session = s /\ m.n = high + 1 => Holds(new.buffer, s, low, high + 1)
        /\ m.session # s => Holds(new.buffer, s, low, high)
    <3> HIDE DEF low, new
    <3>1. /\ m.session = s /\ m.n = high + 1
             => Holds(Append(ch.buffer, m), s, low, high + 1)
          /\ m.session # s => Holds(Append(ch.buffer, m), s, low, high)
      BY <1>0, <2>2, HoldsAppend
    <3> QED
      BY <2>1, <3>1
  <2> QED
    BY <2>1, <2>3 DEF RequestIdleInv, ChannelHolds
<1>3. CASE ~ch.active
  <2>1. /\ new.active = TRUE /\ new.unread = m /\ new.buffer = <<>>
        /\ ch.unread = None /\ ch.buffer = <<>>
    BY <1>3 DEF SendNetRequestMessage, SendNetworkResponse, SendMessage, RequestChannels,
       RequestIdleInv
  <2>2. read = high
    BY <2>1, HoldsEmpty DEF ChannelHolds, IsOf
  <2>3. Holds(<<>>, s, read + 1, high + 1) /\ Holds(<<>>, s, read, high)
    BY <2>2, HoldsEmpty
  <2>4. IsOf(new.unread, s) <=> m.session = s
    BY <1>0, <2>1 DEF IsOf
  <2> QED
    BY <2>1, <2>2, <2>3, <2>4 DEF RequestIdleInv, ChannelHolds
<1> QED
  BY <1>1, <1>2, <1>3

\* The message in the channel is the next one of its session.
LEMMA OrderRead ==
    ASSUME NEW ch \in RequestChannels(SessionMessage), RequestIdleInv(ch),
           NEW s, NEW read \in Nat, NEW high \in Nat, ChannelHolds(ch, s, read, high)
    PROVE  LET new == [ch EXCEPT !.unread = None]
           IN /\ RequestIdleInv(new)
              /\ IsOf(ch.unread, s) =>
                    ch.unread.n = read + 1 /\ ChannelHolds(new, s, read + 1, high)
              /\ ~IsOf(ch.unread, s) => ChannelHolds(new, s, read, high)
<1> DEFINE new == [ch EXCEPT !.unread = None]
<1>1. /\ new.unread = None /\ new.buffer = ch.buffer /\ new.active = ch.active
      /\ new.emergency = ch.emergency
  BY DEF RequestChannels
<1>2. ~IsOf(new.unread, s)
  BY <1>1 DEF IsOf
<1> QED
  BY <1>1, <1>2 DEF RequestIdleInv, ChannelHolds

\* RunL moves the next message of each session to the channel.
LEMMA OrderRunL ==
    ASSUME NEW ch \in RequestChannels(SessionMessage), RequestIdleInv(ch), Acknowledged(ch),
           NEW s, NEW read \in Nat, NEW high \in Nat, ChannelHolds(ch, s, read, high),
           \A k \in EmergencyKind : ~IsOf(ch.slot[k], s)
    PROVE  RequestIdleInv(RequestRunL(ch)) /\ ChannelHolds(RequestRunL(ch), s, read, high)
<1> DEFINE new == RequestRunL(ch)
<1>0. /\ ch.buffer \in Seq(SessionMessage) /\ ch.unread = None /\ ch.active
      /\ ~IsOf(ch.unread, s) /\ Holds(ch.buffer, s, read, high)
  BY DEF RequestChannels, Acknowledged, IsOf, ChannelHolds
<1>1. CASE ch.emergency # <<>>
  <2>1. Head(ch.emergency) \in EmergencyKind
    BY <1>1 DEF RequestChannels
  <2>2. /\ new.active = TRUE /\ new.unread = ch.slot[Head(ch.emergency)]
        /\ new.buffer = ch.buffer
    BY <1>1 DEF RequestRunL, SendMessage, RequestChannels
  <2> QED
    BY <1>0, <2>1, <2>2 DEF RequestIdleInv, ChannelHolds
<1>2. CASE ch.emergency = <<>> /\ ch.buffer = <<>>
  <2>1. /\ new.active = FALSE /\ new.unread = None /\ new.buffer = <<>>
        /\ new.emergency = <<>>
    BY <1>0, <1>2 DEF RequestRunL, SendNextBufferedMessage, RequestChannels
  <2> QED
    BY <1>0, <1>2, <2>1 DEF RequestIdleInv, ChannelHolds, IsOf
<1>3. CASE ch.emergency = <<>> /\ ch.buffer # <<>>
  <2> DEFINE m == Head(ch.buffer)
  <2>1. /\ new.active = TRUE /\ new.unread = m /\ new.buffer = Tail(ch.buffer)
    BY <1>3 DEF RequestRunL, SendNextBufferedMessage, SendMessage, RequestChannels
  <2>2. m \in SessionMessage /\ m # None
    BY <1>0, <1>3, GatewayAssumption
  <2>3. /\ m.session = s => m.n = read + 1 /\ Holds(new.buffer, s, read + 1, high)
        /\ m.session # s => Holds(new.buffer, s, read, high)
    BY <1>0, <1>3, <2>1, HoldsTail
  <2>4. IsOf(new.unread, s) <=> m.session = s
    BY <2>1, <2>2 DEF IsOf
  <2> QED
    BY <2>1, <2>3, <2>4 DEF RequestIdleInv, ChannelHolds
<1> QED
  BY <1>1, <1>2, <1>3

OrderInv ==
    /\ RequestIdleInv(nrh)
    /\ \A s \in Session \ Emergency :
          /\ \A i \in 1 .. Len(readLog[s]) : readLog[s][i] = i
          /\ ChannelHolds(nrh, s, Len(readLog[s]), sent[s])

\* Nothing has been sent and nothing read.
LEMMA OrderInit == Init => OrderInv
<1> SUFFICES ASSUME Init PROVE OrderInv
  OBVIOUS
<1>1. nrh.active = FALSE /\ nrh.unread = None /\ nrh.buffer = <<>> /\ nrh.emergency = <<>>
  BY DEF Init, RequestChannel
<1>2. ASSUME NEW s \in Session
      PROVE  readLog[s] = <<>> /\ sent[s] = 0 /\ Len(readLog[s]) = 0
  BY DEF Init
<1>3. \A s \in Session : ChannelHolds(nrh, s, 0, 0)
  BY <1>1, HoldsEmpty DEF ChannelHolds, IsOf
<1> QED
  BY <1>1, <1>2, <1>3 DEF OrderInv, RequestIdleInv

\* A message is sent to the NRH.
LEMMA OrderToNrh ==
    ASSUME ChannelInv, OrderInv, NEW s \in Session,
           NEW type \in {"privacy", "location", "update", "complete"}, ToNrh(s, type),
           readLog' = readLog
    PROVE  OrderInv'
<1> DEFINE m == Message(s, type)
<1>1. /\ nrh' = SendNetRequestMessage(nrh, m) /\ sent' = [sent EXCEPT ![s] = sent[s] + 1]
      /\ nrh \in RequestChannels(SessionMessage) /\ RequestIdleInv(nrh)
      /\ sent \in [Session -> Nat] /\ readLog \in [Session -> Seq(Nat)]
  BY DEF ToNrh, ChannelInv, TypeOK, OrderInv
<1>2. m \in SessionMessage /\ m.session = s /\ m.n = sent[s] + 1 /\ m.emergency = (s \in Emergency)
  <2>1. (s \in Emergency) \in BOOLEAN /\ sent[s] + 1 \in Nat
    BY <1>1
  <2> QED
    BY <2>1 DEF Message, SessionMessage
<1> HIDE DEF m
<1>3. ASSUME NEW t \in Session \ Emergency
      PROVE  ChannelHolds(nrh', t, Len(readLog[t]), sent'[t]) /\ RequestIdleInv(nrh')
  <2>1. /\ Len(readLog[t]) \in Nat /\ sent[t] \in Nat
        /\ ChannelHolds(nrh, t, Len(readLog[t]), sent[t])
    BY <1>1 DEF OrderInv
  <2>2. /\ RequestIdleInv(nrh')
        /\ m.session = t /\ m.n = sent[t] + 1 /\ ~m.emergency
           => ChannelHolds(nrh', t, Len(readLog[t]), sent[t] + 1)
        /\ m.session # t => ChannelHolds(nrh', t, Len(readLog[t]), sent[t])
    BY <1>1, <1>2, <2>1, OrderSend
  <2>3. sent'[t] = IF t = s THEN sent[t] + 1 ELSE sent[t]
    BY <1>1
  <2> QED
    BY <1>2, <2>2, <2>3
<1>4. RequestIdleInv(nrh')
  BY <1>1, GatewayAssumption
     DEF RequestIdleInv, SendNetRequestMessage, SendNetworkResponse, SendMessage, RequestChannels
<1> QED
  BY <1>3, <1>4 DEF OrderInv

\* The order is kept when the NRH reads.
LEMMA OrderNrhReads ==
    ASSUME ChannelInv, OrderInv, NrhReads
    PROVE  OrderInv'
<1> DEFINE m == nrh.unread
<1>1. /\ nrh' = [nrh EXCEPT !.unread = None] /\ sent' = sent
      /\ readLog' = [readLog EXCEPT ![m.session] = Append(@, m.n)]
      /\ m # None /\ m \in SessionMessage
      /\ nrh \in RequestChannels(SessionMessage) /\ RequestIdleInv(nrh)
      /\ sent \in [Session -> Nat] /\ readLog \in [Session -> Seq(Nat)]
  BY DEF NrhReads, ChannelInv, TypeOK, OrderInv, RequestChannels
<1>2. m.session \in Session /\ m.n \in Nat
  BY <1>1 DEF SessionMessage
<1>3. ASSUME NEW t \in Session \ Emergency
      PROVE  /\ \A i \in 1 .. Len(readLog'[t]) : readLog'[t][i] = i
             /\ ChannelHolds(nrh', t, Len(readLog'[t]), sent'[t])
             /\ RequestIdleInv(nrh')
  <2>1. /\ Len(readLog[t]) \in Nat /\ sent[t] \in Nat /\ readLog[t] \in Seq(Nat)
        /\ ChannelHolds(nrh, t, Len(readLog[t]), sent[t])
        /\ \A i \in 1 .. Len(readLog[t]) : readLog[t][i] = i
    BY <1>1 DEF OrderInv
  <2>2. /\ RequestIdleInv(nrh')
        /\ IsOf(m, t) => m.n = Len(readLog[t]) + 1
                         /\ ChannelHolds(nrh', t, Len(readLog[t]) + 1, sent[t])
        /\ ~IsOf(m, t) => ChannelHolds(nrh', t, Len(readLog[t]), sent[t])
    BY <1>1, <2>1, OrderRead
  <2>3. CASE IsOf(m, t)
    <3>1. readLog'[t] = Append(readLog[t], m.n)
      BY <1>1, <1>2, <2>3 DEF IsOf
    <3>2. Len(readLog'[t]) = Len(readLog[t]) + 1 /\ readLog'[t][Len(readLog[t]) + 1] = m.n
          /\ \A i \in 1 .. Len(readLog[t]) : readLog'[t][i] = readLog[t][i]
      BY <1>2, <2>1, <3>1
    <3> QED
      BY <1>1, <2>1, <2>2, <2>3, <3>2
  <2>4. CASE ~IsOf(m, t)
    <3>1. readLog'[t] = readLog[t]
      BY <1>1, <1>2, <2>4 DEF IsOf
    <3> QED
      BY <1>1, <2>1, <2>2, <2>4, <3>1
  <2> QED
    BY <2>3, <2>4
<1>4. RequestIdleInv(nrh')
  BY <1>1 DEF RequestIdleInv, RequestChannels
<1> QED
  BY <1>3, <1>4 DEF OrderInv

\* The order is kept by RunL of the channel to the NRH.
LEMMA OrderNrhRunL ==
    ASSUME ChannelInv, OrderInv, NrhRunL
    PROVE  OrderInv'
<1>1. /\ nrh' = RequestRunL(nrh) /\ sent' = sent /\ readLog' = readLog
      /\ nrh \in RequestChannels(SessionMessage) /\ RequestIdleInv(nrh) /\ Acknowledged(nrh)
      /\ sent \in [Session -> Nat] /\ readLog \in [Session -> Seq(Nat)]
  BY DEF NrhRunL, ChannelInv, TypeOK, OrderInv, readers
<1>2. ASSUME NEW s \in Session \ Emergency
      PROVE  \A k \in EmergencyKind : ~IsOf(nrh.slot[k], s)
  BY DEF ChannelInv, SlotInv, RequestChannels, Truthful, IsOf
<1>3. ASSUME NEW s \in Session \ Emergency
      PROVE  ChannelHolds(nrh', s, Len(readLog[s]), sent[s]) /\ RequestIdleInv(nrh')
  <2>1. /\ Len(readLog[s]) \in Nat /\ sent[s] \in Nat
        /\ ChannelHolds(nrh, s, Len(readLog[s]), sent[s])
    BY <1>1 DEF OrderInv
  <2> QED
    BY <1>1, <1>2, <2>1, OrderRunL
<1>4. RequestIdleInv(nrh')
  BY <1>1 DEF RequestIdleInv, RequestRunL, SendNextBufferedMessage, SendMessage,
     RequestChannels, Acknowledged
<1> QED
  BY <1>1, <1>3, <1>4 DEF OrderInv

\* What a step does with the channel to the NRH.
MessageType == {"privacy", "location", "update", "complete"}

\* What a step does to the channel to the NRH: nothing, send, read or RunL.
LEMMA NrhSteps ==
    ASSUME [Next]_vars
    PROVE  \/ UNCHANGED <<nrh, sent, readLog>>
           \/ \E s \in Session, type \in MessageType : ToNrh(s, type) /\ readLog' = readLog
           \/ NrhReads
           \/ NrhRunL
<1> USE DEF gateway, fixed, channels, readers, world
<1>1. CASE ModuleCalls
  BY <1>1 DEF ModuleCalls, ProcessLocationRequest, ProcessLocationUpdate, MessageType,
     ProcessSessionComplete, ProcessPrivacyRequest, ProcessAssistanceData, SessionCompleted,
     Session
<1>2. CASE ClientCalls
  BY <1>2 DEF ClientCalls, OnSelfLocationRequest, NetworkLocationRequest, MessageType,
     TransmitLocationRequest, PsyLocationRequest, SessionCompleted, Cancel,
     OnAssistanceDataRequest, Session
<1>3. CASE Responses \/ \E new \in {"none", "home", "roaming"} : OnNetworkRegistrationStatusChange(new)
  BY <1>3 DEF Responses, LocationResponse, PrivacyResponse, OnNetworkRegistrationStatusChange
<1>4. CASE RejectPrivacyRequest \/ AgpsReads \/ PsyReads \/ AgpsChannelRunL \/ PsyRunL
  BY <1>4 DEF RejectPrivacyRequest, AgpsReads, PsyReads, AgpsChannelRunL, PsyRunL
<1>5. CASE UNCHANGED vars
  BY <1>5 DEF vars
<1> QED
  BY <1>1, <1>2, <1>3, <1>4, <1>5 DEF Next

\* Every step keeps the order.
LEMMA OrderNext == ChannelInv /\ OrderInv /\ [Next]_vars => OrderInv'
<1> SUFFICES ASSUME ChannelInv, OrderInv, [Next]_vars
             PROVE  OrderInv'
  OBVIOUS
<1>1. CASE UNCHANGED <<nrh, sent, readLog>>
  BY <1>1 DEF OrderInv
<1>2. CASE \E s \in Session, type \in MessageType : ToNrh(s, type) /\ readLog' = readLog
  BY <1>2, OrderToNrh DEF MessageType
<1> QED
  BY <1>1, <1>2, NrhSteps, OrderNrhReads, OrderNrhRunL

\* What waits in a channel, in the order in which it will be read.
Waits(ch) ==
    (IF ch.unread = None THEN <<>> ELSE <<ch.unread>>)
    \o [i \in 1 .. Len(ch.emergency) |-> ch.slot[ch.emergency[i]]]
    \o ch.buffer

\* What waits, by its place: the message in the channel, those listed as
\* emergencies, those in the buffer.
LEMMA WaitsPlaces ==
    ASSUME NEW ch \in RequestChannels(SessionMessage)
    PROVE  LET first == IF ch.unread = None THEN 0 ELSE 1
               listed == Len(ch.emergency)
           IN /\ listed \in Nat /\ Len(ch.buffer) \in Nat
              /\ Waits(ch) \in Seq(SessionMessage \union {None})
              /\ Len(Waits(ch)) = first + listed + Len(ch.buffer)
              /\ \A i \in 1 .. first : Waits(ch)[i] = ch.unread
              /\ \A i \in 1 .. listed : Waits(ch)[first + i] = ch.slot[ch.emergency[i]]
              /\ \A i \in 1 .. Len(ch.buffer) :
                    Waits(ch)[first + listed + i] = ch.buffer[i]
<1> DEFINE A == IF ch.unread = None THEN <<>> ELSE <<ch.unread>>
           B == [i \in 1 .. Len(ch.emergency) |-> ch.slot[ch.emergency[i]]]
           C == ch.buffer
           M == SessionMessage \union {None}
           W == Waits(ch)
           first == IF ch.unread = None THEN 0 ELSE 1
<1>1. ch.emergency \in Seq(EmergencyKind) /\ ch.slot \in [EmergencyKind -> M]
      /\ ch.unread \in M /\ ch.buffer \in Seq(SessionMessage)
  BY DEF RequestChannels
<1>2. A \in Seq(M) /\ Len(A) = first /\ \A i \in 1 .. first : A[i] = ch.unread
  <2>1. CASE ch.unread = None
    BY <2>1
  <2>2. CASE ch.unread # None
    <3>1. A = <<ch.unread>> /\ first = 1
      BY <2>2
    <3> HIDE DEF A, M, first
    <3> QED
      BY <1>1, <3>1
  <2> QED
    BY <2>1, <2>2
<1>3. B \in Seq(M) /\ Len(B) = Len(ch.emergency)
      /\ \A i \in 1 .. Len(ch.emergency) : B[i] = ch.slot[ch.emergency[i]]
  BY <1>1
<1>4. C \in Seq(M)
  BY <1>1
<1>5. W = (A \o B) \o C
  BY DEF Waits
<1>f. first \in {0, 1}
  OBVIOUS
<1> HIDE DEF A, B, C, M, W, first
<1>6. /\ A \o B \in Seq(M) /\ Len(A \o B) = Len(A) + Len(B)
      /\ \A i \in 1 .. Len(A) + Len(B) :
            (A \o B)[i] = IF i <= Len(A) THEN A[i] ELSE B[i - Len(A)]
  <2>1. A \in Seq(M) /\ B \in Seq(M)
    BY <1>2, <1>3
  <2> QED
    BY <2>1, ConcatProperties, Zenon
<1>7. /\ W \in Seq(M) /\ Len(W) = Len(A \o B) + Len(C)
      /\ \A i \in 1 .. Len(A \o B) + Len(C) :
            W[i] = IF i <= Len(A \o B) THEN (A \o B)[i] ELSE C[i - Len(A \o B)]
  BY <1>4, <1>5, <1>6, ConcatProperties
<1>8. /\ Len(ch.emergency) \in Nat /\ Len(C) \in Nat
      /\ Len(W) = first + Len(ch.emergency) + Len(C)
  BY <1>1, <1>2, <1>3, <1>4, <1>6, <1>7
<1>9. ASSUME NEW i \in 1 .. first
      PROVE  W[i] = ch.unread
  <2>1. i \in 1 .. Len(A \o B) + Len(C) /\ i <= Len(A \o B) /\ i \in 1 .. Len(A) + Len(B) /\ i <= Len(A)
    BY <1>f, <1>2, <1>3, <1>6, <1>8
  <2> QED
    BY <1>2, <1>6, <1>7, <2>1
<1>10. ASSUME NEW i \in 1 .. Len(ch.emergency)
       PROVE  W[first + i] = ch.slot[ch.emergency[i]]
  <2> DEFINE j == first + i
  <2>1. /\ j \in 1 .. Len(A \o B) + Len(C) /\ j <= Len(A \o B)
        /\ j \in 1 .. Len(A) + Len(B) /\ ~(j <= Len(A)) /\ j - Len(A) = i
    BY <1>f, <1>2, <1>3, <1>6, <1>8
  <2> HIDE DEF j
  <2>2. W[j] = (A \o B)[j]
    BY <1>7, <2>1
  <2>3. (A \o B)[j] = B[j - Len(A)]
    BY <1>6, <2>1
  <2> QED
    BY <1>3, <2>1, <2>2, <2>3 DEF j
<1>11. ASSUME NEW i \in 1 .. Len(C)
       PROVE  W[first + Len(ch.emergency) + i] = C[i]
  <2> DEFINE j == first + Len(ch.emergency) + i
  <2>1. /\ j \in 1 .. Len(A \o B) + Len(C) /\ ~(j <= Len(A \o B)) /\ j - Len(A \o B) = i
    BY <1>f, <1>2, <1>3, <1>6, <1>8
  <2> HIDE DEF j
  <2>2. W[j] = C[j - Len(A \o B)]
    BY <1>7, <2>1
  <2> QED
    BY <2>1, <2>2 DEF j
<1> QED
  BY <1>7, <1>8, <1>9, <1>10, <1>11 DEF C, W, M, first

\* The same of the messages to the NRH.
LEMMA OutstandingPlaces ==
    ASSUME ChannelInv
    PROVE  LET first == IF nrh.unread = None THEN 0 ELSE 1
               listed == Len(nrh.emergency)
           IN /\ listed \in Nat /\ Len(nrh.buffer) \in Nat
              /\ DOMAIN Outstanding = 1 .. first + listed + Len(nrh.buffer)
              /\ \A i \in 1 .. first : Outstanding[i] = nrh.unread
              /\ \A i \in 1 .. listed :
                    Outstanding[first + i] = nrh.slot[nrh.emergency[i]]
              /\ \A i \in 1 .. Len(nrh.buffer) :
                    Outstanding[first + listed + i] = nrh.buffer[i]
<1>1. Outstanding = Waits(nrh) /\ nrh \in RequestChannels(SessionMessage)
  BY DEF Outstanding, Waits, ChannelInv, TypeOK
<1>2. DOMAIN Waits(nrh) = 1 .. Len(Waits(nrh))
  <2>1. Waits(nrh) \in Seq(SessionMessage \union {None})
    BY <1>1, WaitsPlaces
  <2> QED
    BY <2>1
<1> QED
  BY <1>1, <1>2, WaitsPlaces

\* The order of the channel is what InOrder says of it.
LEMMA OrderMeans == ChannelInv /\ OrderInv => InOrder
<1> SUFFICES ASSUME ChannelInv, OrderInv, NEW s \in Session \ Emergency
             PROVE  /\ readLog[s] = [i \in 1 .. Len(readLog[s]) |-> i]
                    /\ Waiting(s) = Len(readLog[s]) + 1 .. sent[s]
                    /\ \A i, j \in Mine(s) :
                          i < j => Outstanding[i].n < Outstanding[j].n
  BY DEF InOrder
<1> DEFINE first == IF nrh.unread = None THEN 0 ELSE 1
           listed == Len(nrh.emergency)
           size == Len(nrh.buffer)
           read == Len(readLog[s])
           high == sent[s]
           low == IF IsOf(nrh.unread, s) THEN read + 1 ELSE read
           out == Outstanding
           q == nrh.buffer
<1>1. /\ readLog[s] \in Seq(Nat) /\ read \in Nat /\ high \in Nat
      /\ \A i \in 1 .. read : readLog[s][i] = i
      /\ ChannelHolds(nrh, s, read, high)
  BY DEF ChannelInv, TypeOK, OrderInv
<1>2. readLog[s] = [i \in 1 .. read |-> i]
  BY <1>1
<1>3. /\ listed \in Nat /\ size \in Nat /\ first \in {0, 1}
      /\ DOMAIN out = 1 .. first + listed + size
      /\ \A i \in 1 .. first : out[i] = nrh.unread
      /\ \A i \in 1 .. listed : out[first + i] = nrh.slot[nrh.emergency[i]]
      /\ \A i \in 1 .. size : out[first + listed + i] = q[i]
  BY OutstandingPlaces
<1>4. \A i \in 1 .. listed : nrh.slot[nrh.emergency[i]].session # s
  <2>1. \A k \in EmergencyKind : nrh.slot[k] # None => nrh.slot[k].session # s
    BY DEF ChannelInv, SlotInv, RequestChannels, Truthful
  <2>2. \A i \in 1 .. listed : nrh.emergency[i] \in EmergencyKind
    BY DEF ChannelInv, RequestChannels
  <2> QED
    BY <2>1, <2>2 DEF ChannelInv, SlotInv
<1>5. /\ IsOf(nrh.unread, s) <=> (first = 1 /\ nrh.unread.session = s)
      /\ IsOf(nrh.unread, s) => nrh.unread.n = read + 1
      /\ Holds(q, s, low, high) /\ low \in Nat
      /\ low = IF IsOf(nrh.unread, s) THEN read + 1 ELSE read
  BY <1>1 DEF ChannelHolds, IsOf
<1> HIDE DEF first, listed, size, read, high, low, out, q
<1>6. /\ \A i \in 1 .. size : q[i].session = s => q[i].n \in low + 1 .. high
      /\ \A i, j \in 1 .. size : i < j /\ q[i].session = s /\ q[j].session = s => q[i].n < q[j].n
      /\ \A v \in low + 1 .. high : \E i \in 1 .. size : q[i].session = s /\ q[i].n = v
      /\ low <= high
  BY <1>5 DEF Holds, size, q
\* A message of s is the one in the channel or one in the buffer.
<1>7. ASSUME NEW i \in Mine(s)
      PROVE  \/ i = 1 /\ IsOf(nrh.unread, s) /\ out[i].n = read + 1 /\ low = read + 1
             \/ /\ i - (first + listed) \in 1 .. size
                /\ out[i] = q[i - (first + listed)]
                /\ q[i - (first + listed)].session = s
  <2>1. i \in 1 .. first + listed + size /\ out[i].session = s
    BY <1>3 DEF Mine, out
  <2>2. CASE i <= first
    BY <1>3, <1>5, <2>1, <2>2
  <2>3. CASE i > first /\ i <= first + listed
    <3> DEFINE j == i - first
    <3>1. j \in 1 .. listed /\ first + j = i
      BY <1>3, <2>1, <2>3
    <3> HIDE DEF j
    <3>2. out[first + j] = nrh.slot[nrh.emergency[j]]
      BY <1>3, <3>1
    <3> QED
      BY <1>4, <2>1, <3>1, <3>2
  <2>4. CASE i > first + listed
    <3> DEFINE j == i - (first + listed)
    <3>1. j \in 1 .. size /\ first + listed + j = i
      BY <1>3, <2>1, <2>4
    <3> HIDE DEF j
    <3>2. out[first + listed + j] = q[j]
      BY <1>3, <3>1
    <3> QED
      BY <2>1, <3>1, <3>2 DEF j
  <2> QED
    BY <1>3, <2>1, <2>2, <2>3, <2>4
<1>8. \A i \in Mine(s) : out[i].n \in read + 1 .. high
  BY <1>1, <1>5, <1>6, <1>7
<1>9. ASSUME NEW v \in read + 1 .. high
      PROVE  \E i \in Mine(s) : out[i].n = v
  <2>1. CASE v = read + 1 /\ IsOf(nrh.unread, s)
    <3>1. 1 \in Mine(s) /\ out[1].n = v
      BY <1>3, <1>5, <2>1 DEF Mine, out
    <3> QED
      BY <3>1
  <2>2. CASE ~(v = read + 1 /\ IsOf(nrh.unread, s))
    <3>1. v \in low + 1 .. high
      BY <1>1, <1>5, <2>2 DEF high, read
    <3>2. PICK j \in 1 .. size : q[j].session = s /\ q[j].n = v
      BY <1>6, <3>1
    <3>3. first + listed + j \in Mine(s) /\ out[first + listed + j].n = v
      BY <1>3, <3>2 DEF Mine, out
    <3> QED
      BY <3>3
  <2> QED
    BY <2>1, <2>2
<1>10. Waiting(s) = read + 1 .. high
  BY <1>8, <1>9 DEF Waiting, out
<1>11. ASSUME NEW i \in Mine(s), NEW j \in Mine(s), i < j
       PROVE  out[i].n < out[j].n
  <2>1. i \in Nat /\ j \in Nat /\ i >= 1
    BY <1>3 DEF Mine, out
  <2>2. CASE i = 1 /\ IsOf(nrh.unread, s) /\ out[i].n = read + 1 /\ low = read + 1
    <3>1. j # 1
      BY <1>11, <2>2
    <3>2. out[j].n \in low + 1 .. high
      BY <1>6, <1>7, <3>1
    <3> QED
      BY <1>1, <2>2, <3>2
  <2>3. CASE /\ i - (first + listed) \in 1 .. size
             /\ out[i] = q[i - (first + listed)]
             /\ q[i - (first + listed)].session = s
    <3>1. j # 1
      BY <1>11, <2>1
    <3> DEFINE a == i - (first + listed)
               b == j - (first + listed)
    <3>2. /\ b \in 1 .. size /\ out[j] = q[b] /\ q[b].session = s
          /\ a \in 1 .. size /\ out[i] = q[a] /\ q[a].session = s /\ a < b
      BY <1>3, <1>7, <1>11, <2>1, <2>3, <3>1
    <3> HIDE DEF a, b
    <3> QED
      BY <1>6, <3>2
  <2> QED
    BY <1>7, <2>2, <2>3
<1> QED
  BY <1>2, <1>10, <1>11 DEF read, high, out

\* Whatever waits, and however many messages are sent meanwhile, the NRH
\* reads the messages of a session in the order in which the gateway got
\* them, each once, and none is lost.
THEOREM NothingLostOrReordered == Spec => []InOrder
  BY OrderInit, OrderNext, OrderMeans, ChannelInvariant, PTL DEF Spec

-----------------------------------------------------------------------------
(***************************************************************************)
(* Emergencies.  What waits for the NRH is one queue: a message is put in  *)
(* somewhere in it, the first one is read, and RunL changes nothing.  That *)
(* nothing is lost rests on the slots: a module makes no second request of *)
(* a kind before the first was answered, so that a slot is not overwritten *)
(* while it is listed, where one emergency occurs at a time.               *)
(***************************************************************************)
\* q with m put in as number p.
PutIn(new, q, m, p) ==
    /\ p \in 1 .. Len(q) + 1
    /\ Len(new) = Len(q) + 1
    /\ new[p] = m
    /\ \A i \in 1 .. Len(q) : IF i < p THEN new[i] = q[i] ELSE new[i + 1] = q[i]

\* q without its first message.
TakenOff(new, q) ==
    /\ Len(q) = Len(new) + 1
    /\ \A i \in 1 .. Len(new) : new[i] = q[i + 1]

IsAt(q, s, i) == i \in 1 .. Len(q) /\ q[i].session = s

\* The messages of s up to number high have been read (log) or wait (q), once.
Served(q, s, log, high) ==
    /\ \A i \in 1 .. Len(log) : log[i] \in 1 .. high
    /\ \A i \in 1 .. Len(q) : IsAt(q, s, i) => q[i].n \in 1 .. high
    /\ \A i, j \in 1 .. Len(log) : i # j => log[i] # log[j]
    /\ \A i, j \in 1 .. Len(q) :
          IsAt(q, s, i) /\ IsAt(q, s, j) /\ i # j => q[i].n # q[j].n
    /\ \A i \in 1 .. Len(q), j \in 1 .. Len(log) : IsAt(q, s, i) => q[i].n # log[j]
    /\ \A v \in 1 .. high :
          \/ \E i \in 1 .. Len(q) : IsAt(q, s, i) /\ q[i].n = v
          \/ \E j \in 1 .. Len(log) : log[j] = v

\* What waits says what the module of s has done: it asked for privacy (ask),
\* waits for a location (loc), which the NRH has not read (due), or completed
\* the session (done), with its last message.
Kinds(q, s, ask, loc, done, unanswered) ==
    /\ <<"location", s>> \in unanswered => s \in loc
    /\ \A i \in 1 .. Len(q) : IsAt(q, s, i) =>
          /\ q[i].type = "privacy" => s \in ask
          /\ q[i].type = "location" => s \in loc /\ <<"location", s>> \notin unanswered
          /\ q[i].type = "complete" => s \in done
    /\ \A i, j \in 1 .. Len(q) : IsAt(q, s, i) /\ IsAt(q, s, j) /\ i < j =>
          /\ q[i].type # "complete"
          /\ ~(q[i].type = "location" /\ q[j].type = "location")

\* A message of s is put in.
LEMMA ServedPut ==
    ASSUME NEW q, NEW new, NEW m, NEW p, NEW s, NEW log, NEW high \in Nat,
           Len(q) \in Nat, PutIn(new, q, m, p), Served(q, s, log, high)
    PROVE  /\ m.session = s /\ m.n = high + 1 => Served(new, s, log, high + 1)
           /\ m.session # s => Served(new, s, log, high)
<1>1. /\ p \in 1 .. Len(q) + 1 /\ Len(new) = Len(q) + 1 /\ new[p] = m
      /\ \A i \in 1 .. Len(q) : i < p => new[i] = q[i]
      /\ \A i \in 1 .. Len(q) : ~(i < p) => new[i + 1] = q[i]
  BY DEF PutIn
<1> DEFINE from(i) == IF i < p THEN i ELSE i - 1
           to(i) == IF i < p THEN i ELSE i + 1
<1>2. ASSUME NEW i \in 1 .. Len(new), i # p
      PROVE  from(i) \in 1 .. Len(q) /\ new[i] = q[from(i)]
  <2>1. CASE i < p
    BY <1>1, <1>2, <2>1
  <2>2. CASE ~(i < p)
    <3>1. i - 1 \in 1 .. Len(q) /\ ~(i - 1 < p) /\ (i - 1) + 1 = i
      BY <1>1, <1>2, <2>2
    <3> QED
      BY <1>1, <2>2, <3>1
  <2> QED
    BY <2>1, <2>2
<1>3. ASSUME NEW i \in 1 .. Len(q)
      PROVE  to(i) \in 1 .. Len(new) /\ to(i) # p /\ new[to(i)] = q[i]
  BY <1>1
<1>4. \A i, j \in 1 .. Len(new) : i # p /\ j # p /\ i # j => from(i) # from(j)
  BY <1>1
<1> HIDE DEF from, to
<1>5. ASSUME m.session = s, m.n = high + 1
      PROVE  Served(new, s, log, high + 1)
  <2>1. \A i \in 1 .. Len(log) : log[i] \in 1 .. high + 1
    BY DEF Served
  <2>2. ASSUME NEW i \in 1 .. Len(new), IsAt(new, s, i), i # p
        PROVE  /\ IsAt(q, s, from(i)) /\ from(i) \in 1 .. Len(q)
               /\ new[i].n = q[from(i)].n /\ new[i].n \in 1 .. high
    BY <1>2, <2>2 DEF Served, IsAt
  <2>3. \A i \in 1 .. Len(new) : IsAt(new, s, i) => new[i].n \in 1 .. high + 1
    BY <1>1, <1>5, <2>2
  <2>4. ASSUME NEW i \in 1 .. Len(new), NEW j \in 1 .. Len(new),
               IsAt(new, s, i), IsAt(new, s, j), i # j
        PROVE  new[i].n # new[j].n
    <3>1. CASE i # p /\ j # p
      BY <1>4, <2>2, <2>4, <3>1 DEF Served
    <3>2. CASE i = p \/ j = p
      BY <1>1, <1>5, <2>2, <2>4, <3>2
    <3> QED
      BY <3>1, <3>2
  <2>5. ASSUME NEW i \in 1 .. Len(new), NEW j \in 1 .. Len(log), IsAt(new, s, i)
        PROVE  new[i].n # log[j]
    <3>1. CASE i = p
      BY <1>1, <1>5, <3>1 DEF Served
    <3>2. CASE i # p
      BY <2>2, <2>5, <3>2 DEF Served
    <3> QED
      BY <3>1, <3>2
  <2>6. ASSUME NEW v \in 1 .. high + 1
        PROVE  \/ \E i \in 1 .. Len(new) : IsAt(new, s, i) /\ new[i].n = v
               \/ \E j \in 1 .. Len(log) : log[j] = v
    <3>1. CASE v = high + 1
      <4>1. p \in 1 .. Len(new) /\ IsAt(new, s, p) /\ new[p].n = v
        BY <1>1, <1>5, <3>1 DEF IsAt
      <4> QED
        BY <4>1
    <3>2. CASE v # high + 1
      <4>1. v \in 1 .. high
        BY <3>2
      <4>2. \/ \E i \in 1 .. Len(q) : IsAt(q, s, i) /\ q[i].n = v
            \/ \E j \in 1 .. Len(log) : log[j] = v
        BY <4>1 DEF Served
      <4>3. ASSUME NEW i \in 1 .. Len(q), IsAt(q, s, i), q[i].n = v
            PROVE  to(i) \in 1 .. Len(new) /\ IsAt(new, s, to(i)) /\ new[to(i)].n = v
        BY <1>3, <4>3 DEF IsAt
      <4> QED
        BY <4>2, <4>3
    <3> QED
      BY <3>1, <3>2
  <2> QED
    BY <2>1, <2>3, <2>4, <2>5, <2>6 DEF Served
<1>6. ASSUME m.session # s
      PROVE  Served(new, s, log, high)
  <2>1. ASSUME NEW i \in 1 .. Len(new), IsAt(new, s, i)
        PROVE  /\ i # p /\ IsAt(q, s, from(i)) /\ from(i) \in 1 .. Len(q)
               /\ new[i].n = q[from(i)].n
    BY <1>1, <1>2, <1>6, <2>1 DEF IsAt
  <2>2. \A i, j \in 1 .. Len(new) :
            IsAt(new, s, i) /\ IsAt(new, s, j) /\ i # j => new[i].n # new[j].n
    BY <1>4, <2>1 DEF Served
  <2>3. ASSUME NEW v \in 1 .. high
        PROVE  \/ \E i \in 1 .. Len(new) : IsAt(new, s, i) /\ new[i].n = v
               \/ \E j \in 1 .. Len(log) : log[j] = v
    <3>1. \/ \E i \in 1 .. Len(q) : IsAt(q, s, i) /\ q[i].n = v
          \/ \E j \in 1 .. Len(log) : log[j] = v
      BY DEF Served
    <3>2. ASSUME NEW i \in 1 .. Len(q), IsAt(q, s, i), q[i].n = v
          PROVE  to(i) \in 1 .. Len(new) /\ IsAt(new, s, to(i)) /\ new[to(i)].n = v
      BY <1>3, <3>2 DEF IsAt
    <3> QED
      BY <3>1, <3>2
  <2>4. \A i \in 1 .. Len(new) : IsAt(new, s, i) =>
            new[i].n \in 1 .. high /\ \A j \in 1 .. Len(log) : new[i].n # log[j]
    BY <2>1 DEF Served
  <2> QED
    BY <2>2, <2>3, <2>4 DEF Served
<1> QED
  BY <1>5, <1>6

\* The first message is read: it is entered in the log of its session.
LEMMA ServedRead ==
    ASSUME NEW q, NEW new, NEW s, NEW log \in Seq(Nat), NEW high \in Nat, NEW n \in Nat,
           Len(q) \in Nat, Len(new) \in Nat, TakenOff(new, q), Served(q, s, log, high),
           q[1].n = n
    PROVE  /\ q[1].session = s => Served(new, s, Append(log, n), high)
           /\ q[1].session # s => Served(new, s, log, high)
<1>1. /\ Len(q) = Len(new) + 1 /\ \A i \in 1 .. Len(new) : i + 1 \in 1 .. Len(q) /\ new[i] = q[i + 1]
      /\ 1 \in 1 .. Len(q)
  BY DEF TakenOff
<1>2. ASSUME NEW i \in 1 .. Len(q), i # 1
      PROVE  i - 1 \in 1 .. Len(new) /\ new[i - 1] = q[i]
  BY <1>1, <1>2
<1>3. \A i \in 1 .. Len(new) : IsAt(new, s, i) => IsAt(q, s, i + 1) /\ new[i].n = q[i + 1].n
  BY <1>1 DEF IsAt
<1>4. ASSUME NEW i \in 1 .. Len(new), NEW j \in 1 .. Len(new),
             IsAt(new, s, i), IsAt(new, s, j), i # j
      PROVE  new[i].n # new[j].n
  <2>1. i + 1 \in 1 .. Len(q) /\ j + 1 \in 1 .. Len(q) /\ i + 1 # j + 1
    BY <1>1, <1>4
  <2>2. /\ IsAt(q, s, i + 1) /\ new[i].n = q[i + 1].n
        /\ IsAt(q, s, j + 1) /\ new[j].n = q[j + 1].n
    BY <1>3, <1>4
  <2> QED
    BY <2>1, <2>2 DEF Served
<1>5. \A i \in 1 .. Len(new) : IsAt(new, s, i) =>
          new[i].n \in 1 .. high /\ \A j \in 1 .. Len(log) : new[i].n # log[j]
  BY <1>1, <1>3 DEF Served
<1>6. ASSUME q[1].session = s
      PROVE  Served(new, s, Append(log, n), high)
  <2> DEFINE longer == Append(log, n)
  <2>1. /\ Len(log) \in Nat /\ Len(longer) = Len(log) + 1 /\ longer[Len(log) + 1] = n
        /\ \A i \in 1 .. Len(log) : longer[i] = log[i]
    OBVIOUS
  <2> HIDE DEF longer
  <2>2. IsAt(q, s, 1) /\ n \in 1 .. high
    BY <1>1, <1>6 DEF IsAt, Served
  <2>3. \A i \in 1 .. Len(longer) : i = Len(log) + 1 \/ i \in 1 .. Len(log)
    BY <2>1
  <2>4. \A i \in 1 .. Len(log) : log[i] \in 1 .. high /\ log[i] # n
    BY <1>1, <2>2 DEF Served
  <2>5. \A i, j \in 1 .. Len(longer) : i # j => longer[i] # longer[j]
    BY <2>1, <2>3, <2>4 DEF Served
  <2>6. \A i \in 1 .. Len(new) : IsAt(new, s, i) => new[i].n # n
    BY <1>1, <1>3, <2>2 DEF Served
  <2>7. ASSUME NEW v \in 1 .. high
        PROVE  \/ \E i \in 1 .. Len(new) : IsAt(new, s, i) /\ new[i].n = v
               \/ \E j \in 1 .. Len(longer) : longer[j] = v
    <3>1. CASE \E j \in 1 .. Len(log) : log[j] = v
      BY <2>1, <3>1
    <3>2. CASE \E i \in 1 .. Len(q) : IsAt(q, s, i) /\ q[i].n = v
      <4>1. PICK i \in 1 .. Len(q) : IsAt(q, s, i) /\ q[i].n = v
        BY <3>2
      <4>2. CASE i = 1
        <5>1. Len(log) + 1 \in 1 .. Len(longer) /\ longer[Len(log) + 1] = v
          BY <2>1, <4>1, <4>2
        <5> QED
          BY <5>1
      <4>3. CASE i # 1
        <5>1. i - 1 \in 1 .. Len(new) /\ IsAt(new, s, i - 1) /\ new[i - 1].n = v
          BY <1>2, <4>1, <4>3 DEF IsAt
        <5> QED
          BY <5>1
      <4> QED
        BY <4>2, <4>3
    <3> QED
      BY <3>1, <3>2 DEF Served
  <2>8. \A i \in 1 .. Len(longer) : longer[i] \in 1 .. high
    BY <2>1, <2>2, <2>3, <2>4
  <2>9. \A i \in 1 .. Len(new), j \in 1 .. Len(longer) : IsAt(new, s, i) => new[i].n # longer[j]
    BY <1>5, <2>1, <2>3, <2>6
  <2> QED
    BY <1>4, <1>5, <2>5, <2>7, <2>8, <2>9 DEF Served, longer
<1>7. ASSUME q[1].session # s
      PROVE  Served(new, s, log, high)
  <2>1. ASSUME NEW v \in 1 .. high
        PROVE  \/ \E i \in 1 .. Len(new) : IsAt(new, s, i) /\ new[i].n = v
               \/ \E j \in 1 .. Len(log) : log[j] = v
    <3>1. CASE \E i \in 1 .. Len(q) : IsAt(q, s, i) /\ q[i].n = v
      <4>1. PICK i \in 1 .. Len(q) : IsAt(q, s, i) /\ q[i].n = v
        BY <3>1
      <4>2. i # 1
        BY <1>7, <4>1 DEF IsAt
      <4>3. i - 1 \in 1 .. Len(new) /\ IsAt(new, s, i - 1) /\ new[i - 1].n = v
        BY <1>2, <4>1, <4>2 DEF IsAt
      <4> QED
        BY <4>3
    <3> QED
      BY <3>1 DEF Served
  <2> QED
    BY <1>4, <1>5, <2>1 DEF Served
<1> QED
  BY <1>6, <1>7

\* A message is put in that the module may send.
LEMMA KindsPut ==
    ASSUME NEW q, NEW new, NEW m, NEW p, NEW s, Len(q) \in Nat, PutIn(new, q, m, p),
           NEW ask, NEW loc, NEW done, NEW unanswered, Kinds(q, s, ask, loc, done, unanswered),
           NEW ask2, NEW loc2, NEW done2,
           ask \subseteq ask2, loc \subseteq loc2, done \subseteq done2,
           m.session = s => /\ s \notin done
                            /\ m.type = "privacy" => s \in ask2
                            /\ m.type = "location" => s \notin loc /\ s \in loc2
                            /\ m.type = "complete" => s \in done2 /\ p = Len(q) + 1
    PROVE  Kinds(new, s, ask2, loc2, done2, unanswered)
<1>1. /\ p \in 1 .. Len(q) + 1 /\ Len(new) = Len(q) + 1 /\ new[p] = m
      /\ \A i \in 1 .. Len(q) : i < p => new[i] = q[i]
      /\ \A i \in 1 .. Len(q) : ~(i < p) => new[i + 1] = q[i]
  BY DEF PutIn
<1> DEFINE from(i) == IF i < p THEN i ELSE i - 1
<1>2. ASSUME NEW i \in 1 .. Len(new), i # p
      PROVE  from(i) \in 1 .. Len(q) /\ new[i] = q[from(i)]
  <2>1. CASE i < p
    BY <1>1, <1>2, <2>1
  <2>2. CASE ~(i < p)
    <3>1. i - 1 \in 1 .. Len(q) /\ ~(i - 1 < p) /\ (i - 1) + 1 = i
      BY <1>1, <1>2, <2>2
    <3> QED
      BY <1>1, <2>2, <3>1
  <2> QED
    BY <2>1, <2>2
<1>3. \A i, j \in 1 .. Len(new) : i # p /\ j # p /\ i < j => from(i) < from(j)
  BY <1>1
<1> HIDE DEF from
<1>4. ASSUME NEW i \in 1 .. Len(new), IsAt(new, s, i), i # p
      PROVE  /\ IsAt(q, s, from(i)) /\ from(i) \in 1 .. Len(q)
             /\ new[i].type = q[from(i)].type
  BY <1>2, <1>4 DEF IsAt
<1>5. \A i \in 1 .. Len(q) : IsAt(q, s, i) =>
          /\ q[i].type = "privacy" => s \in ask
          /\ q[i].type = "location" => s \in loc /\ <<"location", s>> \notin unanswered
          /\ q[i].type = "complete" => s \in done
  BY DEF Kinds
<1>6. ASSUME NEW i \in 1 .. Len(new), IsAt(new, s, i)
      PROVE  /\ new[i].type = "privacy" => s \in ask2
             /\ new[i].type = "location" => s \in loc2 /\ <<"location", s>> \notin unanswered
             /\ new[i].type = "complete" => s \in done2
  <2>1. CASE i = p
    BY <1>1, <1>6, <2>1 DEF IsAt, Kinds
  <2>2. CASE i # p
    BY <1>4, <1>5, <1>6, <2>2
  <2> QED
    BY <2>1, <2>2
<1>7. ASSUME NEW i \in 1 .. Len(new), NEW j \in 1 .. Len(new),
             IsAt(new, s, i), IsAt(new, s, j), i < j
      PROVE  /\ new[i].type # "complete"
             /\ ~(new[i].type = "location" /\ new[j].type = "location")
  <2>1. CASE i = p
    <3>1. m.session = s /\ new[i] = m /\ j # p /\ p # Len(q) + 1
      BY <1>1, <1>7, <2>1 DEF IsAt
    <3>2. new[j].type = "location" => s \in loc
      BY <1>4, <1>5, <1>7, <3>1
    <3> QED
      BY <3>1, <3>2
  <2>2. CASE i # p /\ j = p
    <3>1. m.session = s /\ new[j] = m
      BY <1>1, <1>7, <2>2 DEF IsAt
    <3> QED
      BY <1>4, <1>5, <1>7, <2>2, <3>1
  <2>3. CASE i # p /\ j # p
    <3>1. from(i) < from(j)
      BY <1>3, <1>7, <2>3
    <3> QED
      BY <1>4, <1>7, <2>3, <3>1 DEF Kinds
  <2> QED
    BY <2>1, <2>2, <2>3
<1>8. <<"location", s>> \in unanswered => s \in loc2
  BY DEF Kinds
<1> QED
  BY <1>6, <1>7, <1>8 DEF Kinds

\* The first message is read, after which a location is owed.
LEMMA KindsRead ==
    ASSUME NEW q, NEW new, NEW s, Len(q) \in Nat, Len(new) \in Nat, TakenOff(new, q),
           NEW ask, NEW loc, NEW done, NEW unanswered, Kinds(q, s, ask, loc, done, unanswered)
    PROVE  /\ Kinds(new, s, ask, loc, done, unanswered)
           /\ q[1].session = s /\ q[1].type = "location"
              => Kinds(new, s, ask, loc, done, unanswered \union {<<"location", s>>})
<1>1. /\ Len(q) = Len(new) + 1 /\ 1 \in 1 .. Len(q)
      /\ \A i \in 1 .. Len(new) : i + 1 \in 1 .. Len(q) /\ new[i] = q[i + 1]
  BY DEF TakenOff
<1>2. \A i \in 1 .. Len(new) : IsAt(new, s, i) =>
          IsAt(q, s, i + 1) /\ 1 < i + 1 /\ new[i].type = q[i + 1].type
  BY <1>1 DEF IsAt
<1>3. ASSUME NEW i \in 1 .. Len(new), NEW j \in 1 .. Len(new),
             IsAt(new, s, i), IsAt(new, s, j), i < j
      PROVE  /\ new[i].type # "complete"
             /\ ~(new[i].type = "location" /\ new[j].type = "location")
  <2>1. /\ i + 1 \in 1 .. Len(q) /\ IsAt(q, s, i + 1) /\ new[i].type = q[i + 1].type
        /\ j + 1 \in 1 .. Len(q) /\ IsAt(q, s, j + 1) /\ new[j].type = q[j + 1].type
        /\ i + 1 < j + 1
    BY <1>1, <1>2, <1>3
  <2> QED
    BY <2>1 DEF Kinds
<1>4. \A i \in 1 .. Len(new) : IsAt(new, s, i) =>
          /\ new[i].type = "privacy" => s \in ask
          /\ new[i].type = "location" => s \in loc /\ <<"location", s>> \notin unanswered
          /\ new[i].type = "complete" => s \in done
  BY <1>1, <1>2 DEF Kinds
<1>5. Kinds(new, s, ask, loc, done, unanswered)
  BY <1>3, <1>4 DEF Kinds
<1>6. ASSUME q[1].session = s, q[1].type = "location"
      PROVE  Kinds(new, s, ask, loc, done, unanswered \union {<<"location", s>>})
  <2>1. IsAt(q, s, 1) /\ s \in loc
    BY <1>1, <1>6 DEF IsAt, Kinds
  <2>2. ASSUME NEW i \in 1 .. Len(new), IsAt(new, s, i)
        PROVE  new[i].type # "location"
    <3>1. i + 1 \in 1 .. Len(q) /\ IsAt(q, s, i + 1) /\ 1 < i + 1
      BY <1>1, <1>2, <2>2
    <3> QED
      BY <1>1, <1>2, <1>6, <2>1, <2>2, <3>1 DEF Kinds
  <2> QED
    BY <1>3, <1>4, <2>1, <2>2 DEF Kinds
<1> QED
  BY <1>5, <1>6

\* Other things happen to sessions than messages.
LEMMA KindsKept ==
    ASSUME NEW q, NEW s,
           NEW ask, NEW loc, NEW done, NEW unanswered, Kinds(q, s, ask, loc, done, unanswered),
           NEW ask2, NEW loc2, NEW done2, NEW unanswered2,
           ask \subseteq ask2, done \subseteq done2,
           <<"location", s>> \in unanswered2 => <<"location", s>> \in unanswered,
           \/ loc \subseteq loc2
           \/ <<"location", s>> \in unanswered /\ <<"location", s>> \notin unanswered2
    PROVE  Kinds(q, s, ask2, loc2, done2, unanswered2)
BY DEF Kinds

\* A message that is sent is put in; as the last one unless it is an emergency
\* request.
LEMMA WaitsSend ==
    ASSUME NEW ch \in RequestChannels(SessionMessage), RequestIdleInv(ch),
           NEW m \in SessionMessage,
           m.emergency /\ m.type \in EmergencyKind
              => \A i \in 1 .. Len(ch.emergency) : ch.emergency[i] # m.type
    PROVE  \E p \in 1 .. Len(Waits(ch)) + 1 :
              /\ PutIn(Waits(SendNetRequestMessage(ch, m)), Waits(ch), m, p)
              /\ m.type = "complete" => p = Len(Waits(ch)) + 1
<1> DEFINE new == SendNetRequestMessage(ch, m)
           f == IF ch.unread = None THEN 0 ELSE 1
           f2 == IF new.unread = None THEN 0 ELSE 1
           e == Len(ch.emergency)
           b == Len(ch.buffer)
           e2 == Len(new.emergency)
           b2 == Len(new.buffer)
           q == Waits(ch)
           out == Waits(new)
<1>0. new \in RequestChannels(SessionMessage)
  BY SendNetRequestTyped
<1>a. /\ e \in Nat /\ b \in Nat
      /\ Len(q) = f + e + b
  BY WaitsPlaces
<1>1. /\ \A i \in 1 .. f : q[i] = ch.unread
      /\ \A i \in 1 .. e : q[f + i] = ch.slot[ch.emergency[i]]
      /\ \A i \in 1 .. b : q[f + e + i] = ch.buffer[i]
  BY WaitsPlaces
<1>b. /\ e2 \in Nat /\ b2 \in Nat
      /\ Len(out) = f2 + e2 + b2
  BY <1>0, WaitsPlaces
<1>2. /\ \A i \in 1 .. f2 : out[i] = new.unread
      /\ \A i \in 1 .. e2 : out[f2 + i] = new.slot[new.emergency[i]]
      /\ \A i \in 1 .. b2 : out[f2 + e2 + i] = new.buffer[i]
  BY <1>0, WaitsPlaces
<1>3. f \in {0, 1} /\ m # None
  BY GatewayAssumption
<1>4. CASE ch.active /\ m.emergency /\ m.type \in EmergencyKind
  <2> DEFINE p == f + e + 1
  <2>1. /\ new.emergency = Append(ch.emergency, m.type) /\ new.unread = ch.unread
        /\ new.slot = [ch.slot EXCEPT ![m.type] = m] /\ new.buffer = ch.buffer
        /\ ch.emergency \in Seq(EmergencyKind)
        /\ ch.slot \in [EmergencyKind -> SessionMessage \union {None}]
    BY <1>4 DEF SendNetRequestMessage, RequestChannels
  <2>2. /\ e2 = e + 1 /\ f2 = f
        /\ new.emergency[e + 1] = m.type /\ new.slot[m.type] = m
        /\ \A i \in 1 .. e :
              /\ new.emergency[i] = ch.emergency[i]
              /\ new.slot[new.emergency[i]] = ch.slot[ch.emergency[i]]
    <3> HIDE DEF new
    <3>1. /\ e2 = e + 1 /\ f2 = f
          /\ new.emergency[e + 1] = m.type /\ new.slot[m.type] = m
      BY <1>4, <2>1
    <3>2. ASSUME NEW i \in 1 .. e
          PROVE  new.emergency[i] = ch.emergency[i] /\ ch.emergency[i] \in EmergencyKind
      BY <2>1
    <3>3. \A k \in EmergencyKind : k # m.type => new.slot[k] = ch.slot[k]
      BY <2>1
    <3> QED
      BY <1>4, <3>1, <3>2, <3>3
  <2>n. b2 = b
    BY <2>1
  <2> HIDE DEF new, f, f2, e, b, e2, b2, q, out
  <2>3. p \in 1 .. Len(q) + 1 /\ Len(out) = Len(q) + 1 /\ out[p] = m
    <3>1. Len(out) = Len(q) + 1 /\ p \in 1 .. Len(q) + 1
      BY <1>a, <1>b, <1>3, <2>2, <2>n
    <3>2. e + 1 \in 1 .. e2
      BY <1>a, <2>2
    <3>3. out[f2 + (e + 1)] = m
      BY <1>2, <2>2, <3>2
    <3>4. f2 + (e + 1) = p
      BY <1>a, <1>3, <2>2
    <3> QED
      BY <3>1, <3>3, <3>4
  <2>4. ASSUME NEW i \in 1 .. Len(q)
        PROVE  IF i < p THEN out[i] = q[i] ELSE out[i + 1] = q[i]
    <3>1. CASE i <= f
      <4>1. i \in 1 .. f /\ i \in 1 .. f2 /\ i < p
        BY <1>a, <1>3, <2>2, <3>1
      <4> HIDE DEF p
      <4> QED
        BY <1>1, <1>2, <2>1, <4>1
    <3>2. CASE i > f /\ i < p
      <4> DEFINE j == i - f
      <4>1. j \in 1 .. e /\ j \in 1 .. e2 /\ f + j = i
        BY <1>a, <1>3, <2>2, <3>2
      <4> HIDE DEF j
      <4>2. q[f + j] = ch.slot[ch.emergency[j]]
        BY <1>1, <4>1
      <4>3. out[f2 + j] = new.slot[new.emergency[j]]
        BY <1>2, <4>1
      <4> HIDE DEF p
      <4> QED
        BY <2>2, <3>2, <4>1, <4>2, <4>3
    <3>3. CASE ~(i < p)
      <4> DEFINE j == i - (f + e)
      <4>1. /\ j \in 1 .. b /\ f + e + j = i
            /\ f + (e + 1) + j = i + 1
        BY <1>a, <1>3, <3>3
      <4> HIDE DEF j
      <4>2. q[f + e + j] = ch.buffer[j]
        BY <1>1, <4>1
      <4>3. out[f2 + e2 + j] = ch.buffer[j]
        BY <1>2, <2>1, <2>n, <4>1
      <4>4. out[i + 1] = q[i]
        BY <2>2, <4>1, <4>2, <4>3
      <4> QED
        BY <3>3, <4>4
    <3> QED
      BY <1>3, <3>1, <3>2, <3>3
  <2>5. PutIn(out, q, m, p)
    BY <2>3, <2>4 DEF PutIn
  <2>6. m.type # "complete"
    BY <1>4 DEF EmergencyKind
  <2> QED
    BY <2>3, <2>5, <2>6 DEF new, q, out
<1>5. CASE ch.active /\ ~(m.emergency /\ m.type \in EmergencyKind)
  <2> DEFINE p == Len(q) + 1
  <2>1. /\ new.emergency = ch.emergency /\ new.unread = ch.unread
        /\ new.slot = ch.slot /\ new.buffer = Append(ch.buffer, m)
        /\ ch.buffer \in Seq(SessionMessage)
    BY <1>5 DEF SendNetRequestMessage, SendNetworkResponse, RequestChannels
  <2>2. /\ b2 = b + 1 /\ f2 = f
        /\ new.buffer[b + 1] = m
        /\ \A i \in 1 .. b : new.buffer[i] = ch.buffer[i]
    <3> HIDE DEF new
    <3> QED
      BY <2>1
  <2>n. /\ b2 = b + 1 /\ e2 = e
        /\ f2 = f
    BY <2>1, <2>2
  <2> HIDE DEF new, f, f2, e, b, e2, b2, q, out
  <2>3. Len(out) = Len(q) + 1 /\ p \in 1 .. Len(q) + 1 /\ out[p] = m
    <3>1. Len(out) = Len(q) + 1 /\ p \in 1 .. Len(q) + 1
      BY <1>a, <1>b, <1>3, <2>n
    <3>2. /\ b + 1 \in 1 .. b2
          /\ f2 + e2 + (b + 1) = p
      BY <1>a, <1>3, <2>n
    <3> HIDE DEF p
    <3>3. out[f2 + e2 + (b + 1)] = m
      BY <1>2, <2>2, <3>2
    <3> QED
      BY <3>1, <3>2, <3>3
  <2>4. ASSUME NEW i \in 1 .. Len(q)
        PROVE  out[i] = q[i] /\ i < p
    <3>1. CASE i <= f
      <4>1. i \in 1 .. f /\ i \in 1 .. f2 /\ i < p
        BY <1>a, <1>3, <2>n, <3>1
      <4> HIDE DEF p
      <4> QED
        BY <1>1, <1>2, <2>1, <4>1
    <3>2. CASE i > f /\ i <= f + e
      <4> DEFINE j == i - f
      <4>1. j \in 1 .. e /\ j \in 1 .. e2 /\ f + j = i /\ i < p
        BY <1>a, <1>3, <2>n, <3>2
      <4> HIDE DEF j, p
      <4>2. q[f + j] = ch.slot[ch.emergency[j]]
        BY <1>1, <4>1
      <4>3. out[f2 + j] = ch.slot[ch.emergency[j]]
        BY <1>2, <2>1, <4>1
      <4> QED
        BY <2>n, <4>1, <4>2, <4>3
    <3>3. CASE i > f + e
      <4> DEFINE j == i - (f + e)
      <4>1. /\ j \in 1 .. b /\ f + e + j = i
            /\ j \in 1 .. b2 /\ i < p
        BY <1>a, <1>3, <2>n, <3>3
      <4> HIDE DEF j, p
      <4>2. q[f + e + j] = ch.buffer[j]
        BY <1>1, <4>1
      <4>3. out[f2 + e2 + j] = new.buffer[j]
        BY <1>2, <4>1
      <4> QED
        BY <2>2, <2>n, <4>1, <4>2, <4>3
    <3> QED
      BY <1>a, <1>3, <3>1, <3>2, <3>3
  <2>5. PutIn(out, q, m, p)
    BY <2>3, <2>4 DEF PutIn
  <2> QED
    BY <2>3, <2>5 DEF new, q, out
<1>6. CASE ~ch.active
  <2>1. /\ new.unread = m /\ new.buffer = <<>> /\ new.emergency = <<>>
        /\ ch.unread = None /\ ch.buffer = <<>> /\ ch.emergency = <<>>
    BY <1>6 DEF SendNetRequestMessage, SendNetworkResponse, SendMessage, RequestChannels,
       RequestIdleInv
  <2>2. f = 0 /\ f2 = 1 /\ e = 0 /\ b = 0 /\ e2 = 0 /\ b2 = 0
    BY <1>3, <2>1
  <2> HIDE DEF new, f, f2, e, b, e2, b2, q, out
  <2>3. Len(q) = 0 /\ Len(out) = 1 /\ out[1] = m
    <3>1. Len(q) = 0 /\ Len(out) = 1
      BY <1>a, <1>b, <2>2
    <3>2. 1 \in 1 .. f2
      BY <2>2
    <3> QED
      BY <1>2, <2>1, <3>1, <3>2
  <2>4. PutIn(out, q, m, 1)
    BY <2>3 DEF PutIn
  <2> QED
    BY <2>3, <2>4 DEF new, q, out
<1> QED
  BY <1>4, <1>5, <1>6

\* The NRH reads what comes first.
LEMMA WaitsRead ==
    ASSUME NEW ch \in RequestChannels(SessionMessage), ch.unread # None
    PROVE  /\ Waits(ch)[1] = ch.unread
           /\ TakenOff(Waits([ch EXCEPT !.unread = None]), Waits(ch))
<1> DEFINE new == [ch EXCEPT !.unread = None]
           e == Len(ch.emergency)
           b == Len(ch.buffer)
           q == Waits(ch)
           out == Waits(new)
<1>0. /\ new \in RequestChannels(SessionMessage)
      /\ new.unread = None /\ new.emergency = ch.emergency /\ new.slot = ch.slot
      /\ new.buffer = ch.buffer
  BY DEF RequestChannels
<1> HIDE DEF new
<1>a. /\ e \in Nat /\ b \in Nat
      /\ Len(q) = 1 + e + b
  BY WaitsPlaces
<1>1. /\ \A i \in 1 .. 1 : q[i] = ch.unread
      /\ \A i \in 1 .. e : q[1 + i] = ch.slot[ch.emergency[i]]
      /\ \A i \in 1 .. b : q[1 + e + i] = ch.buffer[i]
  BY WaitsPlaces
<1>b. Len(out) = 0 + e + b
  BY <1>0, WaitsPlaces
<1>2. /\ \A i \in 1 .. e : out[0 + i] = ch.slot[ch.emergency[i]]
      /\ \A i \in 1 .. b : out[0 + e + i] = ch.buffer[i]
  BY <1>0, WaitsPlaces
<1> HIDE DEF q, out, e, b
<1>3. q[1] = ch.unread /\ Len(q) = Len(out) + 1
  <2>1. Len(q) = Len(out) + 1 /\ 1 \in 1 .. 1
    BY <1>a, <1>b
  <2> QED
    BY <1>1, <2>1
<1>4. ASSUME NEW i \in 1 .. Len(out)
      PROVE  out[i] = q[i + 1]
  <2>1. CASE i <= e
    <3>1. i \in 1 .. e /\ 0 + i = i /\ 1 + i = i + 1
      BY <1>a, <1>b, <2>1
    <3> QED
      BY <1>1, <1>2, <3>1
  <2>2. CASE i > e
    <3> DEFINE j == i - e
    <3>1. /\ j \in 1 .. b /\ 0 + e + j = i
          /\ 1 + e + j = i + 1
      BY <1>a, <1>b, <2>2
    <3> HIDE DEF j
    <3> QED
      BY <1>1, <1>2, <3>1
  <2> QED
    BY <1>a, <1>b, <2>1, <2>2
<1> QED
  BY <1>3, <1>4 DEF TakenOff, q, out, new

\* RunL moves what comes first to the channel.
LEMMA WaitsRunL ==
    ASSUME NEW ch \in RequestChannels(SessionMessage), SlotInv(ch), Acknowledged(ch)
    PROVE  Waits(RequestRunL(ch)) = Waits(ch)
<1> DEFINE new == RequestRunL(ch)
           e == Len(ch.emergency)
           b == Len(ch.buffer)
           e2 == Len(new.emergency)
           b2 == Len(new.buffer)
           q == Waits(ch)
           out == Waits(new)
           M == SessionMessage \union {None}
<1>1. new \in RequestChannels(SessionMessage)
  BY RequestRunLTyped DEF SlotInv
<1>a. /\ ch.unread = None
      /\ e \in Nat /\ b \in Nat /\ q \in Seq(M)
      /\ Len(q) = 0 + e + b
  BY WaitsPlaces DEF Acknowledged
<1>2. /\ \A i \in 1 .. e : q[0 + i] = ch.slot[ch.emergency[i]]
      /\ \A i \in 1 .. b : q[0 + e + i] = ch.buffer[i]
  BY WaitsPlaces DEF Acknowledged
<1>3. CASE ch.emergency # <<>>
  <2>1. /\ new.unread = ch.slot[Head(ch.emergency)] /\ new.emergency = Tail(ch.emergency)
        /\ new.slot = ch.slot /\ new.buffer = ch.buffer
        /\ ch.emergency \in Seq(EmergencyKind)
    BY <1>3 DEF RequestRunL, SendMessage, RequestChannels
  <2>2. /\ e >= 1 /\ e2 = e - 1
        /\ Head(ch.emergency) = ch.emergency[1]
        /\ \A i \in 1 .. e2 :
              i + 1 \in 1 .. e /\ new.emergency[i] = ch.emergency[i + 1]
    <3> HIDE DEF new
    <3> QED
      BY <1>3, <2>1
  <2>3. new.unread # None /\ new.unread = ch.slot[ch.emergency[1]]
    BY <2>1, <2>2 DEF SlotInv
  <2> HIDE DEF new
  <2>n. /\ e2 \in Nat /\ e = e2 + 1
    BY <1>1, <1>a, <2>2, WaitsPlaces
  <2>m. out \in Seq(M) /\ Len(out) = 1 + e2 + b
    BY <1>1, <2>1, <2>3, WaitsPlaces
  <2>4. /\ \A i \in 1 .. 1 : out[i] = new.unread
        /\ \A i \in 1 .. e2 : out[1 + i] = ch.slot[new.emergency[i]]
        /\ \A i \in 1 .. b : out[1 + e2 + i] = ch.buffer[i]
    BY <1>1, <2>1, <2>3, WaitsPlaces
  <2> HIDE DEF q, out, M, e, b, e2, b2
  <2>5. Len(out) = Len(q)
    BY <1>a, <2>n, <2>m
  <2>6. ASSUME NEW i \in 1 .. Len(out)
        PROVE  out[i] = q[i]
    <3>1. CASE i = 1
      <4>1. 1 \in 1 .. e /\ 1 \in 1 .. 1 /\ 0 + 1 = 1
        BY <1>a, <2>n
      <4> QED
        BY <1>2, <2>3, <2>4, <3>1, <4>1
    <3>2. CASE i > 1 /\ i <= e
      <4> DEFINE j == i - 1
      <4>1. j \in 1 .. e2 /\ 1 + j = i /\ j + 1 = i /\ 0 + i = i
            /\ i \in 1 .. e
        BY <1>a, <2>n, <3>2
      <4> HIDE DEF j
      <4>2. out[1 + j] = ch.slot[new.emergency[j]] /\ new.emergency[j] = ch.emergency[j + 1]
        BY <2>2, <2>4, <4>1
      <4>3. q[0 + i] = ch.slot[ch.emergency[i]]
        BY <1>2, <4>1
      <4> QED
        BY <4>1, <4>2, <4>3
    <3>3. CASE i > e
      <4> DEFINE j == i - e
      <4>1. /\ j \in 1 .. b /\ 1 + e2 + j = i
            /\ 0 + e + j = i
        BY <1>a, <2>n, <2>m, <3>3
      <4> HIDE DEF j
      <4> QED
        BY <1>2, <2>4, <4>1
    <3> QED
      BY <1>a, <2>n, <3>1, <3>2, <3>3
  <2> QED
    BY <1>a, <2>m, <2>5, <2>6, SeqEqual DEF new, q, out
<1>4. CASE ch.emergency = <<>> /\ ch.buffer # <<>>
  <2>1. /\ new.unread = Head(ch.buffer) /\ new.emergency = <<>>
        /\ new.buffer = Tail(ch.buffer) /\ ch.buffer \in Seq(SessionMessage)
    BY <1>4 DEF RequestRunL, SendNextBufferedMessage, SendMessage, RequestChannels
  <2>2. /\ b >= 1 /\ b2 = b - 1
        /\ Head(ch.buffer) = ch.buffer[1] /\ ch.buffer[1] \in SessionMessage
        /\ \A i \in 1 .. b2 : new.buffer[i] = ch.buffer[i + 1]
    <3> HIDE DEF new
    <3> QED
      BY <1>4, <2>1
  <2>3. new.unread # None /\ new.unread = ch.buffer[1]
    BY <2>1, <2>2, GatewayAssumption
  <2> HIDE DEF new
  <2>m. out \in Seq(M) /\ Len(out) = 1 + 0 + b2
    <3>1. e2 = 0
      BY <2>1
    <3> QED
      BY <1>1, <2>3, <3>1, WaitsPlaces
  <2>4. /\ \A i \in 1 .. 1 : out[i] = new.unread
        /\ \A i \in 1 .. b2 : out[1 + 0 + i] = new.buffer[i]
    <3>1. e2 = 0
      BY <2>1
    <3> QED
      BY <1>1, <2>3, <3>1, WaitsPlaces
  <2>5. e = 0
    BY <1>4
  <2> HIDE DEF q, out, M, e, b, e2, b2
  <2>6. Len(out) = Len(q)
    BY <1>a, <2>2, <2>m, <2>5
  <2>7. ASSUME NEW i \in 1 .. Len(out)
        PROVE  out[i] = q[i]
    <3>1. i \in 1 .. b /\ 0 + 0 + i = i
      BY <1>a, <2>5, <2>6
    <3>2. q[i] = ch.buffer[i]
      BY <1>2, <2>5, <3>1
    <3>3. CASE i = 1
      <4>1. 1 \in 1 .. 1
        OBVIOUS
      <4> QED
        BY <2>3, <2>4, <3>2, <3>3, <4>1
    <3>4. CASE i > 1
      <4> DEFINE j == i - 1
      <4>1. j \in 1 .. b2 /\ 1 + 0 + j = i /\ j + 1 = i
        BY <1>a, <2>2, <2>m, <3>4
      <4> HIDE DEF j
      <4> QED
        BY <2>2, <2>4, <3>2, <4>1
    <3> QED
      BY <3>1, <3>3, <3>4
  <2> QED
    BY <1>a, <2>m, <2>6, <2>7, SeqEqual DEF new, q, out
<1>5. CASE ch.emergency = <<>> /\ ch.buffer = <<>>
  BY <1>5 DEF RequestRunL, SendNextBufferedMessage, Waits, RequestChannels
<1> QED
  BY <1>3, <1>4, <1>5

\* The emergencies that occur together are at most one.
OneEmergencyAtATime ==
    \A sc \in Scenes : \A s, t \in Emergency \intersect sc : s = t

OnceInv ==
    /\ scene \in Scenes
    /\ RequestIdleInv(nrh)
    /\ \A k \in EmergencyKind : nrh.slot[k] # None => nrh.slot[k].session \in scene
    /\ \A s \in Emergency :
          /\ Served(Waits(nrh), s, readLog[s], sent[s])
          /\ Kinds(Waits(nrh), s, asked, locating, closed, due)

\* Nothing waits at first.
LEMMA OnceInit == Init => OnceInv
<1> SUFFICES ASSUME Init PROVE OnceInv
  OBVIOUS
<1>1. nrh = RequestChannel /\ due = {} /\ scene \in Scenes
  BY DEF Init
<1>2. /\ nrh.active = FALSE /\ nrh.unread = None /\ nrh.buffer = <<>> /\ nrh.emergency = <<>>
      /\ \A k \in EmergencyKind : nrh.slot[k] = None
  BY <1>1 DEF RequestChannel
<1>3. Len(Waits(nrh)) = 0
  <2>1. nrh \in RequestChannels(SessionMessage)
    BY <1>1 DEF RequestChannel, RequestChannels
  <2> DEFINE e == Len(nrh.emergency)
             b == Len(nrh.buffer)
             f == IF nrh.unread = None THEN 0 ELSE 1
  <2>2. e = 0 /\ b = 0 /\ f = 0
    BY <1>2
  <2>3. Len(Waits(nrh)) = f + e + b
    BY <2>1, WaitsPlaces
  <2> HIDE DEF e, b, f
  <2> QED
    BY <2>2, <2>3
<1>4. ASSUME NEW s \in Emergency
      PROVE  Served(Waits(nrh), s, readLog[s], sent[s])
  <2>1. readLog[s] = <<>> /\ sent[s] = 0
    BY GatewayAssumption DEF Init, Session
  <2>2. Len(readLog[s]) = 0
    BY <2>1
  <2> QED
    BY <1>3, <2>1, <2>2 DEF Served
<1>5. \A s \in Emergency : Kinds(Waits(nrh), s, asked, locating, closed, due)
  BY <1>1, <1>3 DEF Kinds
<1> QED
  BY <1>1, <1>2, <1>4, <1>5 DEF OnceInv, RequestIdleInv

\* A kind that is listed is that of an emergency that occurs, whose request of
\* that kind waits.
LEMMA ListedWaits ==
    ASSUME ChannelInv, OnceInv, NEW i \in 1 .. Len(nrh.emergency)
    PROVE  LET k == nrh.emergency[i]
               s == nrh.slot[k].session
           IN /\ s \in Emergency \intersect scene
              /\ k = "location" => s \in locating
              /\ k = "privacy" => s \in asked
<1> DEFINE k == nrh.emergency[i]
           m == nrh.slot[k]
           f == IF nrh.unread = None THEN 0 ELSE 1
           e == Len(nrh.emergency)
           b == Len(nrh.buffer)
           q == Waits(nrh)
<1>1. k \in EmergencyKind /\ m # None /\ m.emergency /\ m.type = k /\ m \in Truthful
  <2>1. nrh \in RequestChannels(Truthful) /\ SlotInv(nrh)
    BY DEF ChannelInv
  <2>2. k \in EmergencyKind
    BY <2>1 DEF RequestChannels
  <2>3. m # None /\ m.emergency /\ m.type = k
    BY <2>1, <2>2 DEF SlotInv
  <2>4. m \in Truthful \union {None}
    BY <2>1, <2>2 DEF RequestChannels
  <2> QED
    BY <2>2, <2>3, <2>4
<1>2. m.session \in Emergency \intersect scene
  BY <1>1 DEF Truthful, OnceInv
<1>3. k = "privacy" => m.session \in asked
  BY <1>1 DEF Truthful
<1>4. e \in Nat /\ b \in Nat /\ f \in {0, 1} /\ Len(q) = f + e + b /\ q[f + i] = m
  BY WaitsPlaces DEF ChannelInv, TypeOK
<1> HIDE DEF k, m, q, e, b, f
<1>5. f + i \in 1 .. Len(q)
  BY <1>4 DEF e
<1>6. IsAt(q, m.session, f + i)
  BY <1>4, <1>5 DEF IsAt
<1>7. k = "location" => m.session \in locating
  BY <1>1, <1>2, <1>4, <1>5, <1>6 DEF OnceInv, Kinds, q
<1> QED
  BY <1>2, <1>3, <1>7 DEF k, m

\* What the module of s may send, and what it then has done.
MaySend(s, type) ==
    /\ s \notin closed
    /\ type = "privacy" => s \notin asked /\ s \in asked'
    /\ type = "location" => s \notin locating /\ s \in locating'
    /\ type = "complete" => s \in closed'

\* A message is sent to the NRH.
LEMMA OnceToNrh ==
    ASSUME OneEmergencyAtATime, ChannelInv, OnceInv, NEW s \in Session, s \in scene,
           NEW type \in MessageType, ToNrh(s, type), readLog' = readLog, due' = due,
           scene' = scene, asked \subseteq asked', locating \subseteq locating',
           closed \subseteq closed', s \in Emergency => MaySend(s, type)
    PROVE  OnceInv'
<1> DEFINE m == Message(s, type)
<1>1. /\ nrh' = SendNetRequestMessage(nrh, m) /\ sent' = [sent EXCEPT ![s] = sent[s] + 1]
      /\ nrh \in RequestChannels(SessionMessage) /\ RequestIdleInv(nrh)
      /\ sent \in [Session -> Nat] /\ readLog \in [Session -> Seq(Nat)]
  BY DEF ToNrh, ChannelInv, TypeOK, OnceInv
<1>2. /\ m \in SessionMessage /\ m.session = s /\ m.n = sent[s] + 1 /\ m.type = type
      /\ m.emergency = (s \in Emergency)
  <2>1. (s \in Emergency) \in BOOLEAN /\ sent[s] + 1 \in Nat
    BY <1>1
  <2> QED
    BY <2>1 DEF Message, SessionMessage, MessageType
<1> HIDE DEF m
<1>3. ASSUME m.emergency, m.type \in EmergencyKind, NEW i \in 1 .. Len(nrh.emergency)
      PROVE  nrh.emergency[i] # m.type
  <2>1. s \in Emergency \intersect scene /\ MaySend(s, type) /\ scene \in Scenes
    BY <1>2, <1>3 DEF OnceInv
  <2>2. nrh.emergency[i] = "location" => s \in locating
    BY <2>1, ListedWaits DEF OneEmergencyAtATime
  <2>3. nrh.emergency[i] = "privacy" => s \in asked
    BY <2>1, ListedWaits DEF OneEmergencyAtATime
  <2> QED
    BY <1>2, <1>3, <2>1, <2>2, <2>3 DEF MaySend, EmergencyKind
<1>4. PICK p \in 1 .. Len(Waits(nrh)) + 1 :
          /\ PutIn(Waits(nrh'), Waits(nrh), m, p)
          /\ m.type = "complete" => p = Len(Waits(nrh)) + 1
  BY <1>1, <1>2, <1>3, WaitsSend
<1>5. Waits(nrh)' = Waits(nrh')
  BY DEF Waits
<1>6. Len(Waits(nrh)) \in Nat
  BY <1>1, WaitsPlaces
<1>7. ASSUME NEW t \in Emergency
      PROVE  /\ Served(Waits(nrh'), t, readLog'[t], sent'[t])
             /\ Kinds(Waits(nrh'), t, asked', locating', closed', due')
  <2>1. /\ t \in Session /\ sent[t] \in Nat
        /\ Served(Waits(nrh), t, readLog[t], sent[t])
        /\ Kinds(Waits(nrh), t, asked, locating, closed, due)
    BY <1>1, GatewayAssumption DEF OnceInv, Session
  <2>2. sent'[t] = IF t = s THEN sent[t] + 1 ELSE sent[t]
    BY <1>1, <2>1
  <2>3. /\ m.session = t /\ m.n = sent[t] + 1
              => Served(Waits(nrh'), t, readLog[t], sent[t] + 1)
        /\ m.session # t => Served(Waits(nrh'), t, readLog[t], sent[t])
    BY <1>4, <1>6, <2>1, ServedPut
  <2>4. Served(Waits(nrh'), t, readLog'[t], sent'[t])
    BY <1>2, <2>2, <2>3
  <2>5. m.session = t => /\ t \notin closed
                         /\ m.type = "privacy" => t \in asked'
                         /\ m.type = "location" => t \notin locating /\ t \in locating'
                         /\ m.type = "complete" => t \in closed' /\ p = Len(Waits(nrh)) + 1
    BY <1>2, <1>4 DEF MaySend
  <2>6. Kinds(Waits(nrh'), t, asked', locating', closed', due)
    BY <1>4, <1>6, <2>1, <2>5, KindsPut
  <2> QED
    BY <2>4, <2>6
<1>8. RequestIdleInv(nrh')
  BY <1>1, GatewayAssumption
     DEF RequestIdleInv, SendNetRequestMessage, SendNetworkResponse, SendMessage, RequestChannels
<1>9. ASSUME NEW k \in EmergencyKind, nrh'.slot[k] # None
      PROVE  nrh'.slot[k].session \in scene
  <2>1. nrh'.slot[k] = nrh.slot[k] \/ nrh'.slot[k] = m
    BY <1>1 DEF SendNetRequestMessage, SendNetworkResponse, SendMessage, RequestChannels
  <2> QED
    BY <1>2, <1>9, <2>1 DEF OnceInv
<1>10. scene' \in Scenes
  BY DEF OnceInv
<1> QED
  BY <1>5, <1>7, <1>8, <1>9, <1>10 DEF OnceInv

\* The NRH reads a message.
LEMMA OnceNrhReads ==
    ASSUME ChannelInv, OnceInv, NrhReads
    PROVE  OnceInv'
<1> DEFINE m == nrh.unread
           q == Waits(nrh)
           new == Waits(nrh')
<1>1. /\ nrh' = [nrh EXCEPT !.unread = None] /\ sent' = sent /\ scene' = scene
      /\ readLog' = [readLog EXCEPT ![m.session] = Append(@, m.n)]
      /\ due' = IF m.type \in EmergencyKind THEN due \union {<<m.type, m.session>>} ELSE due
      /\ asked' = asked /\ locating' = locating /\ closed' = closed
      /\ m # None /\ m \in SessionMessage
      /\ nrh \in RequestChannels(SessionMessage) /\ RequestIdleInv(nrh)
      /\ sent \in [Session -> Nat] /\ readLog \in [Session -> Seq(Nat)]
  BY DEF NrhReads, ChannelInv, TypeOK, OnceInv, RequestChannels, gateway, fixed, world
<1>2. m.session \in Session /\ m.n \in Nat
  BY <1>1 DEF SessionMessage
<1>3. q[1] = m /\ TakenOff(new, q)
  BY <1>1, WaitsRead
<1>4. nrh' \in RequestChannels(SessionMessage)
  BY <1>1 DEF RequestChannels
<1>5. Len(q) \in Nat /\ Len(new) \in Nat
  BY <1>1, <1>4, WaitsPlaces
<1>6. Waits(nrh)' = new
  BY DEF Waits
<1> HIDE DEF m, q, new
<1>7. ASSUME NEW t \in Emergency
      PROVE  /\ Served(new, t, readLog'[t], sent'[t])
             /\ Kinds(new, t, asked', locating', closed', due')
  <2>1. /\ t \in Session /\ sent[t] \in Nat /\ readLog[t] \in Seq(Nat)
        /\ Served(q, t, readLog[t], sent[t])
        /\ Kinds(q, t, asked, locating, closed, due)
    BY <1>1, GatewayAssumption DEF OnceInv, Session, q
  <2>2. readLog'[t] = IF t = m.session THEN Append(readLog[t], m.n) ELSE readLog[t]
    BY <1>1, <2>1
  <2>3. /\ m.session = t => Served(new, t, Append(readLog[t], m.n), sent[t])
        /\ m.session # t => Served(new, t, readLog[t], sent[t])
    BY <1>2, <1>3, <1>5, <2>1, ServedRead
  <2>4. Served(new, t, readLog'[t], sent'[t])
    BY <1>1, <2>2, <2>3
  <2>5. /\ Kinds(new, t, asked, locating, closed, due)
        /\ m.session = t /\ m.type = "location"
           => Kinds(new, t, asked, locating, closed, due \union {<<"location", t>>})
    BY <1>3, <1>5, <2>1, KindsRead
  <2>6. Kinds(new, t, asked, locating, closed, due')
    <3>1. CASE m.session = t /\ m.type = "location"
      BY <1>1, <2>5, <3>1 DEF EmergencyKind
    <3>2. CASE ~(m.session = t /\ m.type = "location")
      <4>1. <<"location", t>> \in due' => <<"location", t>> \in due
        BY <1>1, <3>2
      <4> QED
        BY <2>5, <4>1, KindsKept
    <3> QED
      BY <3>1, <3>2
  <2> QED
    BY <1>1, <2>4, <2>6
<1>8. RequestIdleInv(nrh')
  BY <1>1 DEF RequestIdleInv, RequestChannels
<1>9. nrh'.slot = nrh.slot /\ scene' = scene
  BY <1>1 DEF RequestChannels
<1> QED
  BY <1>6, <1>7, <1>8, <1>9 DEF OnceInv

\* RunL of the channel to the NRH.
LEMMA OnceNrhRunL ==
    ASSUME ChannelInv, OnceInv, NrhRunL
    PROVE  OnceInv'
<1>1. /\ nrh' = RequestRunL(nrh) /\ sent' = sent /\ readLog' = readLog /\ scene' = scene
      /\ due' = due /\ asked' = asked /\ locating' = locating /\ closed' = closed
      /\ nrh \in RequestChannels(SessionMessage) /\ SlotInv(nrh) /\ Acknowledged(nrh)
  BY DEF NrhRunL, ChannelInv, TypeOK, readers, world, gateway, fixed
<1>2. Waits(nrh') = Waits(nrh)
  BY <1>1, WaitsRunL
<1>3. Waits(nrh)' = Waits(nrh')
  BY DEF Waits
<1>4. RequestIdleInv(nrh')
  BY <1>1 DEF RequestIdleInv, RequestRunL, SendNextBufferedMessage, SendMessage,
     RequestChannels, Acknowledged
<1>5. nrh'.slot = nrh.slot
  BY <1>1 DEF RequestRunL, SendNextBufferedMessage, SendMessage, RequestChannels
<1> QED
  BY <1>1, <1>2, <1>3, <1>4, <1>5 DEF OnceInv

\* Nothing is sent or read; a location that is no longer waited for was owed.
LEMMA OnceQuiet ==
    ASSUME ChannelInv, OnceInv, UNCHANGED <<nrh, sent, readLog, scene>>,
           asked \subseteq asked', closed \subseteq closed', due' \subseteq due,
           \A s \in Emergency :
              \/ s \in locating => s \in locating'
              \/ <<"location", s>> \in due /\ <<"location", s>> \notin due'
    PROVE  OnceInv'
<1>1. Waits(nrh)' = Waits(nrh)
  BY DEF Waits
<1>2. ASSUME NEW s \in Emergency
      PROVE  Kinds(Waits(nrh), s, asked', locating', closed', due')
  BY <1>2 DEF OnceInv, Kinds
<1> QED
  BY <1>1, <1>2 DEF OnceInv

\* What a module does keeps the invariant.
LEMMA OnceModuleCalls ==
    ASSUME OneEmergencyAtATime, ChannelInv, OnceInv, ModuleCalls
    PROVE  OnceInv'
<1> USE DEF gateway, fixed, channels, readers, world
<1>1. ASSUME NEW s \in Session, ProcessLocationRequest(s)
      PROVE  OnceInv'
  <2>1. /\ s \in scene /\ s \notin closed /\ s \notin locating
        /\ locating' = locating \union {s} /\ asked' = asked /\ closed' = closed
        /\ due' = due /\ scene' = scene /\ readLog' = readLog
        /\ ToNrh(s, "location") \/ UNCHANGED <<nrh, sent>>
    BY <1>1 DEF ProcessLocationRequest, Working
  <2>2. MaySend(s, "location")
    BY <2>1 DEF MaySend
  <2>3. CASE ToNrh(s, "location")
    BY <2>1, <2>2, <2>3, OnceToNrh DEF MessageType
  <2>4. CASE UNCHANGED <<nrh, sent>>
    BY <2>1, <2>4, OnceQuiet
  <2> QED
    BY <2>1, <2>3, <2>4
<1>2. ASSUME NEW s \in Session, ProcessLocationUpdate(s)
      PROVE  OnceInv'
  <2>1. /\ s \in scene /\ s \notin closed /\ locating' = locating /\ asked' = asked
        /\ closed' = closed /\ due' = due /\ scene' = scene /\ readLog' = readLog
        /\ ToNrh(s, "update") \/ UNCHANGED <<nrh, sent>>
    BY <1>2 DEF ProcessLocationUpdate, Working
  <2>2. MaySend(s, "update")
    BY <2>1 DEF MaySend
  <2>3. CASE ToNrh(s, "update")
    BY <2>1, <2>2, <2>3, OnceToNrh DEF MessageType
  <2>4. CASE UNCHANGED <<nrh, sent>>
    BY <2>1, <2>4, OnceQuiet
  <2> QED
    BY <2>1, <2>3, <2>4
<1>3. ASSUME NEW s \in Session, ProcessSessionComplete(s)
      PROVE  OnceInv'
  <2>1. /\ s \in scene /\ s \notin closed /\ locating' = locating /\ asked' = asked
        /\ closed' = closed \union {s} /\ due' = due /\ scene' = scene /\ readLog' = readLog
        /\ ToNrh(s, "complete") \/ UNCHANGED <<nrh, sent>>
    BY <1>3 DEF ProcessSessionComplete, SessionCompleted, Working
  <2>2. MaySend(s, "complete")
    BY <2>1 DEF MaySend
  <2>3. CASE ToNrh(s, "complete")
    BY <2>1, <2>2, <2>3, OnceToNrh DEF MessageType
  <2>4. CASE UNCHANGED <<nrh, sent>>
    BY <2>1, <2>4, OnceQuiet
  <2> QED
    BY <2>1, <2>3, <2>4
<1>4. ASSUME NEW s \in NetSession, ProcessPrivacyRequest(s)
      PROVE  OnceInv'
  <2>1. /\ s \in scene /\ s \notin closed /\ s \notin asked /\ locating' = locating
        /\ asked' = asked \union {s} /\ closed' = closed /\ due' = due /\ scene' = scene
        /\ readLog' = readLog
        /\ ToNrh(s, "privacy") \/ UNCHANGED <<nrh, sent>>
    BY <1>4 DEF ProcessPrivacyRequest, Working
  <2>2. MaySend(s, "privacy") /\ s \in Session
    BY <2>1 DEF MaySend, Session
  <2>3. CASE ToNrh(s, "privacy")
    BY <2>1, <2>2, <2>3, OnceToNrh DEF MessageType
  <2>4. CASE UNCHANGED <<nrh, sent>>
    BY <2>1, <2>4, OnceQuiet
  <2> QED
    BY <2>1, <2>3, <2>4
<1>5. ASSUME NEW mask \in Masks, NEW reason \in Reason, ProcessAssistanceData(mask, reason)
      PROVE  OnceInv'
  <2>1. UNCHANGED <<nrh, sent, readLog, scene, asked, closed, due, locating>>
    BY <1>5 DEF ProcessAssistanceData
  <2> QED
    BY <2>1, OnceQuiet
<1> QED
  BY <1>1, <1>2, <1>3, <1>4, <1>5 DEF ModuleCalls

\* What a client on the terminal does keeps the invariant: it has no emergency.
LEMMA OnceClientCalls ==
    ASSUME OneEmergencyAtATime, ChannelInv, OnceInv, ClientCalls
    PROVE  OnceInv'
<1> USE DEF gateway, fixed, channels, readers, world
<1>1. ASSUME NEW s \in SetSession,
             \/ OnSelfLocationRequest(s) \/ NetworkLocationRequest(s)
             \/ TransmitLocationRequest(s)
             \/ \E m \in Module \union {None} : PsyLocationRequest(s, m)
      PROVE  OnceInv'
  <2>1. s \in Session /\ s \notin Emergency
    BY GatewayAssumption DEF Session
  <2>2. /\ s \in scene /\ UNCHANGED <<locating, asked, due, scene, readLog>>
        /\ \/ ToNrh(s, "complete") /\ closed' = closed \union {s}
           \/ UNCHANGED <<nrh, sent, closed>>
    BY <1>1 DEF OnSelfLocationRequest, NetworkLocationRequest, TransmitLocationRequest,
       PsyLocationRequest, NewSession, SessionCompleted
  <2>3. CASE ToNrh(s, "complete") /\ closed' = closed \union {s}
    BY <2>1, <2>2, <2>3, OnceToNrh DEF MessageType
  <2>4. CASE UNCHANGED <<nrh, sent, closed>>
    BY <2>2, <2>4, OnceQuiet
  <2> QED
    BY <2>2, <2>3, <2>4
<1>2. ASSUME (\E k \in ClientKind : Cancel(k)) \/ \E mask \in Masks : OnAssistanceDataRequest(mask)
      PROVE  OnceInv'
  <2>1. UNCHANGED <<nrh, sent, readLog, scene, asked, closed, due, locating>>
    BY <1>2 DEF Cancel, OnAssistanceDataRequest
  <2> QED
    BY <2>1, OnceQuiet
<1> QED
  BY <1>1, <1>2 DEF ClientCalls

\* Every step keeps the invariant.
LEMMA OnceNext == OneEmergencyAtATime /\ ChannelInv /\ OnceInv /\ [Next]_vars => OnceInv'
<1> SUFFICES ASSUME OneEmergencyAtATime, ChannelInv, OnceInv, [Next]_vars
             PROVE  OnceInv'
  OBVIOUS
<1> USE DEF gateway, fixed, channels, readers, world
<1>1. ASSUME NEW s \in Session, LocationResponse(s)
      PROVE  OnceInv'
  <2>1. /\ UNCHANGED <<nrh, sent, readLog, scene, asked, closed>>
        /\ <<"location", s>> \in due /\ due' = due \ {<<"location", s>>}
        /\ locating' \in {locating, locating \ {s}}
    BY <1>1 DEF LocationResponse
  <2>2. ASSUME NEW t \in Emergency
        PROVE  \/ t \in locating => t \in locating'
               \/ <<"location", t>> \in due /\ <<"location", t>> \notin due'
    BY <2>1
  <2> QED
    BY <2>1, <2>2, OnceQuiet
<1>2. ASSUME NEW s \in NetSession, PrivacyResponse(s)
      PROVE  OnceInv'
  <2>1. /\ UNCHANGED <<nrh, sent, readLog, scene, asked, closed, locating>>
        /\ due' = due \ {<<"privacy", s>>}
    BY <1>2 DEF PrivacyResponse
  <2> QED
    BY <2>1, OnceQuiet
<1>3. ASSUME \/ \E new \in {"none", "home", "roaming"} : OnNetworkRegistrationStatusChange(new)
             \/ RejectPrivacyRequest \/ AgpsReads \/ PsyReads \/ AgpsChannelRunL \/ PsyRunL
             \/ UNCHANGED vars
      PROVE  OnceInv'
  <2>1. UNCHANGED <<nrh, sent, readLog, scene, asked, closed, due, locating>>
    BY <1>3 DEF OnNetworkRegistrationStatusChange, RejectPrivacyRequest, AgpsReads, PsyReads,
       AgpsChannelRunL, PsyRunL, vars
  <2> QED
    BY <2>1, OnceQuiet
<1> QED
  BY <1>1, <1>2, <1>3, OnceModuleCalls, OnceClientCalls, OnceNrhReads, OnceNrhRunL
     DEF Next, Responses

\* The invariant is what EmergencyOnce says.
LEMMA OnceMeans == ChannelInv /\ OnceInv => EmergencyOnce
<1> SUFFICES ASSUME ChannelInv, OnceInv, NEW s \in Emergency
             PROVE  LET read == {readLog[s][i] : i \in DOMAIN readLog[s]}
                    IN /\ read \union Waiting(s) = 1 .. sent[s]
                       /\ read \intersect Waiting(s) = {}
                       /\ \A i, j \in DOMAIN readLog[s] :
                             i # j => readLog[s][i] # readLog[s][j]
                       /\ \A i, j \in Mine(s) :
                             i < j => /\ Outstanding[i].n # Outstanding[j].n
                                      /\ Outstanding[i].type # "complete"
  BY DEF EmergencyOnce
<1> DEFINE q == Waits(nrh)
           log == readLog[s]
           high == sent[s]
           read == {log[i] : i \in DOMAIN log}
<1>1. Outstanding = q
  BY DEF Outstanding, Waits
<1>2. Served(q, s, log, high) /\ Kinds(q, s, asked, locating, closed, due)
  BY DEF OnceInv
<1>3. DOMAIN log = 1 .. Len(log) /\ DOMAIN q = 1 .. Len(q) /\ Len(q) \in Nat
  <2>1. log \in Seq(Nat) /\ q \in Seq(SessionMessage \union {None})
    BY WaitsPlaces, GatewayAssumption DEF ChannelInv, TypeOK, Session
  <2> QED
    BY <2>1
<1> HIDE DEF q, log, high
<1>4. \A i : i \in Mine(s) <=> i \in 1 .. Len(q) /\ IsAt(q, s, i)
  BY <1>1, <1>3 DEF Mine, IsAt
<1>5. \A v : v \in Waiting(s) <=> \E i \in 1 .. Len(q) : IsAt(q, s, i) /\ q[i].n = v
  BY <1>1, <1>4 DEF Waiting
<1>6. \A v : v \in read <=> \E j \in 1 .. Len(log) : log[j] = v
  BY <1>3
<1> HIDE DEF read
<1>7. read \union Waiting(s) = 1 .. high
  BY <1>2, <1>5, <1>6 DEF Served
<1>8. read \intersect Waiting(s) = {}
  BY <1>2, <1>5, <1>6 DEF Served
<1>9. \A i, j \in DOMAIN log : i # j => log[i] # log[j]
  BY <1>2, <1>3 DEF Served
<1>10. ASSUME NEW i \in Mine(s), NEW j \in Mine(s), i < j
       PROVE  q[i].n # q[j].n /\ q[i].type # "complete"
  <2>1. i \in 1 .. Len(q) /\ IsAt(q, s, i) /\ j \in 1 .. Len(q) /\ IsAt(q, s, j) /\ i # j
    BY <1>4, <1>10
  <2>2. q[i].n # q[j].n
    BY <1>2, <2>1 DEF Served
  <2>3. q[i].type # "complete"
    BY <1>2, <1>10, <2>1 DEF Kinds
  <2> QED
    BY <2>2, <2>3
<1> QED
  BY <1>1, <1>7, <1>8, <1>9, <1>10 DEF read, log, high

\* Where one emergency occurs at a time: its requests overtake what waits, and
\* still the NRH reads each of its messages once, loses none, and reads its
\* completion last (SendNetRequestMessage, RunL of CNetworkRequestChannel).
THEOREM EmergenciesReadOnce == OneEmergencyAtATime => (Spec => []EmergencyOnce)
<1> SUFFICES ASSUME OneEmergencyAtATime PROVE Spec => []EmergencyOnce
  OBVIOUS
<1>1. ChannelInv /\ OnceInv /\ [Next]_vars => OnceInv'
  BY OnceNext
<1> QED
  BY <1>1, OnceInit, OnceMeans, ChannelInvariant, PTL DEF Spec

=============================================================================
