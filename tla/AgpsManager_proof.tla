------------------------- MODULE AgpsManager_proof -------------------------
(***************************************************************************)
(* Theorems about the AGPS manager, for a GPS module of any capability and *)
(* any number of requests, sessions and messages.                          *)
(*                                                                         *)
(* An action calls operators from world to world, and so do the proofs:    *)
(* Base holds of the worlds within a step, Served of those in which the    *)
(* requests have been combined, and a step ends in a world of both.        *)
(***************************************************************************)
EXTENDS AgpsManager, PosMethods_proof

-----------------------------------------------------------------------------
(***************************************************************************)
(* The queue of messages to the gateway.                                   *)
(***************************************************************************)

\* What a concatenation is made of.
LEMMA ConcatGives ==
    ASSUME NEW S, NEW a \in Seq(S), NEW b \in Seq(S)
    PROVE  /\ a \o b \in Seq(S) /\ Len(a \o b) = Len(a) + Len(b)
           /\ \A j \in 1 .. Len(a) + Len(b) :
                 (a \o b)[j] = IF j <= Len(a) THEN a[j] ELSE b[j - Len(a)]
OBVIOUS

\* RemoveAt moves what is behind the place forward.
LEMMA RemoveAtGives ==
    ASSUME NEW S, NEW q \in Seq(S), NEW i \in 1 .. Len(q)
    PROVE  /\ RemoveAt(q, i) \in Seq(S)
           /\ Len(RemoveAt(q, i)) = Len(q) - 1
           /\ \A j \in 1 .. Len(q) - 1 :
                 RemoveAt(q, i)[j] = IF j < i THEN q[j] ELSE q[j + 1]
<1> DEFINE a == SubSeq(q, 1, i - 1)
           b == SubSeq(q, i + 1, Len(q))
<1>1. a \in Seq(S) /\ Len(a) = i - 1 /\ \A j \in 1 .. i - 1 : a[j] = q[j]
  OBVIOUS
<1>2. b \in Seq(S) /\ Len(b) = Len(q) - i /\ \A j \in 1 .. Len(q) - i : b[j] = q[j + i]
  OBVIOUS
<1> HIDE DEF a, b
<1>3. /\ a \o b \in Seq(S) /\ Len(a \o b) = Len(a) + Len(b)
      /\ \A j \in 1 .. Len(a) + Len(b) :
            (a \o b)[j] = IF j <= Len(a) THEN a[j] ELSE b[j - Len(a)]
  BY <1>1, <1>2, ConcatGives
<1>4. RemoveAt(q, i) = a \o b
  BY DEF RemoveAt, a, b
<1>5. Len(a) + Len(b) = Len(q) - 1
  BY <1>1, <1>2
<1>6. ASSUME NEW j \in 1 .. Len(q) - 1
      PROVE  (a \o b)[j] = IF j < i THEN q[j] ELSE q[j + 1]
  <2>1. CASE j < i
    BY <1>1, <1>3, <1>5, <2>1
  <2>2. CASE ~(j < i)
    <3>1. j - (i - 1) \in 1 .. Len(q) - i /\ (j - (i - 1)) + i = j + 1
      BY <2>2
    <3>2. b[j - (i - 1)] = q[j + 1]
      BY <1>2, <3>1
    <3> QED
      BY <1>1, <1>3, <1>5, <2>2, <3>2
  <2> QED
    BY <2>1, <2>2
<1>7. \A j \in 1 .. Len(q) - 1 : (a \o b)[j] = IF j < i THEN q[j] ELSE q[j + 1]
  BY <1>6
<1>8. Len(a \o b) = Len(q) - 1 /\ a \o b \in Seq(S)
  BY <1>3, <1>5
<1> QED
  BY <1>4, <1>7, <1>8, Zenon

\* At most one message of a type waits; what waits about sessions and the
\* tracking flag is the latest there is, and a cancel waits behind its request.
QueueInv(q, s, t) ==
    /\ \A i, j \in 1 .. Len(q) : q[i].type = q[j].type => i = j
    /\ \A i \in 1 .. Len(q) :
          /\ q[i].type \in {"request", "cancel"} => q[i].value = s
          /\ q[i].type = "status" => q[i].value = t
    /\ \A i, j \in 1 .. Len(q) :
          q[i].type = "cancel" /\ q[j].type = "request" => j < i

Waits(q, type) == \E i \in 1 .. Len(q) : q[i].type = type

\* FindAndRemove takes the messages of one type and no others, and keeps the
\* order: what holds of every pair of messages still does.
LEMMA FindAndRemoveKeeps ==
    ASSUME NEW q \in Seq(Message), NEW s, NEW t, QueueInv(q, s, t), NEW type
    PROVE  LET r == FindAndRemove(q, type) IN
           /\ r \in Seq(Message)
           /\ QueueInv(r, s, t)
           /\ ~Waits(r, type)
           /\ \A k \in {"request", "cancel", "status", "assist"} \ {type} :
                 Waits(r, k) <=> Waits(q, k)
<1> DEFINE Found(i) == q[i].type = type /\ \A j \in 1 .. i - 1 : q[j].type # type
           r == FindAndRemove(q, type)
<1>1. CASE ~ \E i \in 1 .. Len(q) : q[i].type = type
  <2>1. r = q
    BY <1>1 DEF FindAndRemove
  <2> QED
    BY <1>1, <2>1 DEF Waits
<1>2. CASE \E i \in 1 .. Len(q) : q[i].type = type
  <2>1. PICK n \in 1 .. Len(q) : q[n].type = type
    BY <1>2
  <2>2. \A i \in 1 .. Len(q) : q[i].type = type => i = n
    BY <2>1 DEF QueueInv
  <2>3. \A i \in 1 .. Len(q) : Found(i) <=> i = n
    BY <2>1, <2>2
  <2>4. DOMAIN q = 1 .. Len(q)
    OBVIOUS
  <2>5. r = RemoveAt(q, n)
    <3>1. (CHOOSE i \in DOMAIN q : Found(i)) = n
      BY <2>3, <2>4
    <3> QED
      BY <2>3, <2>4, <3>1, Zenon DEF FindAndRemove
  <2> HIDE DEF r
  <2>6. /\ r \in Seq(Message) /\ Len(r) = Len(q) - 1
        /\ \A j \in 1 .. Len(q) - 1 : r[j] = IF j < n THEN q[j] ELSE q[j + 1]
    BY <2>5, RemoveAtGives
  <2> DEFINE At(j) == IF j < n THEN j ELSE j + 1
  <2>7. /\ \A j \in 1 .. Len(r) : At(j) \in 1 .. Len(q) /\ At(j) # n /\ r[j] = q[At(j)]
        /\ \A i, j \in 1 .. Len(r) : At(i) < At(j) <=> i < j
        /\ \A i, j \in 1 .. Len(r) : At(i) = At(j) => i = j
    BY <2>6
  <2>8. \A i \in 1 .. Len(q) : i # n => \E j \in 1 .. Len(r) : At(j) = i
    <3> TAKE i \in 1 .. Len(q)
    <3>1. CASE i < n
      <4>1. i \in 1 .. Len(r) /\ At(i) = i
        BY <2>6, <3>1
      <4> QED
        BY <4>1
    <3>2. CASE i > n
      <4>1. i - 1 \in 1 .. Len(r) /\ At(i - 1) = i
        BY <2>6, <3>2
      <4> QED
        BY <4>1
    <3> QED
      BY <3>1, <3>2
  <2> HIDE DEF At
  <2>9. QueueInv(r, s, t)
    <3>1. ASSUME NEW i \in 1 .. Len(r), NEW j \in 1 .. Len(r), r[i].type = r[j].type
          PROVE  i = j
      <4>1. At(i) = At(j)
        BY <2>7, <3>1 DEF QueueInv
      <4> QED
        BY <2>7, <4>1
    <3>2. ASSUME NEW i \in 1 .. Len(r), NEW j \in 1 .. Len(r),
                 r[i].type = "cancel", r[j].type = "request"
          PROVE  j < i
      <4>1. At(j) < At(i)
        BY <2>7, <3>2 DEF QueueInv
      <4> QED
        BY <2>7, <4>1
    <3>3. \A i \in 1 .. Len(r) :
            /\ r[i].type \in {"request", "cancel"} => r[i].value = s
            /\ r[i].type = "status" => r[i].value = t
      BY <2>7 DEF QueueInv
    <3> QED
      BY <3>1, <3>2, <3>3 DEF QueueInv
  <2>10. ~Waits(r, type)
    BY <2>2, <2>7 DEF Waits
  <2>11. ASSUME NEW k, k # type
         PROVE  Waits(r, k) <=> Waits(q, k)
    BY <2>1, <2>7, <2>8, <2>11 DEF Waits
  <2> QED
    BY <2>6, <2>9, <2>10, <2>11 DEF r
<1> QED
  BY <1>1, <1>2

\* A message that takes its place in the queue, in which nothing of its type
\* is left: with a request, no cancel, and the session is the new one.
LEMMA AppendKeeps ==
    ASSUME NEW q \in Seq(Message), NEW s, NEW t, QueueInv(q, s, t),
           NEW m \in Message, ~Waits(q, m.type),
           m.type \in {"request", "cancel"} => m.value = s,
           m.type = "status" => m.value = t,
           m.type = "request" => ~Waits(q, "cancel")
    PROVE  /\ Append(q, m) \in Seq(Message)
           /\ QueueInv(Append(q, m), s, t)
           /\ Waits(Append(q, m), m.type)
           /\ \A k : Waits(q, k) => Waits(Append(q, m), k)
<1> DEFINE r == Append(q, m)
<1>1. /\ r \in Seq(Message) /\ Len(r) = Len(q) + 1 /\ r[Len(q) + 1] = m
      /\ \A i \in 1 .. Len(q) : r[i] = q[i]
  OBVIOUS
<1> HIDE DEF r
<1>2. \A i \in 1 .. Len(r) : i = Len(q) + 1 \/ (i \in 1 .. Len(q) /\ r[i] = q[i])
  BY <1>1
<1>3. \A i \in 1 .. Len(q) : q[i].type # m.type
  BY DEF Waits
<1>4. \A i, j \in 1 .. Len(r) : r[i].type = r[j].type => i = j
  BY <1>1, <1>2, <1>3 DEF QueueInv
<1>5. \A i \in 1 .. Len(r) :
        /\ r[i].type \in {"request", "cancel"} => r[i].value = s
        /\ r[i].type = "status" => r[i].value = t
  BY <1>1, <1>2 DEF QueueInv
<1>6. ASSUME NEW i \in 1 .. Len(r), NEW j \in 1 .. Len(r),
             r[i].type = "cancel", r[j].type = "request"
      PROVE  j < i
  BY <1>1, <1>2, <1>3, <1>6 DEF QueueInv, Waits
<1>7. QueueInv(r, s, t)
  BY <1>4, <1>5, <1>6 DEF QueueInv
<1> QED
  BY <1>1, <1>2, <1>7 DEF Waits, r

-----------------------------------------------------------------------------
(***************************************************************************)
(* The line: the message being sent, and the queue behind it.  s is the    *)
(* number of the latest session, t the tracking flag, h the session the    *)
(* gateway has heard of last.                                              *)
(***************************************************************************)
LineInv(l, s, t, h) ==
    /\ l \in Seq(Message)
    /\ l = <<>> => h = s
    /\ l # <<>> =>
          /\ QueueInv(Tail(l), s, t)
          /\ Head(l).type = "request" => Waits(Tail(l), "request") \/ Head(l).value = s
          /\ Head(l).type # "request" => Waits(Tail(l), "request") \/ h = s
          /\ Head(l).type = "cancel" => h = Head(l).value
          /\ Head(l).type = "status" => Waits(Tail(l), "status") \/ Head(l).value = t

SendLine(l, type, value) ==
    IF l = <<>> THEN <<[type |-> type, value |-> value]>>
    ELSE <<Head(l)>> \o QueueMessage(Tail(l), type, value)

\* A line of one message, and one with a message before a queue.
LEMMA LineParts ==
    ASSUME NEW m \in Message, NEW q \in Seq(Message)
    PROVE  /\ <<m>> \in Seq(Message) /\ <<m>> # <<>> /\ Head(<<m>>) = m /\ Tail(<<m>>) = <<>>
           /\ <<m>> \o q \in Seq(Message) /\ <<m>> \o q # <<>>
           /\ Head(<<m>> \o q) = m /\ Tail(<<m>> \o q) = q
<1>1. /\ Len(<<m>> \o q) = Len(q) + 1 /\ <<m>> \o q \in Seq(Message)
      /\ (<<m>> \o q)[1] = m /\ \A i \in 1 .. Len(q) : (<<m>> \o q)[i + 1] = q[i]
  OBVIOUS
<1>2. Tail(<<m>> \o q) = q
  <2> DEFINE r == <<m>> \o q
  <2> HIDE DEF r
  <2>1. /\ r \in Seq(Message) /\ Len(r) = Len(q) + 1
        /\ \A i \in 1 .. Len(q) : r[i + 1] = q[i]
    BY <1>1 DEF r
  <2>2. /\ Tail(r) \in Seq(Message) /\ Len(Tail(r)) = Len(q)
        /\ \A i \in 1 .. Len(q) : Tail(r)[i] = r[i + 1]
    BY <2>1
  <2>3. \A i \in 1 .. Len(q) : Tail(r)[i] = q[i]
    BY <2>1, <2>2
  <2> QED
    BY <2>2, <2>3 DEF r
<1> QED
  BY <1>1, <1>2

\* What is sent next says what LineInv says of it; it may be the request of
\* a new session, or a new value of the tracking flag.
LEMMA SendLineKeeps ==
    ASSUME NEW l, NEW s \in Nat, NEW t, NEW h, LineInv(l, s, t, h),
           NEW s2 \in Nat, NEW t2, NEW type, NEW value,
           [type |-> type, value |-> value] \in Message,
           \/ type = "request" /\ value = s2 /\ t2 = t
           \/ type = "cancel" /\ value = s /\ s2 = s /\ t2 = t
           \/ type = "status" /\ value = t2 /\ s2 = s
           \/ type = "assist" /\ s2 = s /\ t2 = t
    PROVE  LineInv(SendLine(l, type, value), s2, t2, h)
<1> DEFINE m == [type |-> type, value |-> value]
<1>m. m.type = type /\ m.value = value /\ m \in Message
  OBVIOUS
<1> HIDE DEF m
<1>1. CASE l = <<>>
  <2>1. SendLine(l, type, value) = <<m>>
    BY <1>1 DEF SendLine, m
  <2>2. h = s
    BY <1>1 DEF LineInv
  <2>3. QueueInv(<<>>, s2, t2)
    BY DEF QueueInv
  <2>4. /\ <<m>> \in Seq(Message) /\ <<m>> # <<>> /\ Head(<<m>>) = m /\ Tail(<<m>>) = <<>>
    BY <1>m, LineParts
  <2> QED
    BY <1>m, <2>1, <2>2, <2>3, <2>4 DEF LineInv
<1>2. CASE l # <<>>
  <2> DEFINE q == Tail(l)
             c == Replaced(q, type)
             r == Append(c, m)
  <2>1. q \in Seq(Message) /\ QueueInv(q, s, t) /\ Head(l) \in Message
    BY <1>2 DEF LineInv
  <2>2. /\ c \in Seq(Message) /\ QueueInv(c, s, t) /\ ~Waits(c, type)
        /\ type = "request" => ~Waits(c, "cancel")
        /\ \A k \in {"request", "status"} \ {type} : Waits(q, k) => Waits(c, k)
    <3> HIDE DEF q
    <3>1. CASE type = "request"
      <4> DEFINE d == FindAndRemove(q, "request")
      <4>1. /\ d \in Seq(Message) /\ QueueInv(d, s, t) /\ ~Waits(d, "request")
            /\ Waits(d, "status") <=> Waits(q, "status")
        BY <2>1, FindAndRemoveKeeps
      <4>2. c = FindAndRemove(d, "cancel")
        BY <3>1 DEF Replaced
      <4> HIDE DEF d
      <4> QED
        BY <3>1, <4>1, <4>2, FindAndRemoveKeeps
    <3>2. CASE type # "request"
      <4>1. c = FindAndRemove(q, type)
        BY <3>2 DEF Replaced
      <4> QED
        BY <2>1, <3>2, <4>1, FindAndRemoveKeeps
    <3> QED
      BY <3>1, <3>2
  <2> HIDE DEF c
  <2>3. QueueInv(c, s2, t2)
    <3>1. type = "request" => \A i \in 1 .. Len(c) : c[i].type \notin {"request", "cancel"}
      BY <2>2 DEF Waits
    <3>2. type = "status" => \A i \in 1 .. Len(c) : c[i].type # "status"
      BY <2>2 DEF Waits
    <3> QED
      BY <2>2, <3>1, <3>2 DEF QueueInv
  <2>4. /\ r \in Seq(Message) /\ QueueInv(r, s2, t2) /\ Waits(r, type)
        /\ \A k : Waits(c, k) => Waits(r, k)
    BY <1>m, <2>2, <2>3, AppendKeeps
  <2>5. SendLine(l, type, value) = <<Head(l)>> \o r
    BY <1>2 DEF SendLine, QueueMessage, r, c, q, m
  <2> DEFINE new == <<Head(l)>> \o r
  <2> HIDE DEF r
  <2>6. new \in Seq(Message) /\ new # <<>> /\ Head(new) = Head(l) /\ Tail(new) = r
    BY <2>1, <2>4, LineParts
  <2>7. \A k \in {"request", "status"} : Waits(q, k) => Waits(r, k)
    BY <2>2, <2>4
  <2> HIDE DEF q, new
  <2>8. /\ Head(l).type = "request" => Waits(q, "request") \/ Head(l).value = s
        /\ Head(l).type # "request" => Waits(q, "request") \/ h = s
        /\ Head(l).type = "cancel" => h = Head(l).value
        /\ Head(l).type = "status" => Waits(q, "status") \/ Head(l).value = t
    BY <1>2 DEF LineInv, q
  <2>9. LineInv(new, s2, t2, h)
    BY <2>4, <2>6, <2>7, <2>8 DEF LineInv
  <2> QED
    BY <2>5, <2>9 DEF new
<1> QED
  BY <1>1, <1>2

\* The gateway reads the message being sent, and the next one is.
LEMMA ReadLineKeeps ==
    ASSUME NEW l, NEW s, NEW t, NEW h, LineInv(l, s, t, h), l # <<>>
    PROVE  /\ Head(l) \in Message
           /\ LineInv(Tail(l), s, t, IF Head(l).type = "request" THEN Head(l).value ELSE h)
<1> DEFINE q == Tail(l)
           g == IF Head(l).type = "request" THEN Head(l).value ELSE h
<1>1. Head(l) \in Message /\ q \in Seq(Message) /\ QueueInv(q, s, t)
  BY DEF LineInv
<1>2. Waits(q, "request") \/ g = s
  BY DEF LineInv
<1> HIDE DEF q, g
<1>3. CASE q = <<>>
  <2>1. ~Waits(q, "request")
    BY <1>3 DEF Waits
  <2>2. g = s
    BY <1>2, <2>1
  <2>3. LineInv(q, s, t, g)
    BY <1>1, <1>3, <2>2 DEF LineInv
  <2> QED
    BY <1>1, <2>3 DEF q, g
<1>4. CASE q # <<>>
  <2> DEFINE r == Tail(q)
  <2>1. /\ Len(q) \in Nat \ {0} /\ Head(q) = q[1] /\ r \in Seq(Message) /\ Len(r) = Len(q) - 1
        /\ \A i \in 1 .. Len(r) : r[i] = q[i + 1]
    BY <1>1, <1>4
  <2> HIDE DEF r
  <2>2. QueueInv(r, s, t)
    <3>1. \A i \in 1 .. Len(r) : i + 1 \in 1 .. Len(q) /\ r[i] = q[i + 1]
      BY <2>1
    <3>2. \A i, j \in 1 .. Len(r) : r[i].type = r[j].type => i = j
      <4> TAKE i, j \in 1 .. Len(r)
      <4>1. \A a, b \in 1 .. Len(q) : q[a].type = q[b].type => a = b
        BY <1>1 DEF QueueInv
      <4>2. r[i].type = r[j].type => i + 1 = j + 1
        BY <3>1, <4>1
      <4> QED
        BY <2>1, <4>2
    <3>3. \A i, j \in 1 .. Len(r) : r[i].type = "cancel" /\ r[j].type = "request" => j < i
      <4> TAKE i, j \in 1 .. Len(r)
      <4>1. \A a, b \in 1 .. Len(q) :
              q[a].type = "cancel" /\ q[b].type = "request" => b < a
        BY <1>1 DEF QueueInv
      <4>2. r[i].type = "cancel" /\ r[j].type = "request" => j + 1 < i + 1
        BY <3>1, <4>1
      <4> QED
        BY <2>1, <4>2
    <3>4. \A i \in 1 .. Len(r) :
            /\ r[i].type \in {"request", "cancel"} => r[i].value = s
            /\ r[i].type = "status" => r[i].value = t
      BY <1>1, <3>1 DEF QueueInv
    <3> QED
      BY <3>2, <3>3, <3>4 DEF QueueInv
  <2>3. \A k : Waits(q, k) => Head(q).type = k \/ Waits(r, k)
    <3> TAKE k
    <3> SUFFICES ASSUME NEW i \in 1 .. Len(q), q[i].type = k, i # 1
                 PROVE  Waits(r, k)
      BY <2>1 DEF Waits
    <3>1. i - 1 \in 1 .. Len(r) /\ r[i - 1] = q[i]
      BY <2>1
    <3> QED
      BY <3>1 DEF Waits
  <2>4. Head(q).type \in {"request", "cancel"} => Head(q).value = s
    BY <1>1, <2>1 DEF QueueInv
  <2>5. Head(q).type = "status" => Head(q).value = t
    BY <1>1, <2>1 DEF QueueInv
  <2>6. Head(q).type = "cancel" => ~Waits(q, "request")
    BY <1>1, <2>1 DEF QueueInv, Waits
  <2>7. /\ Head(q).type = "request" => Waits(r, "request") \/ Head(q).value = s
        /\ Head(q).type = "status" => Waits(r, "status") \/ Head(q).value = t
    BY <2>4, <2>5
  <2>8. Head(q).type # "request" => Waits(r, "request") \/ g = s
    BY <1>2, <2>3
  <2>9. Head(q).type = "cancel" => g = Head(q).value
    BY <1>2, <2>4, <2>6
  <2>10. LineInv(q, s, t, g)
    BY <1>1, <1>4, <2>2, <2>7, <2>8, <2>9 DEF LineInv, r
  <2> QED
    BY <1>1, <2>10 DEF q, g
<1> QED
  BY <1>1, <1>3, <1>4 DEF q, g

-----------------------------------------------------------------------------
(***************************************************************************)
(* Worlds.                                                                 *)
(***************************************************************************)
LsState == {"none", "received", "started", "receivedDuringSession", "completed"}

Worlds ==
    [req : [Channel -> Request], lsReq : LsState, lsMode : Method,
     cancelDue : BOOLEAN, method : Method, cells : BOOLEAN, netMode : Method,
     fallback : BOOLEAN, notify : BOOLEAN, session : Nat,
     tracking : {"unknown", "on", "off"}, timer : BOOLEAN,
     power : [Channel \union {"module"} -> 0..4], closing : BOOLEAN,
     line : Seq(Message), fault : BOOLEAN, locating : BOOLEAN,
     gateway : [heard : Nat, open : SUBSET Nat], owed : BOOLEAN]

\* The LS request asks for one method, which the module supports.
AsksOne(w) == \E m \in Supported : w.req["LS"].modes = {m}

\* What holds of the requests at any point of a step: those that count can be
\* combined.
Requested(w) ==
    /\ Active(w, "LS") => AsksOne(w)
    /\ w.cancelDue => w.req["NRH"].modes \in NrhMethods

\* Nothing the LS waits for is forgotten.
Remembered(w) == w.owed => Active(w, "LS") \/ w.notify

Announced(w) == LineInv(w.line, w.session, w.tracking, w.gateway.heard)

Powered(w) == ~w.closing => \A c \in Channel : w.power["module"] >= w.power[c]

Base(w) == w \in Worlds /\ Requested(w) /\ Announced(w) /\ Powered(w)

\* An active request of the LS has been combined before.
Settled(w) == ~w.closing /\ Active(w, "LS") => w.lsMode # None

\* What holds once the requests have been combined.
Served(w) == ~w.closing =>
    /\ \A c \in Channel : Active(w, c) => w.locating
    /\ w.cancelDue /\ Active(w, "NRH") => UNION w.req["NRH"].modes \subseteq w.method
    /\ ~w.cancelDue /\ Active(w, "LS") => w.method = w.lsMode

Good(w) == Base(w) /\ Remembered(w) /\ (w.fault \/ (Settled(w) /\ Served(w)))

\* Methods that can be asked for are methods, and none of them is none.
LEMMA SupportedMethods ==
    /\ Supported \subseteq Method /\ None \notin Supported
    /\ Dual \in Method /\ None \in Method /\ Autonomous \in Method
    /\ Autonomous # None /\ Fault \notin Method
BY DEF Supported, Method, None, Autonomous, TB, TA, Dual, Fault

\* The tracking timer is apart from all that is shown here.
LEMMA RestartTimerKeeps ==
    ASSUME NEW w \in Worlds
    PROVE  LET v == RestartTimerIfTracking(w) IN
           /\ v \in Worlds
           /\ v.req = w.req /\ v.lsReq = w.lsReq /\ v.lsMode = w.lsMode
           /\ v.cancelDue = w.cancelDue /\ v.method = w.method /\ v.cells = w.cells
           /\ v.netMode = w.netMode /\ v.notify = w.notify /\ v.session = w.session
           /\ v.tracking = w.tracking /\ v.power = w.power /\ v.closing = w.closing
           /\ v.line = w.line /\ v.fault = w.fault /\ v.locating = w.locating
           /\ v.gateway = w.gateway /\ v.owed = w.owed
           /\ Base(w) => Base(v)
           /\ Remembered(w) => Remembered(v)
           /\ Settled(w) => Settled(v)
           /\ Served(w) => Served(v)
<1> DEFINE x == w.tracking = "unknown" \/ (w.tracking = "on" /\ ~Active(w, "LS"))
           v == [w EXCEPT !.timer = x]
<1>1. RestartTimerIfTracking(w) = v
  BY DEF RestartTimerIfTracking
<1>2. x \in BOOLEAN
  OBVIOUS
<1> HIDE DEF x
<1>3. /\ v \in Worlds
      /\ v.req = w.req /\ v.lsReq = w.lsReq /\ v.lsMode = w.lsMode
      /\ v.cancelDue = w.cancelDue /\ v.method = w.method /\ v.cells = w.cells
      /\ v.netMode = w.netMode /\ v.notify = w.notify /\ v.session = w.session
      /\ v.tracking = w.tracking /\ v.power = w.power /\ v.closing = w.closing
      /\ v.line = w.line /\ v.fault = w.fault /\ v.locating = w.locating
      /\ v.gateway = w.gateway /\ v.owed = w.owed
  BY <1>2 DEF Worlds
<1> HIDE DEF v
<1>4. Base(w) => Base(v)
  BY <1>3 DEF Base, Requested, Announced, Powered, Active, AsksOne
<1>5. /\ Settled(w) => Settled(v)
      /\ Served(w) => Served(v)
      /\ Remembered(w) => Remembered(v)
  BY <1>3 DEF Settled, Served, Remembered, Active
<1> QED
  BY <1>1, <1>3, <1>4, <1>5

\* A request that is taken for ended.
LEMMA InvalidateGives ==
    ASSUME NEW w \in Worlds, NEW c \in Channel
    PROVE  LET v == Invalidate(w, c) IN
           /\ v \in Worlds
           /\ ~Active(v, c)
           /\ \A d \in Channel : d # c => (Active(v, d) <=> Active(w, d))
           /\ \A d \in Channel : /\ v.req[d].modes = w.req[d].modes
                                 /\ v.req[d].new = w.req[d].new
                                 /\ v.req[d].cells = w.req[d].cells
           /\ v.lsReq = w.lsReq /\ v.lsMode = w.lsMode
           /\ v.cancelDue = w.cancelDue /\ v.method = w.method /\ v.cells = w.cells
           /\ v.netMode = w.netMode /\ v.notify = w.notify /\ v.session = w.session
           /\ v.tracking = w.tracking /\ v.power = w.power /\ v.closing = w.closing
           /\ v.line = w.line /\ v.fault = w.fault /\ v.locating = w.locating
           /\ v.gateway = w.gateway /\ v.owed = w.owed
           /\ Settled(w) => Settled(v)
           /\ Served(w) => Served(v)
<1> DEFINE r == [w.req[c] EXCEPT !.state = "idle"]
           q == [w.req EXCEPT ![c] = r]
           v == [w EXCEPT !.req = q]
<1>1. Invalidate(w, c) = v
  BY DEF Invalidate
<1>2. w.req \in [Channel -> Request]
  BY DEF Worlds
<1>3. /\ r \in Request /\ r.state = "idle" /\ r.modes = w.req[c].modes
      /\ r.new = w.req[c].new /\ r.cells = w.req[c].cells
  BY <1>2 DEF Request
<1> HIDE DEF r
<1>4. q \in [Channel -> Request] /\ \A d \in Channel : q[d] = IF d = c THEN r ELSE w.req[d]
  BY <1>2, <1>3
<1> HIDE DEF q
<1>5. /\ v \in Worlds /\ v.req = q
      /\ v.lsReq = w.lsReq /\ v.lsMode = w.lsMode
      /\ v.cancelDue = w.cancelDue /\ v.method = w.method /\ v.cells = w.cells
      /\ v.netMode = w.netMode /\ v.notify = w.notify /\ v.session = w.session
      /\ v.tracking = w.tracking /\ v.power = w.power /\ v.closing = w.closing
      /\ v.line = w.line /\ v.fault = w.fault /\ v.locating = w.locating
      /\ v.gateway = w.gateway /\ v.owed = w.owed
  BY <1>4 DEF Worlds
<1> HIDE DEF v
<1>6. /\ ~Active(v, c)
      /\ \A d \in Channel : d # c => (Active(v, d) <=> Active(w, d))
      /\ \A d \in Channel : /\ v.req[d].modes = w.req[d].modes
                            /\ v.req[d].new = w.req[d].new
                            /\ v.req[d].cells = w.req[d].cells
  BY <1>3, <1>4, <1>5 DEF Active
<1>7. "LS" \in Channel /\ "NRH" \in Channel
  BY DEF Channel
<1>8. \A d \in Channel : Active(v, d) => Active(w, d)
  BY <1>6
<1>9. (Settled(w) => Settled(v)) /\ (Served(w) => Served(v))
  BY <1>5, <1>6, <1>7, <1>8 DEF Settled, Served
<1> QED
  BY <1>1, <1>5, <1>6, <1>9

\* What is sent keeps the line, whatever else the step does.
LEMMA SendGives ==
    ASSUME NEW w \in Worlds, NEW type, NEW value
    PROVE  /\ Send(w, type, value) = [w EXCEPT !.line = SendLine(w.line, type, value)]
BY DEF Send, SendLine

-----------------------------------------------------------------------------
(***************************************************************************)
(* Combining the requests.                                                 *)
(***************************************************************************)

\* The method the LS asks for is the one it asked for.
LEMMA LsMethodAsked ==
    ASSUME NEW w, AsksOne(w)
    PROVE  LsMethod(w) \in Supported /\ w.req["LS"].modes = {LsMethod(w)}
<1>1. PICK m \in Supported : w.req["LS"].modes = {m}
  BY DEF AsksOne
<1>2. LsMethod(w) = m
  BY <1>1 DEF LsMethod
<1> QED
  BY <1>1, <1>2

\* The contribution of the LS is a method, and one it can be given once it
\* has asked for any.
LEMMA ActiveLSModeGives ==
    ASSUME NEW w \in Worlds, NEW c, NEW reason,
           c = "LS" /\ reason = "request" => AsksOne(w)
    PROVE  /\ ActiveLSMode(w, c, reason) \in Method
           /\ c = "LS" /\ reason = "request" => ActiveLSMode(w, c, reason) # None
           /\ ~(c = "LS" /\ reason = "request") => ActiveLSMode(w, c, reason) = w.lsMode
<1>1. w.lsMode \in Method /\ w.netMode \in Method
  BY DEF Worlds
<1>2. CASE ~(c = "LS" /\ reason = "request")
  BY <1>1, <1>2 DEF ActiveLSMode
<1>3. CASE c = "LS" /\ reason = "request"
  <2>1. LsMethod(w) \in Supported
    BY <1>3, LsMethodAsked
  <2> QED
    BY <1>1, <1>3, <2>1, SupportedMethods DEF ActiveLSMode
<1> QED
  BY <1>2, <1>3

\* The method that is found, if one is, gives the NRH everything it asks for
\* while its request counts, and else the LS what it settled for.
LEMMA MethodFound ==
    ASSUME NEW w \in Worlds, w.cancelDue => w.req["NRH"].modes \in NrhMethods,
           CalculatePositioningMethod(w) # Fault
    PROVE  LET m == CalculatePositioningMethod(w) IN
           /\ m \in Method
           /\ w.cancelDue /\ (Active(w, "LS") => w.lsMode # None) =>
                 UNION w.req["NRH"].modes \subseteq m
           /\ ~w.cancelDue /\ Active(w, "LS") /\ w.lsMode # None => m = w.lsMode
<1> DEFINE m == CalculatePositioningMethod(w)
           nrh == w.req["NRH"].modes
<1>1. w.lsMode \in Method /\ w.method \in Method
  BY DEF Worlds
<1>2. \A n \in NrhMethods : UNION n \in Method
  BY NrhShapes, SupportedMethods
<1>3. ASSUME NEW ls, NEW n \in NrhMethods, LookUp(ls, n) # Fault
      PROVE  LookUp(ls, n) \in Method /\ UNION n \subseteq LookUp(ls, n)
  <2>1. ls \in Supported
    BY <1>3 DEF LookUp
  <2> QED
    BY <2>1, LookUpIsSettable, LookUpServes, SupportedMethods
<1>4. CASE Active(w, "LS") /\ w.cancelDue
  <2>1. m = LookUp(w.lsMode, nrh)
    BY <1>4 DEF CalculatePositioningMethod
  <2> QED
    BY <1>3, <1>4, <2>1
<1>5. CASE Active(w, "LS") /\ ~w.cancelDue
  <2>1. w.lsMode = None => m = w.method
    BY <1>5 DEF CalculatePositioningMethod
  <2>2. w.lsMode # None => m = w.lsMode
    BY <1>5 DEF CalculatePositioningMethod, LsOnly
  <2> QED
    BY <1>1, <1>5, <2>1, <2>2
<1>6. CASE ~Active(w, "LS") /\ w.cancelDue
  <2>1. CASE w.lsMode = None
    <3>1. m = UNION nrh
      BY <1>6, <2>1 DEF CalculatePositioningMethod, NrhOnly
    <3> QED
      BY <1>2, <1>6, <3>1
  <2>2. CASE w.lsMode # None
    <3>1. m = LookUp(w.lsMode, nrh)
      BY <1>6, <2>2 DEF CalculatePositioningMethod
    <3> QED
      BY <1>3, <1>6, <3>1
  <2> QED
    BY <2>1, <2>2
<1>7. CASE ~Active(w, "LS") /\ ~w.cancelDue
  <2>1. m = w.method
    BY <1>7 DEF CalculatePositioningMethod
  <2> QED
    BY <1>1, <1>7, <2>1
<1> QED
  BY <1>4, <1>5, <1>6, <1>7

\* What ConfigureGpsMode needs to know of the request that has changed.
Changed(w, c, reason) ==
    /\ c = "LS" /\ reason = "request" => AsksOne(w)
    /\ c = "NRH" /\ reason = "request" => w.req["NRH"].modes \in NrhMethods

\* ConfigureGpsMode fails, or sets the method that was found, and with it
\* the method of the LS and whether the NRH counts.
LEMMA ConfigureGives ==
    ASSUME NEW w \in Worlds, NEW c, NEW reason, ~w.fault, Changed(w, c, reason),
           w.cancelDue => w.req["NRH"].modes \in NrhMethods
    PROVE  LET v == ConfigureGpsMode(w, c, reason) IN
           /\ v \in Worlds
           /\ v.req = w.req /\ v.notify = w.notify /\ v.netMode = w.netMode
           /\ v.session = w.session /\ v.tracking = w.tracking /\ v.power = w.power
           /\ v.closing = w.closing /\ v.line = w.line /\ v.locating = w.locating
           /\ v.gateway = w.gateway /\ v.owed = w.owed
           /\ v.cancelDue => w.req["NRH"].modes \in NrhMethods
           /\ c = "NRH" /\ reason = "cancel" => ~v.cancelDue
           /\ c = "LS" /\ reason = "request" => v.lsMode # None
           /\ ~(c = "LS" /\ reason = "request") => v.lsMode = w.lsMode
           /\ ~v.fault /\ (Active(w, "LS") => v.lsMode # None) =>
                 /\ v.cancelDue => UNION w.req["NRH"].modes \subseteq v.method
                 /\ ~v.cancelDue /\ Active(w, "LS") => v.method = v.lsMode
<1> DEFINE ls == ActiveLSMode(w, c, reason)
           due == CancelDue(w, c, reason)
           x == [w EXCEPT !.lsMode = ls, !.cancelDue = due]
           m == CalculatePositioningMethod(x)
           v == ConfigureGpsMode(w, c, reason)
           new == IF ForcesSelfLocate(w, c, reason) THEN "received" ELSE x.lsReq
<1>1. /\ ls \in Method
      /\ c = "LS" /\ reason = "request" => ls # None
      /\ ~(c = "LS" /\ reason = "request") => ls = w.lsMode
  BY ActiveLSModeGives DEF Changed
<1>2. /\ due \in BOOLEAN
      /\ due => w.req["NRH"].modes \in NrhMethods
      /\ c = "NRH" /\ reason = "cancel" => ~due
  BY DEF CancelDue, Changed, Worlds
<1>3. /\ m = Fault => v = [x EXCEPT !.fault = TRUE]
      /\ m # Fault => \/ v = x /\ m = w.method
                      \/ v = [x EXCEPT !.method = m, !.cells = w.req["NRH"].cells,
                                       !.fallback = FALSE, !.lsReq = new]
  BY DEF ConfigureGpsMode
<1> HIDE DEF ls, due, v
<1>4. /\ x \in Worlds /\ x.lsMode = ls /\ x.cancelDue = due
      /\ x.req = w.req /\ x.notify = w.notify /\ x.netMode = w.netMode
      /\ x.session = w.session /\ x.tracking = w.tracking /\ x.power = w.power
      /\ x.closing = w.closing /\ x.line = w.line /\ x.locating = w.locating
      /\ x.gateway = w.gateway /\ x.owed = w.owed /\ x.fault = w.fault
      /\ x.method = w.method
  BY <1>1, <1>2 DEF Worlds
<1> HIDE DEF x
<1>5. Active(x, "LS") <=> Active(w, "LS")
  BY <1>4 DEF Active
<1>6. m # Fault =>
        /\ m \in Method
        /\ due /\ (Active(w, "LS") => ls # None) => UNION w.req["NRH"].modes \subseteq m
        /\ ~due /\ Active(w, "LS") /\ ls # None => m = ls
  BY <1>2, <1>4, <1>5, MethodFound
<1>7. new \in LsState
  BY <1>4 DEF Worlds, LsState
<1>8. w.req["NRH"].cells \in BOOLEAN
  BY DEF Worlds, Request, Channel
<1> HIDE DEF m, new
<1>9. /\ v \in Worlds /\ v.lsMode = ls /\ v.cancelDue = due
      /\ v.req = w.req /\ v.notify = w.notify /\ v.netMode = w.netMode
      /\ v.session = w.session /\ v.tracking = w.tracking /\ v.power = w.power
      /\ v.closing = w.closing /\ v.line = w.line /\ v.locating = w.locating
      /\ v.gateway = w.gateway /\ v.owed = w.owed
      /\ ~v.fault => m # Fault /\ v.method = m
  <2>1. CASE m = Fault
    <3>1. v = [x EXCEPT !.fault = TRUE]
      BY <1>3, <2>1
    <3> QED
      BY <1>4, <3>1 DEF Worlds
  <2>2. CASE m # Fault /\ v = x /\ m = w.method
    BY <1>4, <2>2
  <2>3. CASE /\ m # Fault
             /\ v = [x EXCEPT !.method = m, !.cells = w.req["NRH"].cells,
                              !.fallback = FALSE, !.lsReq = new]
    BY <1>4, <1>6, <1>7, <1>8, <2>3 DEF Worlds
  <2> QED
    BY <1>3, <2>1, <2>2, <2>3
<1>10. ~v.fault /\ (Active(w, "LS") => v.lsMode # None) =>
          /\ v.cancelDue => UNION w.req["NRH"].modes \subseteq v.method
          /\ ~v.cancelDue /\ Active(w, "LS") => v.method = v.lsMode
  BY <1>6, <1>9
<1> QED
  BY <1>1, <1>2, <1>9, <1>10 DEF v

\* Whether the module has a location request is a field of its own.
LEMMA LocatingIsApart ==
    ASSUME NEW w \in Worlds, NEW x \in BOOLEAN
    PROVE  LET v == [w EXCEPT !.locating = x] IN
           /\ v \in Worlds /\ v.locating = x
           /\ v.req = w.req /\ v.lsReq = w.lsReq /\ v.lsMode = w.lsMode
           /\ v.cancelDue = w.cancelDue /\ v.method = w.method
           /\ v.netMode = w.netMode /\ v.notify = w.notify /\ v.session = w.session
           /\ v.tracking = w.tracking /\ v.power = w.power /\ v.closing = w.closing
           /\ v.line = w.line /\ v.fault = w.fault
           /\ v.gateway = w.gateway /\ v.owed = w.owed
BY DEF Worlds

\* CombineLocationRequests, called when the request of the LS is new or was
\* combined before, leaves both requests served, or it fails.
LEMMA CombineServes ==
    ASSUME NEW w, Base(w), NEW c, NEW reason, ~w.fault, Changed(w, c, reason),
           Settled(w) \/ (c = "LS" /\ reason = "request")
    PROVE  LET v == Combine(w, c, reason) IN
           /\ Base(v)
           /\ Remembered(w) => Remembered(v)
           /\ ~v.fault => Settled(v) /\ Served(v)
           /\ c = "NRH" /\ reason = "cancel" => ~v.cancelDue
           /\ v.closing = w.closing /\ v.notify = w.notify
<1> DEFINE x == IF w.notify /\ Measures(w) THEN Invalidate(w, "LS") ELSE w
           y == ConfigureGpsMode(x, c, reason)
           v == Combine(w, c, reason)
<1>1. w \in Worlds /\ Requested(w) /\ Announced(w) /\ Powered(w)
  BY DEF Base
<1>c. Channel = {"LS", "NRH"}
  BY DEF Channel
<1>2. /\ x \in Worlds
      /\ \A d \in Channel : Active(x, d) => Active(w, d)
      /\ ~x.notify => (Active(x, "LS") <=> Active(w, "LS"))
      /\ x.req["LS"].modes = w.req["LS"].modes /\ x.req["NRH"].modes = w.req["NRH"].modes
      /\ x.lsMode = w.lsMode /\ x.cancelDue = w.cancelDue
      /\ x.notify = w.notify /\ x.session = w.session
      /\ x.tracking = w.tracking /\ x.power = w.power /\ x.closing = w.closing
      /\ x.line = w.line /\ x.fault = w.fault /\ x.gateway = w.gateway /\ x.owed = w.owed
  <2>1. CASE w.notify /\ Measures(w)
    BY <1>1, <1>c, <2>1, InvalidateGives
  <2>2. CASE ~(w.notify /\ Measures(w))
    BY <1>1, <2>2
  <2> QED
    BY <2>1, <2>2
<1>3. v = IF \E d \in Channel : Active(x, d) THEN [y EXCEPT !.locating = TRUE]
          ELSE IF reason = "cancel" /\ x.tracking # "on" THEN [y EXCEPT !.locating = FALSE]
          ELSE y
  BY DEF Combine
<1> HIDE DEF x, v
<1>4. Changed(x, c, reason)
  BY <1>2 DEF Changed, AsksOne
<1>5. /\ y \in Worlds
      /\ y.req = x.req /\ y.notify = x.notify
      /\ y.session = x.session /\ y.tracking = x.tracking /\ y.power = x.power
      /\ y.closing = x.closing /\ y.line = x.line
      /\ y.gateway = x.gateway /\ y.owed = x.owed
      /\ y.cancelDue => x.req["NRH"].modes \in NrhMethods
      /\ c = "NRH" /\ reason = "cancel" => ~y.cancelDue
      /\ c = "LS" /\ reason = "request" => y.lsMode # None
      /\ ~(c = "LS" /\ reason = "request") => y.lsMode = x.lsMode
      /\ ~y.fault /\ (Active(x, "LS") => y.lsMode # None) =>
            /\ y.cancelDue => UNION x.req["NRH"].modes \subseteq y.method
            /\ ~y.cancelDue /\ Active(x, "LS") => y.method = y.lsMode
  <2>1. x.cancelDue => x.req["NRH"].modes \in NrhMethods
    BY <1>1, <1>2 DEF Requested
  <2> QED
    BY <1>2, <1>4, <2>1, ConfigureGives
<1> HIDE DEF y
<1>6. /\ v \in Worlds
      /\ v.req = x.req /\ v.notify = w.notify
      /\ v.session = w.session /\ v.tracking = w.tracking /\ v.power = w.power
      /\ v.closing = w.closing /\ v.line = w.line
      /\ v.gateway = w.gateway /\ v.owed = w.owed
      /\ v.cancelDue = y.cancelDue /\ v.lsMode = y.lsMode /\ v.method = y.method
      /\ v.fault = y.fault
      /\ (\E d \in Channel : Active(x, d)) => v.locating
  <2>1. CASE \E d \in Channel : Active(x, d)
    <3>1. v = [y EXCEPT !.locating = TRUE]
      BY <1>3, <2>1
    <3> QED
      BY <1>2, <1>5, <3>1, LocatingIsApart
  <2>2. CASE ~(\E d \in Channel : Active(x, d)) /\ reason = "cancel" /\ x.tracking # "on"
    <3>1. v = [y EXCEPT !.locating = FALSE]
      BY <1>3, <2>2
    <3> QED
      BY <1>2, <1>5, <2>2, <3>1, LocatingIsApart
  <2>3. CASE ~(\E d \in Channel : Active(x, d)) /\ ~(reason = "cancel" /\ x.tracking # "on")
    BY <1>2, <1>3, <1>5, <2>3
  <2> QED
    BY <2>1, <2>2, <2>3
<1>7. \A d \in Channel : Active(v, d) <=> Active(x, d)
  BY <1>6 DEF Active
<1>8. Requested(v)
  <2>1. Active(v, "LS") => AsksOne(v)
    BY <1>1, <1>2, <1>6, <1>7, <1>c DEF Requested, AsksOne
  <2> QED
    BY <1>5, <1>6, <2>1 DEF Requested
<1>12. Remembered(w) => Remembered(v)
  BY <1>2, <1>6, <1>7, <1>c DEF Remembered
<1>9. Base(v)
  BY <1>1, <1>6, <1>8 DEF Base, Announced, Powered
<1>10. ~w.closing => (Active(x, "LS") => v.lsMode # None)
  BY <1>2, <1>5, <1>6, <1>c DEF Settled
<1>11. ~v.fault => Settled(v) /\ Served(v)
  BY <1>2, <1>5, <1>6, <1>7, <1>10, <1>c DEF Settled, Served
<1> QED
  BY <1>5, <1>6, <1>9, <1>11, <1>12 DEF v

-----------------------------------------------------------------------------
(***************************************************************************)
(* The other operators of the handlers.                                    *)
(***************************************************************************)

\* The request of one channel is replaced.
LEMMA SetRequestGives ==
    ASSUME NEW w \in Worlds, NEW c \in Channel, NEW r \in Request
    PROVE  LET v == [w EXCEPT !.req[c] = r] IN
           /\ v \in Worlds
           /\ v.req[c] = r /\ \A d \in Channel : d # c => v.req[d] = w.req[d]
           /\ v.lsReq = w.lsReq /\ v.lsMode = w.lsMode
           /\ v.cancelDue = w.cancelDue /\ v.method = w.method
           /\ v.netMode = w.netMode /\ v.notify = w.notify /\ v.session = w.session
           /\ v.tracking = w.tracking /\ v.power = w.power /\ v.closing = w.closing
           /\ v.line = w.line /\ v.fault = w.fault /\ v.locating = w.locating
           /\ v.gateway = w.gateway /\ v.owed = w.owed
<1> DEFINE q == [w.req EXCEPT ![c] = r]
           v == [w EXCEPT !.req = q]
<1>1. [w EXCEPT !.req[c] = r] = v
  OBVIOUS
<1>2. w.req \in [Channel -> Request]
  BY DEF Worlds
<1>3. /\ q \in [Channel -> Request] /\ q[c] = r
      /\ \A d \in Channel : d # c => q[d] = w.req[d]
  BY <1>2
<1> HIDE DEF q
<1>4. /\ v \in Worlds /\ v.req = q
      /\ v.lsReq = w.lsReq /\ v.lsMode = w.lsMode
      /\ v.cancelDue = w.cancelDue /\ v.method = w.method
      /\ v.netMode = w.netMode /\ v.notify = w.notify /\ v.session = w.session
      /\ v.tracking = w.tracking /\ v.power = w.power /\ v.closing = w.closing
      /\ v.line = w.line /\ v.fault = w.fault /\ v.locating = w.locating
      /\ v.gateway = w.gateway /\ v.owed = w.owed
  BY <1>3 DEF Worlds
<1> QED
  BY <1>1, <1>3, <1>4

\* Messages that may be sent without anything else: the cancel of the latest
\* session and a request for assistance data.
LEMMA SendKeeps ==
    ASSUME NEW w, Base(w), NEW type, NEW value,
           \/ type = "cancel" /\ value = w.session
           \/ type = "assist" /\ value = 0
    PROVE  LET v == Send(w, type, value) IN
           /\ Base(v)
           /\ v.req = w.req /\ v.lsMode = w.lsMode /\ v.cancelDue = w.cancelDue
           /\ v.closing = w.closing /\ v.fault = w.fault
           /\ Remembered(w) => Remembered(v)
           /\ Settled(w) => Settled(v)
           /\ Served(w) => Served(v)
<1> DEFINE l == SendLine(w.line, type, value)
           v == [w EXCEPT !.line = l]
<1>1. Send(w, type, value) = v
  BY SendGives DEF Base
<1>2. w.session \in Nat
  BY DEF Base, Worlds
<1>3. [type |-> type, value |-> value] \in Message
  BY <1>2 DEF Message
<1>4. LineInv(l, w.session, w.tracking, w.gateway.heard)
  BY <1>2, <1>3, SendLineKeeps DEF Base, Announced
<1>5. l \in Seq(Message)
  BY <1>4 DEF LineInv
<1> HIDE DEF l
<1>6. /\ v \in Worlds /\ v.line = l /\ v.req = w.req /\ v.lsMode = w.lsMode
      /\ v.cancelDue = w.cancelDue /\ v.method = w.method /\ v.notify = w.notify
      /\ v.session = w.session /\ v.tracking = w.tracking /\ v.power = w.power
      /\ v.closing = w.closing /\ v.fault = w.fault /\ v.locating = w.locating
      /\ v.gateway = w.gateway /\ v.owed = w.owed
  BY <1>5 DEF Worlds, Base
<1> HIDE DEF v
<1>7. Base(v)
  BY <1>4, <1>6 DEF Base, Requested, Announced, Powered, Active, AsksOne
<1>8. /\ Settled(w) => Settled(v)
      /\ Served(w) => Served(v)
      /\ Remembered(w) => Remembered(v)
  BY <1>6 DEF Settled, Served, Remembered, Active
<1> QED
  BY <1>1, <1>6, <1>7, <1>8

\* A change of the tracking flag is sent.
LEMMA StatusKeeps ==
    ASSUME NEW w, Base(w), NEW on \in BOOLEAN
    PROVE  LET v == SendSystemStatusAdvice(w, on) IN
           /\ Base(v)
           /\ v.req = w.req /\ v.lsMode = w.lsMode /\ v.cancelDue = w.cancelDue
           /\ v.closing = w.closing /\ v.fault = w.fault
           /\ Remembered(w) => Remembered(v)
           /\ Settled(w) => Settled(v)
           /\ Served(w) => Served(v)
<1> DEFINE new == IF on THEN "on" ELSE "off"
           l == IF w.tracking = new THEN w.line ELSE SendLine(w.line, "status", new)
           u == [(IF w.tracking = new THEN w ELSE Send(w, "status", new)) EXCEPT !.tracking = new]
           v == [w EXCEPT !.line = l, !.tracking = new]
<1>0. w \in Worlds /\ w.session \in Nat /\ new \in {"on", "off"}
  BY DEF Base, Worlds
<1>1. u = v
  <2>1. CASE w.tracking = new
    <3>1. [w EXCEPT !.line = w.line] = w
      BY <1>0 DEF Worlds
    <3> QED
      BY <2>1, <3>1
  <2>2. CASE w.tracking # new
    BY <1>0, <2>2, SendGives
  <2> QED
    BY <2>1, <2>2
<1>2. SendSystemStatusAdvice(w, on) = RestartTimerIfTracking(u)
  BY DEF SendSystemStatusAdvice
<1> HIDE DEF u
<1>3. LineInv(l, w.session, new, w.gateway.heard)
  <2>1. CASE w.tracking = new
    BY <2>1 DEF Base, Announced
  <2>2. CASE w.tracking # new
    <3>1. [type |-> "status", value |-> new] \in Message
      BY <1>0 DEF Message
    <3>2. LineInv(SendLine(w.line, "status", new), w.session, new, w.gateway.heard)
      BY <1>0, <3>1, SendLineKeeps DEF Base, Announced
    <3> QED
      BY <2>2, <3>2
  <2> QED
    BY <2>1, <2>2
<1>5. l \in Seq(Message)
  BY <1>3 DEF LineInv
<1> HIDE DEF l, new
<1>6. /\ v \in Worlds /\ v.line = l /\ v.req = w.req /\ v.lsMode = w.lsMode
      /\ v.cancelDue = w.cancelDue /\ v.method = w.method /\ v.notify = w.notify
      /\ v.session = w.session /\ v.tracking = new /\ v.power = w.power
      /\ v.closing = w.closing /\ v.fault = w.fault /\ v.locating = w.locating
      /\ v.gateway = w.gateway /\ v.owed = w.owed
  BY <1>0, <1>5 DEF Worlds
<1> HIDE DEF v
<1>7. Base(v)
  BY <1>3, <1>6 DEF Base, Requested, Announced, Powered, Active, AsksOne
<1>8. /\ Settled(w) => Settled(v)
      /\ Served(w) => Served(v)
      /\ Remembered(w) => Remembered(v)
  BY <1>6 DEF Settled, Served, Remembered, Active
<1> QED
  BY <1>1, <1>2, <1>6, <1>7, <1>8, RestartTimerKeeps

\* A power mode that is passed on is no less than the other channel's.
LEMMA PowerKeeps ==
    ASSUME NEW w, Base(w), NEW c \in Channel, NEW mode \in 0..4
    PROVE  LET v == OnPowerModeAdvice(w, c, mode) IN
           /\ Base(v)
           /\ v.req = w.req /\ v.lsMode = w.lsMode /\ v.cancelDue = w.cancelDue
           /\ v.closing = w.closing /\ v.fault = w.fault
           /\ Remembered(w) => Remembered(v)
           /\ Settled(w) => Settled(v)
           /\ Served(w) => Served(v)
<1>1. CASE mode = Power.unknown \/ w.closing
  BY <1>1 DEF OnPowerModeAdvice
<1>2. CASE ~(mode = Power.unknown \/ w.closing)
  <2> DEFINE more == \E d \in Channel \ {c} : w.power[d] > mode
             p == [w.power EXCEPT ![c] = mode,
                                  !["module"] = IF more THEN w.power["module"] ELSE mode]
             v == [w EXCEPT !.power = p]
  <2>0. w \in Worlds /\ w.power \in [Channel \union {"module"} -> 0..4]
    BY DEF Base, Worlds
  <2>c. "module" \notin Channel /\ Channel = {"LS", "NRH"}
    BY DEF Channel
  <2>1. OnPowerModeAdvice(w, c, mode) = v
    BY <1>2, <2>c DEF OnPowerModeAdvice
  <2>2. /\ p \in [Channel \union {"module"} -> 0..4]
        /\ p[c] = mode /\ \A d \in Channel \ {c} : p[d] = w.power[d]
        /\ p["module"] = IF more THEN w.power["module"] ELSE mode
    BY <2>0, <2>c
  <2>3. \A d \in Channel : w.power["module"] >= w.power[d]
    BY <1>2 DEF Base, Powered
  <2>4. \A d \in Channel : p["module"] >= p[d]
    <3>1. CASE more
      <4>1. w.power["module"] >= mode
        <5>1. PICK d \in Channel \ {c} : w.power[d] > mode
          BY <3>1
        <5> QED
          BY <2>0, <2>3, <5>1
      <4> QED
        BY <2>2, <2>3, <3>1, <4>1
    <3>2. CASE ~more
      <4>1. \A d \in Channel \ {c} : w.power[d] \in 0..4
        BY <2>0
      <4> QED
        BY <2>2, <3>2, <4>1
    <3> QED
      BY <3>1, <3>2
  <2> HIDE DEF p
  <2>6. /\ v \in Worlds /\ v.line = w.line /\ v.req = w.req /\ v.lsMode = w.lsMode
        /\ v.cancelDue = w.cancelDue /\ v.method = w.method /\ v.notify = w.notify
        /\ v.session = w.session /\ v.tracking = w.tracking /\ v.power = p
        /\ v.closing = w.closing /\ v.fault = w.fault /\ v.locating = w.locating
        /\ v.gateway = w.gateway /\ v.owed = w.owed
    BY <2>0, <2>2 DEF Worlds
  <2> HIDE DEF v
  <2>7. Base(v)
    BY <2>4, <2>6 DEF Base, Requested, Announced, Powered, Active, AsksOne
  <2>8. /\ Settled(w) => Settled(v)
        /\ Served(w) => Served(v)
        /\ Remembered(w) => Remembered(v)
    BY <2>6 DEF Settled, Served, Remembered, Active
  <2> QED
    BY <2>1, <2>6, <2>7, <2>8
<1> QED
  BY <1>1, <1>2

\* What comes with any message of a channel keeps everything.
LEMMA AdviceKeeps ==
    ASSUME NEW w, Base(w), NEW c \in Channel, NEW advice \in Advice(c)
    PROVE  LET v == SystemStatusAdvice(w, c, advice) IN
           /\ Base(v)
           /\ v.req = w.req /\ v.lsMode = w.lsMode /\ v.cancelDue = w.cancelDue
           /\ v.closing = w.closing /\ v.fault = w.fault
           /\ Remembered(w) => Remembered(v)
           /\ Settled(w) => Settled(v)
           /\ Served(w) => Served(v)
<1> DEFINE x == OnPowerModeAdvice(w, c, advice.power)
<1>1. advice.power \in 0..4 /\ advice.track \in BOOLEAN
  <2>1. PowerModes \union {Power.unknown} \subseteq 0..4
    BY AgpsManagerAssumption DEF Power
  <2>2. (IF c = "LS" THEN Tracks ELSE {FALSE}) \subseteq BOOLEAN
    BY AgpsManagerAssumption
  <2>3. /\ advice.power \in PowerModes \union {Power.unknown}
        /\ advice.track \in IF c = "LS" THEN Tracks ELSE {FALSE}
    BY DEF Advice
  <2> QED
    BY <2>1, <2>2, <2>3
<1>2. /\ Base(x)
      /\ x.req = w.req /\ x.lsMode = w.lsMode /\ x.cancelDue = w.cancelDue
      /\ x.closing = w.closing /\ x.fault = w.fault
      /\ Remembered(w) => Remembered(x)
      /\ Settled(w) => Settled(x)
      /\ Served(w) => Served(x)
  BY <1>1, PowerKeeps
<1>3. SystemStatusAdvice(w, c, advice) =
        IF c = "LS" THEN SendSystemStatusAdvice(x, advice.track) ELSE x
  BY DEF SystemStatusAdvice
<1> HIDE DEF x
<1> QED
  BY <1>1, <1>2, <1>3, StatusKeeps

\* A world with what is kept of another: the fields that Base, Settled and
\* Served speak of, except for some of the requests and the session's state.
LEMMA LsReqIsApart ==
    ASSUME NEW w \in Worlds, NEW x \in LsState
    PROVE  LET v == [w EXCEPT !.lsReq = x] IN
           /\ v \in Worlds /\ v.lsReq = x
           /\ v.req = w.req /\ v.lsMode = w.lsMode
           /\ v.cancelDue = w.cancelDue /\ v.method = w.method
           /\ v.netMode = w.netMode /\ v.notify = w.notify /\ v.session = w.session
           /\ v.tracking = w.tracking /\ v.power = w.power /\ v.closing = w.closing
           /\ v.line = w.line /\ v.fault = w.fault /\ v.locating = w.locating
           /\ v.gateway = w.gateway /\ v.owed = w.owed
           /\ Base(w) => Base(v)
           /\ Remembered(w) => Remembered(v)
           /\ Settled(w) => Settled(v)
           /\ Served(w) => Served(v)
<1> DEFINE v == [w EXCEPT !.lsReq = x]
<1>1. /\ v \in Worlds /\ v.lsReq = x
      /\ v.req = w.req /\ v.lsMode = w.lsMode
      /\ v.cancelDue = w.cancelDue /\ v.method = w.method
      /\ v.netMode = w.netMode /\ v.notify = w.notify /\ v.session = w.session
      /\ v.tracking = w.tracking /\ v.power = w.power /\ v.closing = w.closing
      /\ v.line = w.line /\ v.fault = w.fault /\ v.locating = w.locating
      /\ v.gateway = w.gateway /\ v.owed = w.owed
  BY DEF Worlds
<1> HIDE DEF v
<1>2. Base(w) => Base(v)
  BY <1>1 DEF Base, Requested, Announced, Powered, Active, AsksOne
<1>3. /\ Settled(w) => Settled(v)
      /\ Served(w) => Served(v)
      /\ Remembered(w) => Remembered(v)
  BY <1>1 DEF Settled, Served, Remembered, Active
<1> QED
  BY <1>1, <1>2, <1>3 DEF v

\* A request whose publication is no longer waited for; what is published is
\* no longer waited for, either.
LEMMA OwedIsApart ==
    ASSUME NEW w \in Worlds, NEW x \in BOOLEAN
    PROVE  LET v == [w EXCEPT !.owed = x] IN
           /\ v \in Worlds /\ v.owed = x
           /\ v.req = w.req /\ v.lsReq = w.lsReq /\ v.lsMode = w.lsMode
           /\ v.cancelDue = w.cancelDue /\ v.method = w.method
           /\ v.netMode = w.netMode /\ v.notify = w.notify /\ v.session = w.session
           /\ v.tracking = w.tracking /\ v.power = w.power /\ v.closing = w.closing
           /\ v.line = w.line /\ v.fault = w.fault /\ v.locating = w.locating
           /\ v.gateway = w.gateway
           /\ Announced(w) => Announced(v)
           /\ Powered(w) => Powered(v)
           /\ Settled(w) => Settled(v)
           /\ Served(w) => Served(v)
<1> DEFINE v == [w EXCEPT !.owed = x]
<1>1. /\ v \in Worlds /\ v.owed = x
      /\ v.req = w.req /\ v.lsReq = w.lsReq /\ v.lsMode = w.lsMode
      /\ v.cancelDue = w.cancelDue /\ v.method = w.method
      /\ v.netMode = w.netMode /\ v.notify = w.notify /\ v.session = w.session
      /\ v.tracking = w.tracking /\ v.power = w.power /\ v.closing = w.closing
      /\ v.line = w.line /\ v.fault = w.fault /\ v.locating = w.locating
      /\ v.gateway = w.gateway
  BY DEF Worlds
<1> HIDE DEF v
<1>2. (Announced(w) => Announced(v)) /\ (Powered(w) => Powered(v))
  BY <1>1 DEF Announced, Powered
<1>3. (Settled(w) => Settled(v)) /\ (Served(w) => Served(v))
  BY <1>1 DEF Settled, Served, Active
<1> QED
  BY <1>1, <1>2, <1>3 DEF v

\* A publication leaves nothing forgotten, whatever was invalidated before.
LEMMA PublishKeeps ==
    ASSUME NEW w, Base(w)
    PROVE  LET v == Publish(w) IN
           /\ Base(v) /\ Remembered(v)
           /\ v.req = w.req /\ v.lsReq = w.lsReq /\ v.lsMode = w.lsMode
           /\ v.cancelDue = w.cancelDue /\ v.notify = w.notify
           /\ v.closing = w.closing /\ v.fault = w.fault
           /\ Settled(w) => Settled(v)
           /\ Served(w) => Served(v)
<1> DEFINE x == w.owed /\ Active(w, "LS")
           v == [w EXCEPT !.owed = x]
<1>1. Publish(w) = v
  BY DEF Publish
<1>2. x \in BOOLEAN
  OBVIOUS
<1>3. /\ v \in Worlds /\ v.owed = x
      /\ v.req = w.req /\ v.lsReq = w.lsReq /\ v.lsMode = w.lsMode
      /\ v.cancelDue = w.cancelDue /\ v.notify = w.notify
      /\ v.closing = w.closing /\ v.fault = w.fault
      /\ Announced(w) => Announced(v)
      /\ Powered(w) => Powered(v)
      /\ Settled(w) => Settled(v)
      /\ Served(w) => Served(v)
  BY <1>2, OwedIsApart DEF Base
<1> HIDE DEF v
<1>4. Requested(v) /\ Remembered(v)
  BY <1>3 DEF Base, Requested, Remembered, Active, AsksOne
<1> QED
  BY <1>1, <1>3, <1>4 DEF Base

\* OnLocationRequestStateChanged combines the requests, unless the manager
\* is closing down.
LEMMA StateChangedKeeps ==
    ASSUME NEW w, Base(w), Remembered(w), NEW c \in Channel, NEW reason, ~w.fault, Changed(w, c, reason),
           Settled(w) \/ (c = "LS" /\ reason = "request")
    PROVE  Good(OnLocationRequestStateChanged(w, c, reason))
<1> DEFINE LS == IF Active(w, "LS") THEN [w EXCEPT !.lsReq = ReceivedState(w)]
                 ELSE IF InSession(w) THEN Send(w, "cancel", w.session)
                 ELSE [w EXCEPT !.lsReq = "none"]
           due == w.cancelDue /\ reason # "cancel"
           NRH == [w EXCEPT !.cancelDue = due]
           x == IF c = "LS" THEN RestartTimerIfTracking(LS) ELSE NRH
           v == OnLocationRequestStateChanged(w, c, reason)
<1>0. w \in Worlds
  BY DEF Base
<1>1. CASE w.closing
  <2>1. v = w
    BY <1>1 DEF OnLocationRequestStateChanged
  <2> QED
    BY <1>1, <2>1 DEF Good, Settled, Served
<1>2. CASE ~w.closing
  <2>1. v = Combine(x, c, reason)
    BY <1>2 DEF OnLocationRequestStateChanged
  <2> HIDE DEF v
  <2>2. /\ Base(LS) /\ LS.req = w.req /\ LS.lsMode = w.lsMode
        /\ LS.fault = w.fault /\ Remembered(LS) /\ (Settled(w) => Settled(LS))
    <3>1. CASE Active(w, "LS")
      <4>1. ReceivedState(w) \in LsState
        BY DEF ReceivedState, LsState
      <4> QED
        BY <1>0, <3>1, <4>1, LsReqIsApart
    <3>2. CASE ~Active(w, "LS") /\ InSession(w)
      BY <3>2, SendKeeps
    <3>3. CASE ~Active(w, "LS") /\ ~InSession(w)
      <4>1. "none" \in LsState
        BY DEF LsState
      <4> QED
        BY <1>0, <3>3, <4>1, LsReqIsApart
    <3> QED
      BY <3>1, <3>2, <3>3
  <2>3. /\ Base(NRH) /\ NRH.req = w.req /\ NRH.lsMode = w.lsMode
        /\ NRH.fault = w.fault /\ Remembered(NRH) /\ (Settled(w) => Settled(NRH))
    <3>1. due \in BOOLEAN
      OBVIOUS
    <3> HIDE DEF due
    <3>2. /\ NRH \in Worlds /\ NRH.cancelDue = due /\ NRH.line = w.line /\ NRH.req = w.req
          /\ NRH.lsMode = w.lsMode /\ NRH.notify = w.notify /\ NRH.session = w.session
          /\ NRH.tracking = w.tracking /\ NRH.power = w.power /\ NRH.closing = w.closing
          /\ NRH.fault = w.fault /\ NRH.gateway = w.gateway /\ NRH.owed = w.owed
      BY <1>0, <3>1 DEF Worlds
    <3>3. due => w.cancelDue
      BY DEF due
    <3> HIDE DEF NRH
    <3>4. Base(NRH)
      BY <3>2, <3>3 DEF Base, Requested, Announced, Powered, Active, AsksOne
    <3> QED
      BY <3>2, <3>4 DEF Settled, Remembered, Active
  <2> HIDE DEF LS, NRH
  <2>4. /\ Base(x) /\ x.req = w.req /\ x.lsMode = w.lsMode
        /\ x.fault = w.fault /\ Remembered(x) /\ (Settled(w) => Settled(x))
    <3>1. CASE c = "LS"
      BY <2>2, <3>1, RestartTimerKeeps DEF Base
    <3>2. CASE c # "LS"
      BY <2>3, <3>2
    <3> QED
      BY <3>1, <3>2
  <2> HIDE DEF x
  <2>5. Changed(x, c, reason)
    BY <2>4 DEF Changed, AsksOne
  <2> QED
    BY <2>1, <2>4, <2>5, CombineServes DEF Good, v
<1> QED
  BY <1>1, <1>2 DEF v

\* A request that arrives, on time or late.
LEMMA ActivateKeeps ==
    ASSUME NEW w, Good(w), ~w.fault, NEW c \in Channel, NEW r \in Request,
           r.state = "active",
           c = "LS" => \E m \in Supported : r.modes = {m},
           c = "NRH" => r.modes \in NrhMethods,
           NEW late \in BOOLEAN
    PROVE  Good(Activate(w, c, r, late))
<1> DEFINE x == [w EXCEPT !.req[c] = r]
           o == IF c = "LS" THEN ~late ELSE x.owed
           y == [x EXCEPT !.owed = o]
<1>c. Channel = {"LS", "NRH"}
  BY DEF Channel
<1>1. w \in Worlds /\ Requested(w) /\ Announced(w) /\ Powered(w) /\ Remembered(w) /\ Settled(w) /\ Served(w)
  BY DEF Good, Base
<1>2. /\ x \in Worlds
      /\ x.req[c] = r /\ \A d \in Channel : d # c => x.req[d] = w.req[d]
      /\ x.lsReq = w.lsReq /\ x.lsMode = w.lsMode
      /\ x.cancelDue = w.cancelDue /\ x.method = w.method
      /\ x.netMode = w.netMode /\ x.notify = w.notify /\ x.session = w.session
      /\ x.tracking = w.tracking /\ x.power = w.power /\ x.closing = w.closing
      /\ x.line = w.line /\ x.fault = w.fault /\ x.locating = w.locating
      /\ x.gateway = w.gateway /\ x.owed = w.owed
  BY <1>1, SetRequestGives
<1>3. [w EXCEPT !.req[c] = r, !.owed = IF c = "LS" THEN ~late ELSE @] = y
  <2>1. w.owed = x.owed
    BY <1>2
  <2> QED
    BY <2>1
<1> HIDE DEF x
<1>4. o \in BOOLEAN
  BY <1>2 DEF Worlds
<1>o. (c = "LS" => o = ~late) /\ (c # "LS" => o = w.owed)
  BY <1>2
<1> HIDE DEF o
<1>5. /\ y \in Worlds /\ y.owed = o
      /\ y.req = x.req /\ y.lsReq = x.lsReq /\ y.lsMode = x.lsMode
      /\ y.cancelDue = x.cancelDue /\ y.method = x.method
      /\ y.netMode = x.netMode /\ y.notify = x.notify /\ y.session = x.session
      /\ y.tracking = x.tracking /\ y.power = x.power /\ y.closing = x.closing
      /\ y.line = x.line /\ y.fault = x.fault /\ y.locating = x.locating
      /\ y.gateway = x.gateway
  BY <1>2, <1>4, OwedIsApart
<1>6. Activate(w, c, r, late) =
        IF late THEN Invalidate(y, c) ELSE OnLocationRequestStateChanged(y, c, "request")
  BY <1>3 DEF Activate
<1> HIDE DEF y
<1>7. /\ Active(y, "LS") => AsksOne(y)
      /\ y.cancelDue => y.req["NRH"].modes \in NrhMethods
      /\ Announced(y) /\ Powered(y)
  <2>1. Active(y, "LS") => AsksOne(y)
    BY <1>1, <1>2, <1>5, <1>c DEF Requested, Active, AsksOne
  <2>2. y.cancelDue => y.req["NRH"].modes \in NrhMethods
    BY <1>1, <1>2, <1>5, <1>c DEF Requested
  <2>3. Announced(y) /\ Powered(y)
    BY <1>1, <1>2, <1>5 DEF Announced, Powered
  <2> QED
    BY <2>1, <2>2, <2>3
<1>8. CASE late
  <2> DEFINE v == Invalidate(y, c)
  <2>1. /\ v \in Worlds
        /\ ~Active(v, c)
        /\ \A d \in Channel : d # c => (Active(v, d) <=> Active(y, d))
        /\ \A d \in Channel : v.req[d].modes = y.req[d].modes
        /\ v.lsMode = y.lsMode /\ v.cancelDue = y.cancelDue /\ v.method = y.method
        /\ v.notify = y.notify /\ v.session = y.session
        /\ v.tracking = y.tracking /\ v.power = y.power /\ v.closing = y.closing
        /\ v.line = y.line /\ v.fault = y.fault /\ v.locating = y.locating
        /\ v.gateway = y.gateway /\ v.owed = y.owed
    BY <1>5, InvalidateGives
  <2> HIDE DEF v
  <2>2. \A d \in Channel : Active(v, d) => d # c /\ Active(w, d) /\ v.req[d].modes = w.req[d].modes
    BY <1>2, <1>5, <2>1 DEF Active
  <2>3. Requested(v) /\ Remembered(v)
    <3>1. Active(v, "LS") => AsksOne(v)
      BY <1>7, <2>1, <2>2, <1>c DEF AsksOne, Active
    <3>2. v.owed => Active(v, "LS") \/ v.notify
      <4>1. CASE c = "LS"
        BY <1>5, <1>8, <1>o, <2>1, <4>1
      <4>2. CASE c = "NRH"
        <5>1. Active(v, "LS") <=> Active(w, "LS")
          BY <1>2, <1>5, <2>1, <4>2, <1>c DEF Active
        <5>2. v.owed => w.owed
          BY <1>5, <1>o, <2>1, <4>2
        <5> QED
          BY <1>1, <1>2, <1>5, <2>1, <5>1, <5>2 DEF Remembered
      <4> QED
        BY <1>c, <4>1, <4>2
    <3> QED
      BY <1>7, <2>1, <3>1, <3>2, <1>c DEF Requested, Remembered
  <2>4. Base(v)
    BY <1>7, <2>1, <2>3 DEF Base, Announced, Powered
  <2>5. Settled(v) /\ Served(v)
    BY <1>1, <1>2, <1>5, <2>1, <2>2, <1>c DEF Settled, Served
  <2> QED
    BY <1>6, <1>8, <2>3, <2>4, <2>5 DEF Good, v
<1>9. CASE ~late
  <2>1. c = "LS" => Active(y, "LS")
    BY <1>2, <1>5 DEF Active
  <2>2. Requested(y)
    BY <1>7 DEF Requested
  <2>6. Remembered(y)
    BY <1>1, <1>2, <1>5, <1>o, <2>1, <1>c DEF Remembered, Active
  <2>3. Base(y)
    BY <1>5, <1>7, <2>2 DEF Base
  <2>4. Changed(y, c, "request")
    BY <1>2, <1>5, <1>7, <2>1 DEF Changed
  <2>5. Settled(y) \/ c = "LS"
    BY <1>1, <1>2, <1>5, <1>c DEF Settled, Active
  <2> QED
    BY <1>2, <1>5, <1>6, <1>9, <2>3, <2>4, <2>5, <2>6, StateChangedKeeps
<1> QED
  BY <1>8, <1>9

\* The end of a request, by its channel or by its timer.
LEMMA EndKeeps ==
    ASSUME NEW w, Good(w), ~w.fault, NEW c \in Channel, NEW reason,
           reason \in {"cancel", "timeout"}
    PROVE  Good(End(w, c, reason))
<1> DEFINE x == Invalidate(w, c)
           o == x.owed /\ c # "LS"
           y == [x EXCEPT !.owed = o]
<1>c. Channel = {"LS", "NRH"}
  BY DEF Channel
<1>1. w \in Worlds /\ Requested(w) /\ Announced(w) /\ Powered(w) /\ Remembered(w) /\ Settled(w) /\ Served(w)
  BY DEF Good, Base
<1>2. /\ x \in Worlds
      /\ ~Active(x, c)
      /\ \A d \in Channel : d # c => (Active(x, d) <=> Active(w, d))
      /\ \A d \in Channel : x.req[d].modes = w.req[d].modes
      /\ x.lsMode = w.lsMode /\ x.cancelDue = w.cancelDue
      /\ x.notify = w.notify /\ x.session = w.session
      /\ x.tracking = w.tracking /\ x.power = w.power /\ x.closing = w.closing
      /\ x.line = w.line /\ x.fault = w.fault
      /\ x.gateway = w.gateway /\ x.owed = w.owed
      /\ Settled(x)
  BY <1>1, InvalidateGives
<1>3. End(w, c, reason) = OnLocationRequestStateChanged(y, c, reason)
  BY DEF End
<1> HIDE DEF x
<1>4. o \in BOOLEAN /\ (o => x.owed /\ c # "LS")
  OBVIOUS
<1> HIDE DEF o
<1>5. /\ y \in Worlds /\ y.owed = o
      /\ y.req = x.req /\ y.lsMode = x.lsMode
      /\ y.cancelDue = x.cancelDue
      /\ y.notify = x.notify /\ y.session = x.session
      /\ y.tracking = x.tracking /\ y.power = x.power /\ y.closing = x.closing
      /\ y.line = x.line /\ y.fault = x.fault
      /\ y.gateway = x.gateway
      /\ Settled(y)
  BY <1>2, <1>4, OwedIsApart
<1> HIDE DEF y
<1>6. \A d \in Channel : Active(y, d) <=> Active(x, d)
  BY <1>5 DEF Active
<1>7. Requested(y)
  <2>1. Active(y, "LS") => AsksOne(y)
    BY <1>1, <1>2, <1>5, <1>6, <1>c DEF Requested, AsksOne
  <2> QED
    BY <1>1, <1>2, <1>5, <2>1, <1>c DEF Requested
<1>10. Remembered(y)
  BY <1>1, <1>2, <1>4, <1>5, <1>6, <1>c DEF Remembered
<1>8. Base(y)
  BY <1>1, <1>2, <1>5, <1>7 DEF Base, Announced, Powered
<1>9. Changed(y, c, reason)
  BY DEF Changed
<1> QED
  BY <1>2, <1>3, <1>5, <1>8, <1>9, <1>10, StateChangedKeeps

-----------------------------------------------------------------------------
(***************************************************************************)
(* The GPS module and the network gateway.                                 *)
(***************************************************************************)

\* Fallback, the method of the session and the timer are apart from what is
\* shown here.
LEMMA ApartKeeps ==
    ASSUME NEW w \in Worlds, NEW v,
           \/ \E n \in Method : v = [w EXCEPT !.netMode = n]
           \/ v = [w EXCEPT !.fallback = TRUE]
           \/ v = [w EXCEPT !.timer = FALSE]
    PROVE  /\ v \in Worlds
           /\ v.req = w.req /\ v.cancelDue = w.cancelDue /\ v.notify = w.notify
           /\ v.fault = w.fault /\ v.closing = w.closing /\ v.session = w.session
           /\ Base(w) => Base(v)
           /\ Settled(w) => Settled(v)
           /\ Served(w) => Served(v)
           /\ Remembered(w) => Remembered(v)
<1>1. /\ v \in Worlds /\ v.line = w.line /\ v.req = w.req /\ v.lsMode = w.lsMode
      /\ v.cancelDue = w.cancelDue /\ v.method = w.method /\ v.notify = w.notify
      /\ v.session = w.session /\ v.tracking = w.tracking /\ v.power = w.power
      /\ v.closing = w.closing /\ v.fault = w.fault /\ v.locating = w.locating
      /\ v.gateway = w.gateway /\ v.owed = w.owed
  <2>1. CASE \E n \in Method : v = [w EXCEPT !.netMode = n]
    BY <2>1 DEF Worlds
  <2>2. CASE v = [w EXCEPT !.fallback = TRUE]
    BY <2>2 DEF Worlds
  <2>3. CASE v = [w EXCEPT !.timer = FALSE]
    BY <2>3 DEF Worlds
  <2> QED
    BY <2>1, <2>2, <2>3
<1>2. Base(w) => Base(v)
  BY <1>1 DEF Base, Requested, Announced, Powered, Active, AsksOne
<1>3. /\ Settled(w) => Settled(v)
      /\ Served(w) => Served(v)
      /\ Remembered(w) => Remembered(v)
  BY <1>1 DEF Settled, Served, Remembered, Active
<1> QED
  BY <1>1, <1>2, <1>3

\* A position that is kept for the end of the session, or has been published
\* there: Base does not speak of it.
LEMMA NotifyKeeps ==
    ASSUME NEW w, Base(w), NEW x \in BOOLEAN
    PROVE  LET v == [w EXCEPT !.notify = x] IN
           /\ Base(v)
           /\ v.fault = w.fault
           /\ Settled(w) => Settled(v)
           /\ Served(w) => Served(v)
<1> DEFINE v == [w EXCEPT !.notify = x]
<1>1. /\ v \in Worlds /\ v.line = w.line /\ v.req = w.req /\ v.lsMode = w.lsMode
      /\ v.cancelDue = w.cancelDue /\ v.method = w.method
      /\ v.session = w.session /\ v.tracking = w.tracking /\ v.power = w.power
      /\ v.closing = w.closing /\ v.fault = w.fault /\ v.locating = w.locating
      /\ v.gateway = w.gateway /\ v.owed = w.owed
  BY DEF Base, Worlds
<1> HIDE DEF v
<1>2. Base(v)
  BY <1>1 DEF Base, Requested, Announced, Powered, Active, AsksOne
<1>3. (Settled(w) => Settled(v)) /\ (Served(w) => Served(v))
  BY <1>1 DEF Settled, Served, Active
<1> QED
  BY <1>1, <1>2, <1>3 DEF v

\* A request that is taken for ended disturbs nothing but what is waited for.
LEMMA InvalidateKeeps ==
    ASSUME NEW w, Base(w), NEW c \in Channel
    PROVE  LET v == Invalidate(w, c) IN
           /\ Base(v)
           /\ ~Active(v, c)
           /\ \A d \in Channel : Active(v, d) => Active(w, d)
           /\ v.fault = w.fault /\ v.closing = w.closing /\ v.cancelDue = w.cancelDue
           /\ c = "NRH" /\ Remembered(w) => Remembered(v)
           /\ Settled(w) => Settled(v)
           /\ Served(w) => Served(v)
<1> DEFINE v == Invalidate(w, c)
<1>c. Channel = {"LS", "NRH"}
  BY DEF Channel
<1>1. /\ v \in Worlds
      /\ ~Active(v, c)
      /\ \A d \in Channel : d # c => (Active(v, d) <=> Active(w, d))
      /\ \A d \in Channel : v.req[d].modes = w.req[d].modes
      /\ v.cancelDue = w.cancelDue /\ v.notify = w.notify /\ v.session = w.session
      /\ v.tracking = w.tracking /\ v.power = w.power /\ v.closing = w.closing
      /\ v.line = w.line /\ v.fault = w.fault
      /\ v.gateway = w.gateway /\ v.owed = w.owed
      /\ Settled(w) => Settled(v)
      /\ Served(w) => Served(v)
  BY InvalidateGives DEF Base
<1> HIDE DEF v
<1>2. Requested(v)
  BY <1>1, <1>c DEF Base, Requested, AsksOne
<1>3. Base(v)
  BY <1>1, <1>2 DEF Base, Announced, Powered
<1>4. c = "NRH" /\ Remembered(w) => Remembered(v)
  BY <1>1, <1>c DEF Remembered
<1> QED
  BY <1>1, <1>3, <1>4, <1>c DEF v

\* An error ends both requests, and is published.
LEMMA ErrorUpdateKeeps ==
    ASSUME NEW w, Good(w), ~w.fault, NEW position, NEW meas
    PROVE  Good(ErrorUpdate(w, position, meas))
<1> DEFINE a == Invalidate(w, "LS")
           b == Invalidate(a, "NRH")
           x == [b EXCEPT !.lsReq = "none"]
           y == Publish(x)
<1>c. "LS" \in Channel /\ "NRH" \in Channel /\ "none" \in LsState
  BY DEF Channel, LsState
<1>1. Base(a) /\ a.fault = w.fault /\ Settled(a) /\ Served(a)
  BY <1>c, InvalidateKeeps DEF Good
<1>2. \/ ErrorUpdate(w, position, meas) = w
      \/ ErrorUpdate(w, position, meas) = RestartTimerIfTracking(y)
  BY DEF ErrorUpdate, InvalidateBoth
<1> HIDE DEF a
<1>3. Base(b) /\ b.fault = w.fault /\ Settled(b) /\ Served(b)
  BY <1>c, <1>1, InvalidateKeeps
<1> HIDE DEF b
<1>4. Base(x) /\ x.fault = w.fault /\ Settled(x) /\ Served(x)
  <2>1. b \in Worlds
    BY <1>3 DEF Base
  <2> QED
    BY <1>c, <1>3, <2>1, LsReqIsApart
<1> HIDE DEF x
<1>5. Base(y) /\ Remembered(y) /\ y.fault = w.fault /\ Settled(y) /\ Served(y)
  BY <1>4, PublishKeeps
<1> HIDE DEF y
<1>6. Good(RestartTimerIfTracking(y))
  BY <1>5, RestartTimerKeeps DEF Good, Base
<1> QED
  BY <1>2, <1>6

\* An accurate position ends requests; those that are left are combined.
LEMMA AccuratePositionKeeps ==
    ASSUME NEW w, Good(w), ~w.fault, NEW good, NEW met
    PROVE  Good(AccuratePosition(w, good, met))
<1> DEFINE ends == {c \in Channel : c \in met \/ (c = "NRH" /\ good)}
           q == [c \in Channel |->
                    IF c \in ends THEN [w.req[c] EXCEPT !.state = "idle"] ELSE w.req[c]]
           x == [w EXCEPT !.req = q]
           y == IF ends = {} THEN x ELSE Combine(x, "none", "none")
           z == IF InSession(y) \/ Active(y, "LS") THEN y ELSE [y EXCEPT !.lsReq = "none"]
<1>c. Channel = {"LS", "NRH"} /\ "none" \in LsState
  BY DEF Channel, LsState
<1>0. w \in Worlds /\ w.req \in [Channel -> Request]
  BY DEF Good, Base, Worlds
<1>1. AccuratePosition(w, good, met) = RestartTimerIfTracking(Publish(z))
  BY DEF AccuratePosition
<1> HIDE DEF ends
<1>2. \A c \in Channel : /\ q[c] \in Request /\ q[c].modes = w.req[c].modes
                         /\ q[c].state # "idle" => w.req[c].state # "idle"
  BY <1>0 DEF Request
<1>3. q \in [Channel -> Request]
  BY <1>2
<1> HIDE DEF q
<1>4. /\ x \in Worlds /\ x.line = w.line /\ x.req = q /\ x.lsMode = w.lsMode
      /\ x.cancelDue = w.cancelDue /\ x.method = w.method /\ x.notify = w.notify
      /\ x.session = w.session /\ x.tracking = w.tracking /\ x.power = w.power
      /\ x.closing = w.closing /\ x.fault = w.fault /\ x.locating = w.locating
      /\ x.gateway = w.gateway /\ x.owed = w.owed
  BY <1>0, <1>3 DEF Worlds
<1> HIDE DEF x
<1>5. \A c \in Channel : Active(x, c) => Active(w, c)
  BY <1>2, <1>4 DEF Active
<1>6. Base(x) /\ Settled(x) /\ Served(x)
  <2>1. Requested(x)
    BY <1>2, <1>4, <1>5, <1>c DEF Good, Base, Requested, AsksOne
  <2>2. Base(x)
    BY <1>4, <2>1 DEF Good, Base, Announced, Powered
  <2>3. Settled(x)
    BY <1>4, <1>5, <1>c DEF Good, Settled
  <2>4. Served(x)
    BY <1>2, <1>4, <1>5, <1>c DEF Good, Served
  <2> QED
    BY <2>2, <2>3, <2>4
<1>7. Base(y) /\ (y.fault \/ (Settled(y) /\ Served(y)))
  <2>1. Changed(x, "none", "none")
    BY DEF Changed
  <2> QED
    BY <1>4, <1>6, <2>1, CombineServes
<1> HIDE DEF y
<1>8. Base(z) /\ (z.fault \/ (Settled(z) /\ Served(z)))
  <2>1. y \in Worlds
    BY <1>7 DEF Base
  <2> QED
    BY <1>7, <1>c, <2>1, LsReqIsApart
<1> HIDE DEF z
<1>9. /\ Base(Publish(z)) /\ Remembered(Publish(z))
      /\ Publish(z).fault \/ (Settled(Publish(z)) /\ Served(Publish(z)))
  BY <1>8, PublishKeeps
<1> QED
  BY <1>1, <1>9, RestartTimerKeeps DEF Good, Base

\* A position with a status above zero is published, and perhaps kept.
LEMMA PartialPositionKeeps ==
    ASSUME NEW w, Good(w), ~w.fault, NEW status
    PROVE  Good(PartialPosition(w, status))
<1> DEFINE n == w.notify \/ (status = "futile" /\ InSession(w))
           x == [w EXCEPT !.notify = n]
           y == Publish(x)
<1>1. PartialPosition(w, status) = RestartTimerIfTracking(y)
  BY DEF PartialPosition
<1>2. n \in BOOLEAN
  BY DEF Good, Base, Worlds
<1> HIDE DEF n
<1>3. Base(x) /\ Settled(x) /\ Served(x)
  BY <1>2, NotifyKeeps DEF Good
<1> HIDE DEF x
<1>4. Base(y) /\ Remembered(y) /\ Settled(y) /\ Served(y)
  BY <1>3, PublishKeeps
<1> HIDE DEF y
<1> QED
  BY <1>1, <1>4, RestartTimerKeeps DEF Good, Base

\* An update of the module, whatever it brings.
LEMMA UpdateKeeps ==
    ASSUME NEW w, Good(w), ~w.fault, NEW status, NEW position, NEW meas, NEW met
    PROVE  Good(Update(w, status, position, meas, met))
<1> DEFINE good == meas /\ Measures(w)
           x == Invalidate(w, "NRH")
<1>1. Good(Combine(x, "none", "none"))
  <2>1. "NRH" \in Channel
    BY DEF Channel
  <2>2. Base(x) /\ Settled(x) /\ Remembered(x) /\ ~x.fault
    BY <2>1, InvalidateKeeps DEF Good
  <2>3. Changed(x, "none", "none")
    BY DEF Changed
  <2> HIDE DEF x
  <2> QED
    BY <2>2, <2>3, CombineServes DEF Good
<1>2. Good(ErrorUpdate(w, position, meas))
  BY ErrorUpdateKeeps
<1>3. Good(AccuratePosition(w, good, met))
  BY AccuratePositionKeeps
<1>4. Good(PartialPosition(w, status))
  BY PartialPositionKeeps
<1> HIDE DEF good
<1>5. Update(w, status, position, meas, met) \in
         {w, Combine(x, "none", "none"), ErrorUpdate(w, position, meas),
          AccuratePosition(w, good, met), PartialPosition(w, status)}
  BY Zenon DEF Update, good
<1> QED
  BY <1>1, <1>2, <1>3, <1>4, <1>5

\* The request of the LS changes, but not what it asks for nor whether it has
\* ended.
LEMMA RequestKeeps ==
    ASSUME NEW w, Good(w), ~w.fault, NEW r \in Request,
           r.modes = w.req["LS"].modes, r.state # "idle" <=> Active(w, "LS")
    PROVE  LET v == [w EXCEPT !.req["LS"] = r] IN
           /\ Good(v) /\ v.fault = w.fault
           /\ Active(v, "LS") <=> Active(w, "LS")
<1> DEFINE v == [w EXCEPT !.req["LS"] = r]
<1>c. Channel = {"LS", "NRH"}
  BY DEF Channel
<1>1. /\ v \in Worlds
      /\ v.req["LS"] = r /\ v.req["NRH"] = w.req["NRH"]
      /\ v.lsMode = w.lsMode
      /\ v.cancelDue = w.cancelDue /\ v.method = w.method
      /\ v.notify = w.notify /\ v.session = w.session
      /\ v.tracking = w.tracking /\ v.power = w.power /\ v.closing = w.closing
      /\ v.line = w.line /\ v.fault = w.fault /\ v.locating = w.locating
      /\ v.gateway = w.gateway /\ v.owed = w.owed
  BY <1>c, SetRequestGives DEF Good, Base
<1> HIDE DEF v
<1>2. \A d \in Channel : /\ Active(v, d) <=> Active(w, d)
                         /\ v.req[d].modes = w.req[d].modes
  BY <1>1, <1>c DEF Active
<1>3. Base(v)
  BY <1>1, <1>2, <1>c DEF Good, Base, Requested, Announced, Powered, AsksOne
<1>4. Remembered(v) /\ Settled(v) /\ Served(v)
  BY <1>1, <1>2, <1>c DEF Good, Remembered, Settled, Served
<1> QED
  BY <1>1, <1>2, <1>3, <1>4, <1>c DEF Good, v

\* A request is put off, or is no longer.
LEMMA StateSetKeeps ==
    ASSUME NEW w, Good(w), ~w.fault, Active(w, "LS"), NEW state \in {"active", "restart"}
    PROVE  LET v == [w EXCEPT !.req["LS"].state = state] IN
           Good(v) /\ v.fault = w.fault /\ Active(v, "LS")
<1> DEFINE r == [w.req["LS"] EXCEPT !.state = state]
<1>1. [w EXCEPT !.req["LS"].state = state] = [w EXCEPT !.req["LS"] = r]
  OBVIOUS
<1>2. w.req["LS"] \in Request
  BY DEF Good, Base, Worlds, Channel
<1>3. r \in Request /\ r.modes = w.req["LS"].modes /\ r.state # "idle"
  BY <1>2 DEF Request
<1> HIDE DEF r
<1>4. Good([w EXCEPT !.req["LS"] = r])
  BY <1>3, RequestKeeps
<1>5. /\ [w EXCEPT !.req["LS"] = r].fault = w.fault
      /\ Active([w EXCEPT !.req["LS"] = r], "LS")
  BY <1>3, RequestKeeps
<1> QED
  BY <1>1, <1>4, <1>5

\* A request that was put off is taken up again, or has ended.
LEMMA ReactivateKeeps ==
    ASSUME NEW w, Good(w), ~w.fault, w.req["LS"].state = "restart", NEW over
    PROVE  Good(Reactivate(w, over))
<1> DEFINE x == [w EXCEPT !.req["LS"].state = "active"]
<1>c. "LS" \in Channel
  BY DEF Channel
<1>1. Good(End(w, "LS", "timeout"))
  BY <1>c, EndKeeps
<1>2. Good(OnLocationRequestStateChanged(x, "LS", "request"))
  <2>1. Active(w, "LS")
    BY DEF Active
  <2>2. Good(x) /\ ~x.fault /\ Active(x, "LS")
    BY <2>1, StateSetKeeps
  <2> HIDE DEF x
  <2>3. Changed(x, "LS", "request")
    BY <2>2 DEF Good, Base, Requested, Changed
  <2> QED
    BY <1>c, <2>2, <2>3, StateChangedKeeps DEF Good
<1> QED
  BY <1>1, <1>2 DEF Reactivate

\* A new session: its request goes out, and with it what waited of the one
\* before.
LEMMA StartSelfLocateKeeps ==
    ASSUME NEW w, Good(w), ~w.fault, NEW over
    PROVE  Good(StartSelfLocate(w, over))
<1> DEFINE x == IF w.req["LS"].state # "restart" THEN w
                ELSE IF over THEN End(w, "LS", "timeout")
                ELSE [w EXCEPT !.req["LS"].state = "active"]
           s == w.session + 1
           y == [x EXCEPT !.session = s, !.netMode = x.method, !.lsReq = "started"]
           l == SendLine(x.line, "request", s)
           v == [x EXCEPT !.session = s, !.netMode = x.method, !.lsReq = "started", !.line = l]
<1>1. Good(x)
  <2>1. CASE w.req["LS"].state # "restart"
    BY <2>1
  <2>2. CASE w.req["LS"].state = "restart" /\ over
    BY <2>2, EndKeeps DEF Channel
  <2>3. CASE w.req["LS"].state = "restart" /\ ~over
    <3>1. Active(w, "LS")
      BY <2>3 DEF Active
    <3> QED
      BY <2>3, <3>1, StateSetKeeps
  <2> QED
    BY <2>1, <2>2, <2>3
<1>2. StartSelfLocate(w, over) = Send(y, "request", s)
  BY DEF StartSelfLocate
<1>3. s \in Nat
  BY DEF Good, Base, Worlds
<1> HIDE DEF x, s
<1>4. /\ x \in Worlds /\ x.session \in Nat /\ x.method \in Method
  BY <1>1 DEF Good, Base, Worlds
<1>5. y \in Worlds /\ y.line = x.line
  BY <1>3, <1>4 DEF Worlds, LsState
<1>6. Send(y, "request", s) = v
  <2>1. SendLine(y.line, "request", s) = l
    BY <1>5
  <2> HIDE DEF l
  <2>2. Send(y, "request", s) = [y EXCEPT !.line = l]
    <3> HIDE DEF y
    <3> QED
      BY <1>5, <2>1, SendGives
  <2>3. [y EXCEPT !.line = l] = v
    OBVIOUS
  <2> QED
    BY <2>2, <2>3, Zenon
<1> HIDE DEF y
<1>7. LineInv(l, s, x.tracking, x.gateway.heard)
  <2>1. [type |-> "request", value |-> s] \in Message
    BY <1>3 DEF Message
  <2>2. LineInv(x.line, x.session, x.tracking, x.gateway.heard)
    BY <1>1 DEF Good, Base, Announced
  <2> QED
    BY <1>3, <1>4, <2>1, <2>2, SendLineKeeps
<1>8. l \in Seq(Message)
  BY <1>7 DEF LineInv
<1> HIDE DEF l
<1>9. /\ v \in Worlds /\ v.line = l /\ v.req = x.req /\ v.lsMode = x.lsMode
      /\ v.cancelDue = x.cancelDue /\ v.method = x.method /\ v.notify = x.notify
      /\ v.session = s /\ v.tracking = x.tracking /\ v.power = x.power
      /\ v.closing = x.closing /\ v.fault = x.fault /\ v.locating = x.locating
      /\ v.gateway = x.gateway /\ v.owed = x.owed
  BY <1>3, <1>4, <1>8 DEF Worlds, LsState
<1> HIDE DEF v
<1>10. Base(v)
  BY <1>1, <1>7, <1>9 DEF Good, Base, Requested, Announced, Powered, Active, AsksOne
<1>11. Remembered(v) /\ (v.fault \/ (Settled(v) /\ Served(v)))
  BY <1>1, <1>9 DEF Good, Settled, Served, Remembered, Active
<1> QED
  BY <1>2, <1>6, <1>10, <1>11 DEF Good

\* A request for assistance data outside a session, which may put the request
\* of the LS off.
LEMMA AssistKeeps ==
    ASSUME NEW w, Good(w), ~w.fault, NEW x \in {w, PutOff(w)}
    PROVE  Good(Send(x, "assist", 0))
<1>1. Good(x)
  <2>1. CASE Active(w, "LS")
    BY <2>1, StateSetKeeps DEF PutOff
  <2>2. CASE ~Active(w, "LS")
    BY <2>2 DEF PutOff
  <2> QED
    BY <2>1, <2>2
<1> QED
  BY <1>1, SendKeeps DEF Good

\* The gateway reads a message.
LEMMA ReadKeeps ==
    ASSUME NEW w, Good(w), ~w.fault, w.line # <<>>
    PROVE  LET m == Head(w.line) IN
           Good([w EXCEPT !.line = Tail(@),
                          !.gateway = IF m.type = "request"
                                      THEN [heard |-> m.value, open |-> @.open \union {m.value}]
                                      ELSE @])
<1> DEFINE m == Head(w.line)
           l == Tail(w.line)
           g == IF m.type = "request"
                THEN [heard |-> m.value, open |-> w.gateway.open \union {m.value}]
                ELSE w.gateway
           h == IF m.type = "request" THEN m.value ELSE w.gateway.heard
           v == [w EXCEPT !.line = l, !.gateway = g]
<1>1. w \in Worlds /\ w.gateway \in [heard : Nat, open : SUBSET Nat]
  BY DEF Good, Base, Worlds
<1>2. m \in Message /\ LineInv(l, w.session, w.tracking, h)
  BY ReadLineKeeps DEF Good, Base, Announced
<1>3. l \in Seq(Message)
  BY <1>2 DEF LineInv
<1>4. m.type = "request" => m.value \in Nat
  BY <1>2 DEF Message
<1> HIDE DEF m, l
<1>5. g \in [heard : Nat, open : SUBSET Nat] /\ g.heard = h
  BY <1>1, <1>4
<1> HIDE DEF g, h
<1>6. /\ v \in Worlds /\ v.line = l /\ v.req = w.req /\ v.lsMode = w.lsMode
      /\ v.cancelDue = w.cancelDue /\ v.method = w.method /\ v.notify = w.notify
      /\ v.session = w.session /\ v.tracking = w.tracking /\ v.power = w.power
      /\ v.closing = w.closing /\ v.fault = w.fault /\ v.locating = w.locating
      /\ v.gateway = g /\ v.owed = w.owed
  BY <1>1, <1>3, <1>5 DEF Worlds
<1> HIDE DEF v
<1>7. Base(v)
  BY <1>2, <1>5, <1>6 DEF Good, Base, Requested, Announced, Powered, Active, AsksOne
<1>8. Remembered(v) /\ Settled(v) /\ Served(v)
  BY <1>6 DEF Good, Settled, Served, Remembered, Active
<1> QED
  BY <1>7, <1>8 DEF Good, v, l, g, m

\* A session that the gateway ends is no longer open there.
LEMMA SessionEndsKeeps ==
    ASSUME NEW w, Good(w), ~w.fault, NEW s
    PROVE  LET v == [w EXCEPT !.gateway.open = @ \ {s}] IN Good(v) /\ v.fault = w.fault
<1> DEFINE g == [w.gateway EXCEPT !.open = @ \ {s}]
           v == [w EXCEPT !.gateway = g]
<1>1. w \in Worlds /\ w.gateway \in [heard : Nat, open : SUBSET Nat]
  BY DEF Good, Base, Worlds
<1>2. [w EXCEPT !.gateway.open = @ \ {s}] = v
  OBVIOUS
<1>3. g \in [heard : Nat, open : SUBSET Nat] /\ g.heard = w.gateway.heard
  BY <1>1
<1> HIDE DEF g
<1>4. /\ v \in Worlds /\ v.line = w.line /\ v.req = w.req /\ v.lsMode = w.lsMode
      /\ v.cancelDue = w.cancelDue /\ v.method = w.method /\ v.notify = w.notify
      /\ v.session = w.session /\ v.tracking = w.tracking /\ v.power = w.power
      /\ v.closing = w.closing /\ v.fault = w.fault /\ v.locating = w.locating
      /\ v.gateway = g /\ v.owed = w.owed
  BY <1>1, <1>3 DEF Worlds
<1> HIDE DEF v
<1>5. Base(v)
  BY <1>3, <1>4 DEF Good, Base, Requested, Announced, Powered, Active, AsksOne
<1>6. Remembered(v) /\ Settled(v) /\ Served(v)
  BY <1>4 DEF Good, Settled, Served, Remembered, Active
<1> QED
  BY <1>2, <1>4, <1>5, <1>6 DEF Good

\* The end of the session the manager waits for.
LEMMA OwnSessionCompleteKeeps ==
    ASSUME NEW w, Good(w), ~w.fault, NEW fresh
    PROVE  Good(OwnSessionComplete(w, fresh))
<1> DEFINE a == [w EXCEPT !.lsReq = "received"]
           b == [w EXCEPT !.lsReq = "completed"]
           x == IF Reissues(w, fresh) THEN Combine(a, "LS", "request") ELSE b
           y == Invalidate(x, "LS")
           z == [y EXCEPT !.notify = FALSE]
<1>c. "LS" \in Channel /\ {"received", "completed"} \subseteq LsState /\ w \in Worlds
  BY DEF Channel, LsState, Good, Base
<1>1. Good(x)
  <2>1. CASE Reissues(w, fresh)
    <3>1. /\ Base(a) /\ a.fault = w.fault /\ Remembered(a) /\ Settled(a)
          /\ a.req = w.req
      BY <1>c, LsReqIsApart DEF Good
    <3>2. Active(w, "LS")
      BY <2>1 DEF Reissues
    <3> HIDE DEF a
    <3>3. Changed(a, "LS", "request")
      BY <3>1, <3>2 DEF Good, Base, Requested, Changed, Active, AsksOne
    <3>4. Good(Combine(a, "LS", "request"))
      BY <3>1, <3>3, CombineServes DEF Good
    <3> QED
      BY <2>1, <3>4
  <2>2. CASE ~Reissues(w, fresh)
    <3>1. Good(b)
      BY <1>c, LsReqIsApart DEF Good
    <3> QED
      BY <2>2, <3>1
  <2> QED
    BY <2>1, <2>2
<1>2. OwnSessionComplete(w, fresh) = IF x.notify THEN Publish(z) ELSE x
  BY DEF OwnSessionComplete
<1> HIDE DEF x
<1>3. Base(y) /\ (y.fault \/ (Settled(y) /\ Served(y)))
  BY <1>1, <1>c, InvalidateKeeps DEF Good
<1> HIDE DEF y
<1>4. Base(z) /\ (z.fault \/ (Settled(z) /\ Served(z)))
  BY <1>3, NotifyKeeps
<1> HIDE DEF z
<1>5. Good(Publish(z))
  BY <1>4, PublishKeeps DEF Good
<1> QED
  BY <1>1, <1>2, <1>5

\* The end of any session.
LEMMA SessionEndKeeps ==
    ASSUME NEW v, Good(v), ~v.fault, NEW reason, NEW s, NEW admin, NEW fresh
    PROVE  Good(SessionEnd(v, reason, s, admin, fresh))
<1> DEFINE w == [v EXCEPT !.netMode = None]
           a == Invalidate(w, "LS")
           b == [a EXCEPT !.lsReq = "none"]
           c == RestartTimerIfTracking(b)
           d == PublishDummy(c)
           e == Combine(d, "NRH", "cancel")
           f == [w EXCEPT !.fallback = TRUE]
<1>c. /\ {"LS", "NRH"} \subseteq Channel /\ "none" \in LsState /\ TRUE \in BOOLEAN
      /\ None \in Method
  BY SupportedMethods DEF Channel, LsState
<1>1. Good(w) /\ ~w.fault
  <2>1. v \in Worlds /\ w = [v EXCEPT !.netMode = None]
    BY DEF Good, Base
  <2> HIDE DEF w
  <2>2. /\ w.fault = v.fault
        /\ Base(v) => Base(w)
        /\ Settled(v) => Settled(w)
        /\ Served(v) => Served(w)
        /\ Remembered(v) => Remembered(w)
    BY <1>c, <2>1, ApartKeeps
  <2> QED
    BY <2>2 DEF Good
<1>2. SessionEnd(v, reason, s, admin, fresh) \in
        {[e EXCEPT !.cancelDue = FALSE], f, OwnSessionComplete(w, fresh), w}
  BY DEF SessionEnd
<1> HIDE DEF w
<1>3. Good([e EXCEPT !.cancelDue = FALSE])
  <2>1. Base(a) /\ ~a.fault /\ Settled(a)
    BY <1>1, <1>c, InvalidateKeeps DEF Good
  <2> HIDE DEF a
  <2>2. Base(b) /\ ~b.fault /\ Settled(b)
    BY <1>c, <2>1, LsReqIsApart DEF Base
  <2> HIDE DEF b
  <2>3. Base(c) /\ ~c.fault /\ Settled(c)
    BY <2>2, RestartTimerKeeps DEF Base
  <2> HIDE DEF c
  <2>4. Base(d) /\ ~d.fault /\ Settled(d) /\ Remembered(d)
    BY <2>3, PublishKeeps DEF PublishDummy
  <2> HIDE DEF d
  <2>5. Changed(d, "NRH", "cancel")
    BY DEF Changed
  <2>6. Good(e) /\ ~e.cancelDue
    BY <2>4, <2>5, CombineServes DEF Good
  <2> HIDE DEF e
  <2>7. [e EXCEPT !.cancelDue = FALSE] = e
    BY <2>6 DEF Good, Base, Worlds
  <2> QED
    BY <2>6, <2>7
<1>4. Good(f)
  BY <1>1, <1>c, ApartKeeps DEF Good, Base
<1>5. Good(OwnSessionComplete(w, fresh))
  BY <1>1, OwnSessionCompleteKeeps
<1> QED
  BY <1>1, <1>2, <1>3, <1>4, <1>5


\* The LS has published the end of both requests itself.
LEMMA EarlyCompletionKeeps ==
    ASSUME NEW w, Good(w), ~w.fault
    PROVE  Good([InvalidateBoth(w) EXCEPT !.locating = FALSE, !.owed = FALSE])
<1> DEFINE a == Invalidate(w, "LS")
           b == Invalidate(a, "NRH")
           v == [b EXCEPT !.locating = FALSE, !.owed = FALSE]
<1>c. Channel = {"LS", "NRH"}
  BY DEF Channel
<1>1. Base(a) /\ ~Active(a, "LS") /\ ~a.fault
  BY <1>c, InvalidateKeeps DEF Good
<1>2. InvalidateBoth(w) = b
  BY DEF InvalidateBoth
<1> HIDE DEF a
<1>3. Base(b) /\ ~b.fault /\ \A d \in Channel : ~Active(b, d)
  BY <1>1, <1>c, InvalidateKeeps
<1> HIDE DEF b
<1>4. /\ v \in Worlds /\ v.line = b.line /\ v.req = b.req /\ v.lsMode = b.lsMode
      /\ v.cancelDue = b.cancelDue /\ v.method = b.method /\ v.notify = b.notify
      /\ v.session = b.session /\ v.tracking = b.tracking /\ v.power = b.power
      /\ v.closing = b.closing /\ v.fault = b.fault
      /\ v.gateway = b.gateway /\ ~v.owed
  BY <1>3 DEF Base, Worlds
<1> HIDE DEF v
<1>5. Base(v)
  BY <1>3, <1>4 DEF Base, Requested, Announced, Powered, Active, AsksOne
<1>6. Remembered(v) /\ Settled(v) /\ Served(v)
  BY <1>3, <1>4, <1>c DEF Settled, Served, Remembered, Active
<1> QED
  BY <1>2, <1>5, <1>6 DEF Good, v

\* A manager that closes down keeps what waits and what is remembered.
LEMMA CloseDownKeeps ==
    ASSUME NEW w, Good(w), ~w.fault
    PROVE  Good([w EXCEPT !.closing = TRUE, !.locating = FALSE,
                          !.power["module"] = Power.close])
<1> DEFINE p == [w.power EXCEPT !["module"] = Power.close]
           v == [w EXCEPT !.closing = TRUE, !.locating = FALSE, !.power = p]
<1>1. w \in Worlds /\ w.power \in [Channel \union {"module"} -> 0..4]
  BY DEF Good, Base, Worlds
<1>2. [w EXCEPT !.closing = TRUE, !.locating = FALSE, !.power["module"] = Power.close] = v
  OBVIOUS
<1>3. p \in [Channel \union {"module"} -> 0..4]
  BY <1>1 DEF Power
<1> HIDE DEF p
<1>4. /\ v \in Worlds /\ v.line = w.line /\ v.req = w.req /\ v.lsMode = w.lsMode
      /\ v.cancelDue = w.cancelDue /\ v.method = w.method /\ v.notify = w.notify
      /\ v.session = w.session /\ v.tracking = w.tracking /\ v.closing
      /\ v.fault = w.fault /\ v.gateway = w.gateway /\ v.owed = w.owed
  BY <1>1, <1>3 DEF Worlds
<1> HIDE DEF v
<1>5. Base(v)
  BY <1>4 DEF Good, Base, Requested, Announced, Powered, Active, AsksOne
<1>6. Remembered(v) /\ Settled(v) /\ Served(v)
  BY <1>4 DEF Good, Settled, Served, Remembered, Active
<1> QED
  BY <1>2, <1>5, <1>6 DEF Good

\* The LS has stopped issuing requests.
LEMMA TrackingTimeoutKeeps ==
    ASSUME NEW w, Good(w), ~w.fault
    PROVE  Good(SendSystemStatusAdvice([w EXCEPT !.timer = FALSE], FALSE))
<1> DEFINE x == [w EXCEPT !.timer = FALSE]
<1>1. Good(x) /\ ~x.fault
  <2>1. w \in Worlds /\ x = [w EXCEPT !.timer = FALSE]
    BY DEF Good, Base
  <2> HIDE DEF x
  <2> QED
    BY <2>1, ApartKeeps DEF Good
<1> HIDE DEF x
<1>2. \A on \in BOOLEAN : Good(SendSystemStatusAdvice(x, on))
  BY <1>1, StatusKeeps DEF Good
<1> QED
  BY <1>2, Zenon DEF x

-----------------------------------------------------------------------------
(***************************************************************************)
(* The inductive invariant.                                                *)
(***************************************************************************)
Sound(w) == Base(w) /\ Remembered(w) /\ Settled(w) /\ Served(w)

AgpsInv == Sound(World) /\ budget \in Budget

\* What the world is made of.
LEMMA WorldFields ==
    /\ World.req = req /\ World.lsReq = lsReq /\ World.lsMode = lsMode
    /\ World.cancelDue = cancelDue /\ World.method = method /\ World.cells = cells
    /\ World.netMode = netMode /\ World.fallback = fallback /\ World.notify = notify
    /\ World.session = session /\ World.tracking = tracking /\ World.timer = timer
    /\ World.power = power /\ World.closing = closing /\ World.line = line
    /\ World.fault = fault /\ World.locating = locating
    /\ World.gateway = gateway /\ World.owed = owed
BY DEF World

\* A request that has ended is not looked at any more.
LEMMA KeptKeeps ==
    ASSUME NEW w, Sound(w)
    PROVE  Sound([w EXCEPT !.req = Kept(w.req)])
<1> DEFINE q == Kept(w.req)
           v == [w EXCEPT !.req = q]
<1>c. Channel = {"LS", "NRH"}
  BY DEF Channel
<1>1. w \in Worlds /\ w.req \in [Channel -> Request]
  BY DEF Sound, Base, Worlds
<1>2. /\ q \in [Channel -> Request]
      /\ \A d \in Channel : q[d].state = w.req[d].state
      /\ w.req["LS"].state # "idle" => q = w.req
      /\ q["NRH"].modes = w.req["NRH"].modes
  <2>1. CASE w.req["LS"].state # "idle"
    BY <1>1, <2>1 DEF Kept
  <2>2. CASE w.req["LS"].state = "idle"
    <3> DEFINE r == [w.req["LS"] EXCEPT !.modes = {}, !.new = FALSE]
    <3>1. q = [w.req EXCEPT !["LS"] = r]
      BY <1>1, <1>c, <2>2 DEF Kept
    <3>2. r \in Request /\ r.state = w.req["LS"].state
      BY <1>1, <1>c DEF Request
    <3> HIDE DEF q, r
    <3> QED
      BY <1>1, <1>c, <2>2, <3>1, <3>2
  <2> QED
    BY <2>1, <2>2
<1> HIDE DEF q
<1>3. /\ v \in Worlds /\ v.line = w.line /\ v.req = q /\ v.lsMode = w.lsMode
      /\ v.cancelDue = w.cancelDue /\ v.method = w.method /\ v.notify = w.notify
      /\ v.session = w.session /\ v.tracking = w.tracking /\ v.power = w.power
      /\ v.closing = w.closing /\ v.fault = w.fault /\ v.locating = w.locating
      /\ v.gateway = w.gateway /\ v.owed = w.owed
  BY <1>1, <1>2 DEF Worlds
<1> HIDE DEF v
<1>4. \A d \in Channel : Active(v, d) <=> Active(w, d)
  BY <1>2, <1>3 DEF Active
<1>5. Base(v)
  <2>1. Requested(v)
    BY <1>2, <1>3, <1>4, <1>c DEF Sound, Base, Requested, Active, AsksOne
  <2> QED
    BY <1>3, <2>1 DEF Sound, Base, Announced, Powered
<1>6. Remembered(v) /\ Settled(v)
  BY <1>3, <1>4, <1>c DEF Sound, Remembered, Settled
<1>7. Served(v)
  BY <1>2, <1>3, <1>4, <1>c DEF Sound, Served
<1> QED
  BY <1>5, <1>6, <1>7 DEF Sound, v, q

\* A step leaves the world it ends in; if an assertion has failed, it leaves
\* the one it began in.
LEMMA BecomeKeeps ==
    ASSUME Sound(World), NEW w, Good(w), Become(w)
    PROVE  Sound(World)'
<1> DEFINE v == IF w.fault THEN [World EXCEPT !.fault = TRUE] ELSE w
           u == [v EXCEPT !.req = Kept(v.req)]
<1>1. Sound(v)
  <2>1. CASE w.fault
    <3> DEFINE x == World
               y == [x EXCEPT !.fault = TRUE]
    <3>1. Sound(x)
      OBVIOUS
    <3> HIDE DEF x
    <3>2. /\ y \in Worlds /\ y.line = x.line /\ y.req = x.req /\ y.lsMode = x.lsMode
          /\ y.cancelDue = x.cancelDue /\ y.method = x.method /\ y.notify = x.notify
          /\ y.session = x.session /\ y.tracking = x.tracking /\ y.power = x.power
          /\ y.closing = x.closing /\ y.locating = x.locating
          /\ y.gateway = x.gateway /\ y.owed = x.owed
      BY <3>1 DEF Sound, Base, Worlds
    <3>e. v = y
      BY <2>1 DEF x
    <3> HIDE DEF y, v
    <3>3. Base(y)
      BY <3>1, <3>2 DEF Sound, Base, Requested, Announced, Powered, Active, AsksOne
    <3>4. Remembered(y) /\ Settled(y) /\ Served(y)
      BY <3>1, <3>2 DEF Sound, Settled, Served, Remembered, Active
    <3> QED
      BY <3>e, <3>3, <3>4 DEF Sound
  <2>2. CASE ~w.fault
    BY <2>2 DEF Good, Sound
  <2> QED
    BY <2>1, <2>2
<1>2. Sound(u)
  <2> HIDE DEF v
  <2> QED
    BY <1>1, KeptKeeps
<1>3. World' = u
  <2>1. /\ req' = Kept(v.req) /\ lsReq' = v.lsReq /\ lsMode' = v.lsMode
        /\ cancelDue' = v.cancelDue /\ method' = v.method /\ cells' = v.cells
        /\ netMode' = v.netMode /\ fallback' = v.fallback /\ notify' = v.notify
        /\ session' = v.session /\ tracking' = v.tracking /\ timer' = v.timer
        /\ power' = v.power /\ closing' = v.closing /\ line' = v.line
        /\ fault' = v.fault /\ locating' = v.locating
        /\ gateway' = v.gateway /\ owed' = v.owed
    BY DEF Become
  <2>2. v \in Worlds
    BY <1>1 DEF Sound, Base
  <2> DEFINE q == Kept(v.req)
  <2>3. req' = q
    BY <2>1
  <2> HIDE DEF v, q
  <2>4. v = [req |-> v.req, lsReq |-> v.lsReq, lsMode |-> v.lsMode,
             cancelDue |-> v.cancelDue, method |-> v.method, cells |-> v.cells,
             netMode |-> v.netMode, fallback |-> v.fallback, notify |-> v.notify,
             session |-> v.session, tracking |-> v.tracking, timer |-> v.timer,
             power |-> v.power, closing |-> v.closing, line |-> v.line, fault |-> v.fault,
             locating |-> v.locating, gateway |-> v.gateway, owed |-> v.owed]
    BY <2>2 DEF Worlds
  <2>5. [v EXCEPT !.req = q] =
            [req |-> q, lsReq |-> v.lsReq, lsMode |-> v.lsMode,
             cancelDue |-> v.cancelDue, method |-> v.method, cells |-> v.cells,
             netMode |-> v.netMode, fallback |-> v.fallback, notify |-> v.notify,
             session |-> v.session, tracking |-> v.tracking, timer |-> v.timer,
             power |-> v.power, closing |-> v.closing, line |-> v.line, fault |-> v.fault,
             locating |-> v.locating, gateway |-> v.gateway, owed |-> v.owed]
    BY <2>4
  <2> QED
    BY <2>1, <2>3, <2>5, Zenon DEF World, q
<1> QED
  BY <1>2, <1>3

\* The initial world owes nothing and has sent nothing.
LEMMA InitSound == Init => AgpsInv
<1> SUFFICES ASSUME Init PROVE AgpsInv
  OBVIOUS
<1> DEFINE w == World
<1>c. Channel = {"LS", "NRH"} /\ "module" \notin Channel
  BY DEF Channel
<1>1. NoRequest \in Request /\ NoRequest.state = "idle"
  BY DEF NoRequest, Request
<1>2. /\ w.req = [c \in Channel |-> NoRequest] /\ w.lsReq = "none" /\ w.lsMode = None
      /\ w.cancelDue = FALSE /\ w.method = None /\ w.cells = FALSE /\ w.netMode = None
      /\ w.fallback = FALSE /\ w.notify = FALSE /\ w.session = 0
      /\ w.tracking = "unknown" /\ w.timer = TRUE
      /\ w.power = [c \in Channel \union {"module"} |-> Power.unknown]
      /\ w.closing = FALSE /\ w.line = <<>> /\ w.fault = FALSE /\ w.locating = FALSE
      /\ w.gateway = [heard |-> 0, open |-> {}] /\ w.owed = FALSE
  BY WorldFields DEF Init
<1>3. w \in Worlds
  <2>1. req \in [Channel -> Request]
    BY <1>1 DEF Init
  <2>2. power \in [Channel \union {"module"} -> 0..4]
    BY DEF Init, Power
  <2>3. {lsMode, method, netMode} \subseteq Method
    BY SupportedMethods DEF Init
  <2>4. gateway \in [heard : Nat, open : SUBSET Nat]
    BY DEF Init
  <2>5. line \in Seq(Message)
    BY DEF Init
  <2>6. /\ lsReq \in LsState /\ session \in Nat
        /\ cancelDue \in BOOLEAN /\ cells \in BOOLEAN /\ fallback \in BOOLEAN
        /\ notify \in BOOLEAN /\ timer \in BOOLEAN /\ closing \in BOOLEAN
        /\ fault \in BOOLEAN /\ locating \in BOOLEAN /\ owed \in BOOLEAN
        /\ tracking \in {"unknown", "on", "off"}
    BY DEF Init, LsState
  <2> QED
    BY <2>1, <2>2, <2>3, <2>4, <2>5, <2>6 DEF World, Worlds
<1> HIDE DEF w
<1>4. \A c \in Channel : ~Active(w, c)
  BY <1>1, <1>2 DEF Active
<1>5. Announced(w)
  BY <1>2, <1>3 DEF Announced, LineInv, Worlds
<1>6. Powered(w)
  BY <1>2, <1>c DEF Powered, Power
<1>7. Base(w)
  BY <1>2, <1>3, <1>4, <1>5, <1>6, <1>c DEF Base, Requested
<1>8. Remembered(w) /\ Settled(w) /\ Served(w)
  BY <1>2, <1>4, <1>c DEF Remembered, Settled, Served
<1>9. budget \in Budget
  BY AgpsManagerAssumption DEF Init
<1> QED
  BY <1>7, <1>8, <1>9 DEF Sound, AgpsInv, w

\* What comes with a message is taken off the budget.
LEMMA SpendsKeeps ==
    ASSUME budget \in Budget, NEW n \in Nat, NEW c \in Channel, NEW advice, Spends(n, c, advice)
    PROVE  budget' \in Budget
<1> DEFINE flags == IF c = "LS" /\ advice.track # (tracking = "on") THEN 1 ELSE 0
           modes == IF advice.power = Power.unknown THEN 0 ELSE 1
<1>1. /\ budget.requests[c] >= n /\ budget.tracking >= flags /\ budget.power >= modes
      /\ budget' = [budget EXCEPT !.requests[c] = @ - n, !.tracking = @ - flags,
                                  !.power = @ - modes]
  BY DEF Spends
<1>2. flags \in {0, 1} /\ modes \in {0, 1}
  OBVIOUS
<1> HIDE DEF flags, modes
<1>3. /\ budget.requests \in [Channel -> Nat] /\ budget.tracking \in Nat /\ budget.power \in Nat
  BY DEF Budget
<1> DEFINE r == [budget.requests EXCEPT ![c] = @ - n]
<1>4. budget.requests[c] - n \in Nat
  BY <1>1, <1>3
<1>5. r \in [Channel -> Nat]
  BY <1>3, <1>4
<1>6. budget.tracking - flags \in Nat /\ budget.power - modes \in Nat
  BY <1>1, <1>2, <1>3
<1>7. budget' = [budget EXCEPT !.requests = r, !.tracking = @ - flags, !.power = @ - modes]
  BY <1>1
<1> HIDE DEF r
<1> QED
  BY <1>5, <1>6, <1>7 DEF Budget

\* A request that comes with advice, on time or late.
LEMMA LocationRequestKeeps ==
    ASSUME AgpsInv, NEW c \in Channel, LocationRequest(c)
    PROVE  AgpsInv'
<1>1. PICK advice \in Advice(c),
           ms \in (IF c = "LS" THEN {{m} : m \in LsAsks} ELSE NrhAsks),
           new \in (IF c = "LS" THEN BOOLEAN ELSE {FALSE}),
           future \in (IF c = "LS" THEN BOOLEAN ELSE {FALSE}),
           ct \in (IF c = "NRH" THEN CellTimings ELSE {FALSE}),
           late \in BOOLEAN :
              /\ ~fault
              /\ Spends(1, c, advice)
              /\ Become(Activate(SystemStatusAdvice(World, c, advice), c,
                          [state |-> "active", modes |-> ms, new |-> new,
                           future |-> future, cells |-> ct], late))
  BY DEF LocationRequest
<1> DEFINE w == SystemStatusAdvice(World, c, advice)
           r == [state |-> "active", modes |-> ms, new |-> new, future |-> future, cells |-> ct]
<1>c. Channel = {"LS", "NRH"}
  BY DEF Channel
<1>2. Good(w) /\ ~w.fault
  <2>1. Base(World) /\ ~World.fault
    BY <1>1, WorldFields DEF AgpsInv, Sound
  <2> QED
    BY <2>1, AdviceKeeps DEF AgpsInv, Sound, Good
<1>3. /\ c = "LS" => \E m \in Supported : ms = {m}
      /\ c = "NRH" => ms \in NrhMethods
  BY <1>c, AgpsManagerAssumption
<1>4. ms \in SUBSET Supported
  <2>1. CASE c = "LS"
    BY <1>3, <2>1
  <2>2. CASE c = "NRH"
    BY <1>3, <2>2 DEF NrhMethods, Supported
  <2> QED
    BY <1>c, <2>1, <2>2
<1>5. r \in Request
  <2>1. new \in BOOLEAN /\ future \in BOOLEAN /\ ct \in BOOLEAN
    BY AgpsManagerAssumption
  <2> QED
    BY <1>4, <2>1 DEF Request
<1>6. r.state = "active" /\ r.modes = ms
  OBVIOUS
<1>7. Become(Activate(w, c, r, late))
  BY <1>1
<1> HIDE DEF w, r
<1>8. Good(Activate(w, c, r, late))
  BY <1>2, <1>3, <1>5, <1>6, ActivateKeeps
<1>9. Sound(World)'
  BY <1>7, <1>8, BecomeKeeps DEF AgpsInv
<1>10. budget' \in Budget
  BY <1>1, SpendsKeeps DEF AgpsInv
<1> QED
  BY <1>9, <1>10 DEF AgpsInv

\* A cancel that comes with advice.
LEMMA LocationCancelKeeps ==
    ASSUME AgpsInv, NEW c \in Channel, LocationCancel(c)
    PROVE  AgpsInv'
<1>1. PICK advice \in Advice(c) :
              /\ ~fault
              /\ Spends(0, c, advice)
              /\ Become(End(SystemStatusAdvice(World, c, advice), c, "cancel"))
  BY DEF LocationCancel
<1> DEFINE w == SystemStatusAdvice(World, c, advice)
<1>2. Good(w) /\ ~w.fault
  <2>1. Base(World) /\ ~World.fault
    BY <1>1, WorldFields DEF AgpsInv, Sound
  <2> QED
    BY <2>1, AdviceKeeps DEF AgpsInv, Sound, Good
<1>3. Become(End(w, c, "cancel"))
  BY <1>1
<1> HIDE DEF w
<1>4. Good(End(w, c, "cancel"))
  BY <1>2, EndKeeps
<1>5. Sound(World)'
  BY <1>3, <1>4, BecomeKeeps DEF AgpsInv
<1>6. budget' \in Budget
  BY <1>1, SpendsKeeps DEF AgpsInv
<1> QED
  BY <1>5, <1>6 DEF AgpsInv

\* Advice that comes with a status message.
LEMMA StatusAdviceKeeps ==
    ASSUME AgpsInv, NEW c \in Channel, StatusAdvice(c)
    PROVE  AgpsInv'
<1>1. PICK advice \in Advice(c) :
              /\ ~fault
              /\ Spends(0, c, advice)
              /\ Become(SystemStatusAdvice(World, c, advice))
  BY DEF StatusAdvice
<1>2. Good(SystemStatusAdvice(World, c, advice))
  <2>1. Base(World) /\ ~World.fault
    BY <1>1, WorldFields DEF AgpsInv, Sound
  <2> QED
    BY <2>1, AdviceKeeps DEF AgpsInv, Sound, Good
<1>3. Sound(World)'
  BY <1>1, <1>2, BecomeKeeps DEF AgpsInv
<1>4. budget' \in Budget
  BY <1>1, SpendsKeeps DEF AgpsInv
<1> QED
  BY <1>3, <1>4 DEF AgpsInv

\* The events that spend nothing.
LEMMA TimerActionsKeep ==
    ASSUME AgpsInv,
           \/ \E c \in Channel : RequestTimeout(c)
           \/ TargetTimeComes
           \/ RestartTimeout
           \/ TrackingTimeout
           \/ EarlyCompletion
    PROVE  AgpsInv'
<1>1. ~fault /\ budget' = budget
  BY DEF RequestTimeout, TargetTimeComes, RestartTimeout, TrackingTimeout, EarlyCompletion
<1>2. Good(World) /\ ~World.fault
  BY <1>1, WorldFields DEF AgpsInv, Sound, Good
<1>3. Sound(World)'
  <2>1. CASE \E c \in Channel : RequestTimeout(c)
    <3>1. PICK c \in Channel : Become(End(World, c, "timeout"))
      BY <2>1 DEF RequestTimeout
    <3>2. Good(End(World, c, "timeout"))
      BY <1>2, EndKeeps
    <3> QED
      BY <3>1, <3>2, BecomeKeeps DEF AgpsInv
  <2>2. CASE TargetTimeComes
    <3> DEFINE x == World
               r == [x.req["LS"] EXCEPT !.future = FALSE]
    <3>1. x.req["LS"] \in Request
      BY <1>2 DEF Good, Base, Worlds, Channel
    <3>2. /\ r \in Request /\ r.modes = x.req["LS"].modes
          /\ r.state # "idle" <=> Active(x, "LS")
      BY <3>1 DEF Request, Active
    <3>3. Become([x EXCEPT !.req["LS"] = r])
      <4>1. Become([x EXCEPT !.req["LS"].future = FALSE])
        BY <2>2 DEF TargetTimeComes
      <4>2. [x EXCEPT !.req["LS"].future = FALSE] = [x EXCEPT !.req["LS"] = r]
        OBVIOUS
      <4> QED
        BY <4>1, <4>2
    <3> HIDE DEF r
    <3>4. Good([x EXCEPT !.req["LS"] = r])
      <4> HIDE DEF x
      <4>1. Good(x) /\ ~x.fault
        BY <1>2 DEF x
      <4> QED
        BY <3>2, <4>1, RequestKeeps
    <3> QED
      BY <3>3, <3>4, BecomeKeeps DEF AgpsInv
  <2>3. CASE RestartTimeout
    <3>1. PICK over \in BOOLEAN : Become(Reactivate(World, over))
      BY <2>3 DEF RestartTimeout
    <3>2. World.req["LS"].state = "restart"
      BY <2>3, WorldFields DEF RestartTimeout
    <3>3. Good(Reactivate(World, over))
      BY <1>2, <3>2, ReactivateKeeps
    <3> QED
      BY <3>1, <3>3, BecomeKeeps DEF AgpsInv
  <2>4. CASE TrackingTimeout
    <3>1. Good(SendSystemStatusAdvice([World EXCEPT !.timer = FALSE], FALSE))
      BY <1>2, TrackingTimeoutKeeps
    <3> QED
      BY <2>4, <3>1, BecomeKeeps DEF AgpsInv, TrackingTimeout
  <2>5. CASE EarlyCompletion
    <3>1. Good([InvalidateBoth(World) EXCEPT !.locating = FALSE, !.owed = FALSE])
      BY <1>2, EarlyCompletionKeeps
    <3> QED
      BY <2>5, <3>1, BecomeKeeps DEF AgpsInv, EarlyCompletion
  <2> QED
    BY <2>1, <2>2, <2>3, <2>4, <2>5
<1> QED
  BY <1>1, <1>3 DEF AgpsInv

\* The events of the GPS module.
LEMMA ModuleActionsKeep ==
    ASSUME AgpsInv,
           \/ RequestInNewSession
           \/ RequestAssistanceData
           \/ UpdateLocation
           \/ OnProcessCloseDown
    PROVE  AgpsInv'
<1>1. ~fault
  BY DEF RequestInNewSession, RequestAssistanceData, UpdateLocation, OnProcessCloseDown
<1>2. Good(World) /\ ~World.fault
  BY <1>1, WorldFields DEF AgpsInv, Sound, Good
<1>b. /\ budget.sessions \in Nat /\ budget.assist \in Nat /\ budget.close \in Nat
      /\ budget \in Budget
  BY DEF AgpsInv, Budget
<1>3. CASE RequestInNewSession
  <2>1. PICK over \in BOOLEAN : Become(StartSelfLocate(World, over))
    BY <1>3 DEF RequestInNewSession
  <2>2. Good(StartSelfLocate(World, over))
    BY <1>2, StartSelfLocateKeeps
  <2>3. Sound(World)'
    BY <2>1, <2>2, BecomeKeeps DEF AgpsInv
  <2>4. budget' \in Budget
    BY <1>3, <1>b DEF RequestInNewSession, Budget
  <2> QED
    BY <2>3, <2>4 DEF AgpsInv
<1>4. CASE RequestAssistanceData
  <2> DEFINE x == IF lsReq = "received" THEN PutOff(World) ELSE World
  <2>1. Become(Send(x, "assist", 0))
    BY <1>4 DEF RequestAssistanceData
  <2>2. x \in {World, PutOff(World)}
    OBVIOUS
  <2> HIDE DEF x
  <2>3. Good(Send(x, "assist", 0))
    BY <1>2, <2>2, AssistKeeps
  <2>4. Sound(World)'
    BY <2>1, <2>3, BecomeKeeps DEF AgpsInv
  <2>5. budget' \in Budget
    BY <1>4, <1>b DEF RequestAssistanceData, Budget
  <2> QED
    BY <2>4, <2>5 DEF AgpsInv
<1>5. CASE UpdateLocation
  <2>1. PICK status, position, meas, met : Become(Update(World, status, position, meas, met))
    BY <1>5, Zenon DEF UpdateLocation
  <2>2. Good(Update(World, status, position, meas, met))
    BY <1>2, UpdateKeeps
  <2>3. Sound(World)'
    BY <2>1, <2>2, BecomeKeeps DEF AgpsInv
  <2> QED
    BY <1>5, <1>b, <2>3 DEF AgpsInv, UpdateLocation
<1>6. CASE OnProcessCloseDown
  <2>1. Good([World EXCEPT !.closing = TRUE, !.locating = FALSE,
                           !.power["module"] = Power.close])
    BY <1>2, CloseDownKeeps
  <2>2. Sound(World)'
    BY <1>6, <2>1, BecomeKeeps DEF AgpsInv, OnProcessCloseDown
  <2>3. budget' \in Budget
    BY <1>6, <1>b DEF OnProcessCloseDown, Budget
  <2> QED
    BY <2>2, <2>3 DEF AgpsInv
<1> QED
  BY <1>3, <1>4, <1>5, <1>6

\* The events of the network gateway.
LEMMA GatewayActionsKeep ==
    ASSUME AgpsInv, MessageRead \/ OnSessionComplete \/ OnAssistanceDataError
    PROVE  AgpsInv'
<1>1. ~fault /\ budget' = budget
  BY DEF MessageRead, OnSessionComplete, OnAssistanceDataError
<1>2. Good(World) /\ ~World.fault
  BY <1>1, WorldFields DEF AgpsInv, Sound, Good
<1>3. Sound(World)'
  <2>1. CASE MessageRead
    <3> DEFINE m == Head(line)
               w == [World EXCEPT !.line = Tail(@),
                       !.gateway = IF m.type = "request"
                                   THEN [heard |-> m.value, open |-> @.open \union {m.value}]
                                   ELSE @]
    <3>1. Become(w)
      BY <2>1 DEF MessageRead
    <3>2. World.line = line /\ World.line # <<>>
      BY <2>1, WorldFields DEF MessageRead
    <3>3. Good(w)
      BY <1>2, <3>2, ReadKeeps
    <3> HIDE DEF w
    <3> QED
      BY <3>1, <3>3, BecomeKeeps DEF AgpsInv
  <2>2. CASE OnSessionComplete
    <3>1. PICK s, reason, admin, fresh :
             Become(SessionEnd([World EXCEPT !.gateway.open = @ \ {s}], reason, s, admin, fresh))
      BY <2>2, Zenon DEF OnSessionComplete
    <3> DEFINE v == [World EXCEPT !.gateway.open = @ \ {s}]
    <3>2. Good(v) /\ ~v.fault
      BY <1>2, SessionEndsKeeps
    <3>3. Become(SessionEnd(v, reason, s, admin, fresh))
      BY <3>1
    <3> HIDE DEF v
    <3>4. Good(SessionEnd(v, reason, s, admin, fresh))
      BY <3>2, SessionEndKeeps
    <3> QED
      BY <3>3, <3>4, BecomeKeeps DEF AgpsInv
  <2>3. CASE OnAssistanceDataError
    <3> DEFINE w == World
               v == [w EXCEPT !.fallback = TRUE]
    <3>1. Become(v)
      BY <2>3 DEF OnAssistanceDataError
    <3>2. Good(w) /\ w \in Worlds
      BY <1>2 DEF Good, Base
    <3> HIDE DEF w
    <3>e. v = [w EXCEPT !.fallback = TRUE]
      OBVIOUS
    <3> HIDE DEF v
    <3>3. Good(v)
      BY <3>2, <3>e, ApartKeeps DEF Good
    <3> QED
      BY <3>1, <3>3, BecomeKeeps DEF AgpsInv
  <2> QED
    BY <2>1, <2>2, <2>3
<1> QED
  BY <1>1, <1>3 DEF AgpsInv

\* AgpsInv is inductive.
LEMMA StepSound == AgpsInv /\ [Next]_vars => AgpsInv'
<1> SUFFICES ASSUME AgpsInv, [Next]_vars PROVE AgpsInv'
  OBVIOUS
<1>1. CASE \E c \in Channel : LocationRequest(c) \/ LocationCancel(c) \/ StatusAdvice(c)
  BY <1>1, LocationRequestKeeps, LocationCancelKeeps, StatusAdviceKeeps
<1>2. CASE UNCHANGED vars
  <2>1. World' = World /\ budget' = budget
    BY <1>2 DEF vars, World
  <2> QED
    BY <2>1 DEF AgpsInv
<1> QED
  BY <1>1, <1>2, TimerActionsKeep, ModuleActionsKeep, GatewayActionsKeep DEF Next

\* AgpsInv holds of every behaviour.
LEMMA AgpsInvariant == Spec => []AgpsInv
BY InitSound, StepSound, PTL DEF Spec

-----------------------------------------------------------------------------
(***************************************************************************)
(* What the invariant says of the manager.                                 *)
(***************************************************************************)

\* Every variable of the manager keeps its type, whatever the module can do.
THEOREM AgpsTypes == Spec => []TypeOK
<1>1. AgpsInv => TypeOK
  <2> SUFFICES ASSUME AgpsInv PROVE TypeOK
    OBVIOUS
  <2>1. /\ req \in [Channel -> Request] /\ lsReq \in LsState /\ lsMode \in Method
        /\ cancelDue \in BOOLEAN /\ method \in Method /\ cells \in BOOLEAN
        /\ netMode \in Method /\ fallback \in BOOLEAN /\ notify \in BOOLEAN
        /\ session \in Nat /\ tracking \in {"unknown", "on", "off"} /\ timer \in BOOLEAN
        /\ power \in [Channel \union {"module"} -> 0..4] /\ closing \in BOOLEAN
        /\ line \in Seq(Message) /\ fault \in BOOLEAN /\ locating \in BOOLEAN
        /\ gateway \in [heard : Nat, open : SUBSET Nat] /\ owed \in BOOLEAN
    <3> DEFINE w == World
    <3>1. w \in Worlds
      BY DEF AgpsInv, Sound, Base
    <3> HIDE DEF w
    <3>2. /\ w.req \in [Channel -> Request] /\ w.lsReq \in LsState /\ w.lsMode \in Method
          /\ w.cancelDue \in BOOLEAN /\ w.method \in Method /\ w.cells \in BOOLEAN
          /\ w.netMode \in Method /\ w.fallback \in BOOLEAN /\ w.notify \in BOOLEAN
          /\ w.session \in Nat /\ w.tracking \in {"unknown", "on", "off"} /\ w.timer \in BOOLEAN
          /\ w.power \in [Channel \union {"module"} -> 0..4] /\ w.closing \in BOOLEAN
          /\ w.line \in Seq(Message) /\ w.fault \in BOOLEAN /\ w.locating \in BOOLEAN
          /\ w.gateway \in [heard : Nat, open : SUBSET Nat] /\ w.owed \in BOOLEAN
      BY <3>1 DEF Worlds
    <3> QED
      BY <3>2, WorldFields DEF w
  <2>2. \A i \in DOMAIN line : line[i] \in Message
    BY <2>1
  <2>3. \A c \in DOMAIN power : \E p \in DOMAIN Power : power[c] = Power[p]
    <3>1. \A n \in 0..4 : \E p \in DOMAIN Power : n = Power[p]
      BY DEF Power
    <3> QED
      BY <2>1, <3>1
  <2>4. budget \in Budget
    BY DEF AgpsInv
  <2> QED
    BY <2>1, <2>2, <2>3, <2>4 DEF TypeOK, LsState
<1> QED
  BY <1>1, AgpsInvariant, PTL

\* No cancel takes the request of the other channel away from the module.
THEOREM RequestsAreLocated == Spec => []ActiveIsLocated
<1>1. AgpsInv => ActiveIsLocated
  BY WorldFields DEF AgpsInv, Sound, Served, ActiveIsLocated
<1> QED
  BY <1>1, AgpsInvariant, PTL

\* The method serves the network while its request counts, and else the LS.
THEOREM MethodServes == Spec => []ModeFollows
<1>1. AgpsInv => ModeFollows
  BY WorldFields DEF AgpsInv, Sound, Served, ModeFollows
<1> QED
  BY <1>1, AgpsInvariant, PTL

\* The LS is told of the end of every request it still waits for.
THEOREM LsIsAnswered == Spec => []LsNeverForgotten
<1>1. AgpsInv => LsNeverForgotten
  BY WorldFields DEF AgpsInv, Sound, Remembered, LsNeverForgotten
<1> QED
  BY <1>1, AgpsInvariant, PTL

\* The module keeps the power that either channel asked for last.
THEOREM PowerIsEnough == Spec => []PowerSuffices
<1>1. AgpsInv => PowerSuffices
  BY WorldFields DEF AgpsInv, Sound, Base, Powered, PowerSuffices
<1> QED
  BY <1>1, AgpsInvariant, PTL

\* Places of the line: the head, and those of the queue behind it.
LEMMA PlacesOfLine ==
    ASSUME NEW l \in Seq(Message), l # <<>>
    PROVE  /\ Len(l) \in Nat \ {0} /\ Head(l) = l[1] /\ Len(Tail(l)) = Len(l) - 1
           /\ \A i \in 1 .. Len(Tail(l)) : Tail(l)[i] = l[i + 1]
           /\ \A i \in DOMAIN l : i = 1 \/ (i - 1 \in 1 .. Len(Tail(l)) /\ l[i] = Tail(l)[i - 1])
<1> DEFINE q == Tail(l)
<1>1. /\ Len(l) \in Nat \ {0} /\ Head(l) = l[1] /\ Len(q) = Len(l) - 1
      /\ \A i \in 1 .. Len(q) : q[i] = l[i + 1]
      /\ DOMAIN l = 1 .. Len(l)
  OBVIOUS
<1> HIDE DEF q
<1>2. ASSUME NEW i \in 1 .. Len(l), i # 1
      PROVE  i - 1 \in 1 .. Len(q) /\ l[i] = q[i - 1]
  <2>1. i - 1 \in 1 .. Len(q) /\ (i - 1) + 1 = i
    BY <1>1, <1>2
  <2> QED
    BY <1>1, <2>1
<1> QED
  BY <1>1, <1>2 DEF q

\* What the line says of the sessions and their cancels.
LEMMA LineTells == AgpsInv => SessionIsAnnounced /\ CancelFollowsRequest
<1> DEFINE q == Tail(line)
<1>1. AgpsInv => LineInv(line, session, tracking, gateway.heard)
  BY WorldFields DEF AgpsInv, Sound, Base, Announced
<1>2. ASSUME LineInv(line, session, tracking, gateway.heard), line # <<>>
      PROVE  /\ line \in Seq(Message) /\ QueueInv(q, session, tracking)
             /\ Len(line) \in Nat \ {0} /\ Head(line) = line[1] /\ Len(q) = Len(line) - 1
             /\ \A i \in 1 .. Len(q) : q[i] = line[i + 1]
             /\ \A i \in DOMAIN line : i = 1 \/ (i - 1 \in 1 .. Len(q) /\ line[i] = q[i - 1])
             /\ DOMAIN line = 1 .. Len(line)
  BY <1>2, PlacesOfLine DEF LineInv
<1>3. ASSUME LineInv(line, session, tracking, gateway.heard)
      PROVE  gateway.heard = session \/ OnTheWay("request", session)
  <2>1. CASE line = <<>>
    BY <1>3, <2>1 DEF LineInv
  <2>2. CASE line # <<>>
    <3> HIDE DEF q
    <3>1. CASE Waits(q, "request")
      <4>1. PICK i \in 1 .. Len(q) : q[i].type = "request"
        BY <3>1 DEF Waits
      <4>2. q[i].value = session
        BY <1>2, <1>3, <2>2, <4>1 DEF QueueInv
      <4>3. i + 1 \in DOMAIN line /\ line[i + 1] = q[i]
        BY <1>2, <1>3, <2>2
      <4> QED
        BY <4>1, <4>2, <4>3 DEF OnTheWay
    <3>2. CASE ~Waits(q, "request")
      <4>1. \/ gateway.heard = session
            \/ Head(line).type = "request" /\ Head(line).value = session
        BY <1>3, <2>2, <3>2 DEF LineInv, q
      <4>2. 1 \in DOMAIN line /\ Head(line) = line[1]
        BY <1>2, <1>3, <2>2
      <4> QED
        BY <4>1, <4>2 DEF OnTheWay
    <3> QED
      BY <3>1, <3>2
  <2> QED
    BY <2>1, <2>2
<1>4. ASSUME LineInv(line, session, tracking, gateway.heard),
             NEW i \in DOMAIN line, line[i].type = "cancel"
      PROVE  \/ \E j \in 1..(i - 1) : line[j] = [line[i] EXCEPT !.type = "request"]
             \/ /\ gateway.heard = line[i].value
                /\ \A j \in 1..(i - 1) : line[j].type # "request"
  <2>0. line # <<>>
    BY <1>4
  <2> DEFINE s == session
             h == gateway.heard
  <2>1. /\ \A j \in DOMAIN line : line[j] \in Message
        /\ QueueInv(q, s, tracking)
        /\ Len(line) \in Nat \ {0} /\ Head(line) = line[1] /\ Len(q) = Len(line) - 1
        /\ \A j \in 1 .. Len(q) : q[j] = line[j + 1]
        /\ \A j \in DOMAIN line : j = 1 \/ (j - 1 \in 1 .. Len(q) /\ line[j] = q[j - 1])
        /\ DOMAIN line = 1 .. Len(line)
    BY <1>2, <1>4, <2>0
  <2>2. /\ Head(line).type = "request" => Waits(q, "request") \/ Head(line).value = s
        /\ Head(line).type # "request" => Waits(q, "request") \/ h = s
        /\ Head(line).type = "cancel" => h = Head(line).value
    BY <1>4, <2>0 DEF LineInv
  <2> HIDE DEF q, s, h
  <2>3. CASE i = 1
    <3>1. h = line[i].value /\ \A j \in 1 .. i - 1 : FALSE
      BY <1>4, <2>1, <2>2, <2>3
    <3> QED
      BY <3>1 DEF h
  <2>4. CASE i # 1
    <3>1. i - 1 \in 1 .. Len(q) /\ q[i - 1].type = "cancel" /\ line[i] = q[i - 1]
      BY <1>4, <2>1, <2>4
    <3>2. line[i].value = s
      BY <2>1, <3>1 DEF QueueInv
    <3>3. ASSUME NEW j \in 1 .. i - 1, line[j].type = "request", line[j].value = s
          PROVE  line[j] = [line[i] EXCEPT !.type = "request"]
      <4>0. \A n \in DOMAIN line : line[n] \in Message
        BY <2>1
      <4>d. DOMAIN line = 1 .. Len(line) /\ Len(line) \in Nat
        BY <2>1
      <4>j. j \in DOMAIN line
        BY <4>d
      <4>1. line[j] \in Message /\ line[i] \in Message
        BY <4>0, <4>j
      <4>2. \A m \in Message : m.type # "status" => m = [type |-> m.type, value |-> m.value]
        BY DEF Message
      <4>3. /\ line[j] = [type |-> "request", value |-> s]
            /\ line[i] = [type |-> "cancel", value |-> s]
        BY <1>4, <3>2, <3>3, <4>1, <4>2
      <4> QED
        BY <4>3
    <3>4. CASE Waits(q, "request")
      <4>1. PICK j \in 1 .. Len(q) : q[j].type = "request"
        BY <3>4 DEF Waits
      <4>2. j < i - 1 /\ q[j].value = s
        BY <2>1, <3>1, <4>1 DEF QueueInv
      <4>3. j + 1 \in 1 .. i - 1 /\ line[j + 1] = q[j]
        BY <2>1, <4>2
      <4> QED
        BY <3>3, <4>1, <4>2, <4>3
    <3>5. CASE ~Waits(q, "request") /\ Head(line).type = "request"
      <4>1. 1 \in 1 .. i - 1 /\ line[1].type = "request" /\ line[1].value = s
        BY <1>4, <2>1, <2>2, <2>4, <3>5
      <4> QED
        BY <3>3, <4>1
    <3>6. CASE ~Waits(q, "request") /\ Head(line).type # "request"
      <4>1. h = line[i].value
        BY <2>2, <3>2, <3>6
      <4>2. \A j \in DOMAIN line : line[j].type # "request"
        BY <2>1, <3>6 DEF Waits
      <4>3. \A j \in 1 .. i - 1 : j \in DOMAIN line
        BY <1>4, <2>1
      <4> QED
        BY <4>1, <4>2, <4>3 DEF h
    <3> QED
      BY <3>4, <3>5, <3>6
  <2> QED
    BY <2>3, <2>4
<1> QED
  BY <1>1, <1>3, <1>4 DEF SessionIsAnnounced, CancelFollowsRequest

\* Every session the manager believes to be open has been announced to the
\* gateway, or its request still waits.
THEOREM SessionsAreAnnounced == Spec => []SessionIsAnnounced
<1>1. AgpsInv => SessionIsAnnounced
  BY LineTells
<1> QED
  BY <1>1, AgpsInvariant, PTL

\* The cancel of a session does not come before its request, whatever is merged.
THEOREM CancelsComeAfter == Spec => []CancelFollowsRequest
<1>1. AgpsInv => CancelFollowsRequest
  BY LineTells
<1> QED
  BY <1>1, AgpsInvariant, PTL

\* The last advice on its way to the gateway is the tracking flag.
THEOREM StatusIsLatest == Spec => []StatusIsCurrent
<1>1. AgpsInv => StatusIsCurrent
  <2> SUFFICES ASSUME AgpsInv, NEW i \in DOMAIN line, line[i].type = "status",
                      line[i].value # tracking
               PROVE  \E j \in (i + 1)..Len(line) : line[j].type = "status"
    BY DEF StatusIsCurrent
  <2> DEFINE q == Tail(line)
  <2>1. LineInv(line, session, tracking, gateway.heard) /\ line # <<>>
    BY WorldFields DEF AgpsInv, Sound, Base, Announced
  <2>2. /\ QueueInv(q, session, tracking)
        /\ Len(line) \in Nat \ {0} /\ Head(line) = line[1] /\ Len(q) = Len(line) - 1
        /\ \A j \in 1 .. Len(q) : q[j] = line[j + 1]
        /\ \A j \in DOMAIN line : j = 1 \/ (j - 1 \in 1 .. Len(q) /\ line[j] = q[j - 1])
        /\ Head(line).type = "status" => Waits(q, "status") \/ Head(line).value = tracking
    BY <2>1, PlacesOfLine DEF LineInv
  <2> HIDE DEF q
  <2>3. i = 1
    BY <2>2 DEF QueueInv
  <2>4. PICK j \in 1 .. Len(q) : q[j].type = "status"
    BY <2>2, <2>3 DEF Waits
  <2>5. j + 1 \in 2 .. Len(line) /\ line[j + 1].type = "status"
    BY <2>2, <2>4
  <2> QED
    BY <2>3, <2>5
<1> QED
  BY <1>1, AgpsInvariant, PTL

\* A buffer is left for every message: RLbsNetMsgFifo::Write does not check
\* whether it has found an empty one.
QueueFits == line # <<>> => Len(Tail(line)) <= KNetworkGatewayHandlerQSize

\* Whatever is sent while the gateway does not read, the queue does not run
\* over: at most one message of each type waits.
THEOREM QueueNeverRunsOver == Spec => []QueueFits
<1>1. AgpsInv => QueueFits
  <2> SUFFICES ASSUME AgpsInv, line # <<>> PROVE Len(Tail(line)) <= 4
    BY DEF QueueFits, KNetworkGatewayHandlerQSize
  <2> DEFINE q == Tail(line)
             t(i) == q[i].type
  <2>1. LineInv(line, session, tracking, gateway.heard)
    BY WorldFields DEF AgpsInv, Sound, Base, Announced
  <2>2. q \in Seq(Message) /\ QueueInv(q, session, tracking)
    BY <2>1 DEF LineInv
  <2> HIDE DEF q
  <2>3. /\ \A i \in 1 .. Len(q) : t(i) \in {"request", "cancel", "assist", "status"}
        /\ \A i, j \in 1 .. Len(q) : t(i) = t(j) => i = j
        /\ Len(q) \in Nat
    BY <2>2 DEF QueueInv, Message
  <2> HIDE DEF t
  <2>4. Len(q) >= 5 => \A i \in 1 .. 5 : i \in 1 .. Len(q)
    BY <2>3
  <2>5. Len(q) >= 5 => FALSE
    <3>1. Len(q) >= 5 => \A i, j \in 1 .. 5 : t(i) = t(j) => i = j
      BY <2>3, <2>4
    <3>2. Len(q) >= 5 => \A i \in 1 .. 5 : t(i) \in {"request", "cancel", "assist", "status"}
      BY <2>3, <2>4
    <3>3. /\ 1 \in 1 .. 5 /\ 2 \in 1 .. 5 /\ 3 \in 1 .. 5 /\ 4 \in 1 .. 5 /\ 5 \in 1 .. 5
      OBVIOUS
    <3> QED
      BY <3>1, <3>2, <3>3
  <2> QED
    BY <2>3, <2>5 DEF q
<1> QED
  BY <1>1, AgpsInvariant, PTL

=============================================================================
