---------------------------- MODULE PrivLoc_proof ----------------------------
(***************************************************************************)
(* Theorems about the privacy and location handler, for any number of      *)
(* sessions of every type, any settings, device and profile.               *)
(*                                                                         *)
(* The calls of a step go from world to world, and so do the proofs.  What *)
(* they keep is in three parts: the buffer of privacy requests, one        *)
(* session at a time, and the combined request the sessions share.         *)
(***************************************************************************)
EXTENDS PrivLoc, AgpsRequests_proof, FiniteSetTheorems, WellFoundedInduction

\* There is one emergency at most.  With more, a session takes over the state
\* machine of another, and the response that was owed to that one.
OneEmergency == \A d, e \in Emergency : d = e

\* No session replaces another: a replaced one leaves its AGPS request.
NoneReplaced == \A s \in Session : Type[s] \notin {"SELF", "X3P"}

\* No session is denied a position while it waits for one for want of a profile,
\* except those that are then completed.
QualityKnown == Profile = "valid" \/ Session \subseteq External

-----------------------------------------------------------------------------
(***************************************************************************)
(* The buffer of privacy requests.                                         *)
(***************************************************************************)
RequestStates == {"new", "waiting", "responded", "completed"}

PrivacyRequest ==
    [session : Session, emergency : BOOLEAN, action : {"allow", "reject"},
     verify : BOOLEAN, state : RequestStates]

\* Requests are of external sessions; an emergency neither waits nor is kept
\* from the controller; and a request that waits is the first of its session
\* or will be rejected by the timer.
Entries(b) ==
    \A i \in 1..Len(b) :
        /\ b[i].session \in External
        /\ b[i].emergency <=> b[i].session \in Emergency
        /\ b[i].emergency => b[i].state \in {"new", "responded"}
        /\ b[i].state = "waiting" =>
              b[i].action = "reject" \/ \A j \in 1..i - 1 : b[j].session # b[i].session

\* Every session in P has a request that waits.
Covers(b, P) == \A s \in P : \E i \in 1..Len(b) : b[i].session = s /\ b[i].state = "waiting"

\* The first request of every session in K is one the controller is told the
\* end of.
Informed(b, K) ==
    \A s \in K : \E i \in 1..Len(b) :
        /\ b[i].session = s /\ b[i].state # "completed"
        /\ \A j \in 1..i - 1 : b[j].session # s

\* No session in U has a request, and only those in X have one that was
\* rejected without telling the controller.
Absent(b, U) == \A i \in 1..Len(b) : b[i].session \notin U
Silenced(b, X) == \A i \in 1..Len(b) : b[i].state = "completed" => b[i].session \in X

BufferOK(b, P, K, U, X) ==
    /\ b \in Seq(PrivacyRequest)
    /\ Entries(b)
    /\ Covers(b, P)
    /\ OneEmergency => Informed(b, K)
    /\ Absent(b, U)
    /\ Silenced(b, X)

\* The places of requests whose handler has not given them their state yet.
NewAt(b) == {i \in 1..Len(b) : b[i].state = "new"}

\* A set of numbers has a least one.
LEMMA MinGives ==
    ASSUME NEW S \in SUBSET Nat, S # {}
    PROVE  Min(S) \in S /\ \A y \in S : Min(S) <= y
<1>1. IsWellFoundedOn(OpToRel(<, Nat), Nat)
  BY NatLessThanWellFounded, Zenon
<1>2. \E x \in S : \A y \in S : ~(<<y, x>> \in OpToRel(<, Nat))
  BY <1>1, WFMin, Zenon
<1>3. PICK x \in S : \A y \in S : ~(<<y, x>> \in OpToRel(<, Nat))
  BY <1>2
<1>4. \A y \in S : ~(y < x)
  BY <1>3 DEF OpToRel
<1>5. \A y \in S : x =< y
  BY <1>4
<1>6. \E z \in S : \A y \in S : z =< y
  BY <1>5
<1>7. Min(S) \in S /\ \A y \in S : Min(S) =< y
  BY <1>6, Zenon DEF Min
<1> QED
  BY <1>7

\* FindPrivacyRequest finds the first request of the session.
LEMMA FindGives ==
    ASSUME NEW b \in Seq(PrivacyRequest), NEW s
    PROVE  \/ Find(b, s) = 0 /\ \A i \in 1..Len(b) : b[i].session # s
           \/ /\ Find(b, s) \in 1..Len(b) /\ b[Find(b, s)].session = s
              /\ \A j \in 1..Find(b, s) - 1 : b[j].session # s
<1> DEFINE I == {i \in 1..Len(b) : b[i].session = s}
<1>1. Find(b, s) = IF I # {} THEN Min(I) ELSE 0
  BY DEF Find, SelectInSeq
<1>2. I \in SUBSET Nat
  OBVIOUS
<1>3. CASE I = {}
  BY <1>1, <1>3
<1>4. CASE I # {}
  <2>1. Min(I) \in I /\ \A y \in I : Min(I) <= y
    BY <1>2, <1>4, MinGives
  <2>2. Find(b, s) = Min(I) /\ Min(I) \in 1..Len(b) /\ b[Min(I)].session = s
    BY <1>1, <1>4, <2>1
  <2>3. ASSUME NEW j \in 1..Min(I) - 1
        PROVE  b[j].session # s
    <3>1. j \in 1..Len(b) /\ j \notin I
      BY <2>1, <2>2
    <3> QED
      BY <3>1
  <2> HIDE DEF I
  <2> QED
    BY <2>2, <2>3
<1> QED
  BY <1>3, <1>4

\* The timer finds the first request that waits.
LEMMA WaitingGives ==
    ASSUME NEW b \in Seq(PrivacyRequest)
    PROVE  LET i == SelectInSeq(b, LAMBDA r : r.state = "waiting") IN
           \/ i = 0 /\ ~Waits(b)
           \/ i \in 1..Len(b) /\ b[i].state = "waiting"
<1> DEFINE I == {i \in 1..Len(b) : b[i].state = "waiting"}
           f == SelectInSeq(b, LAMBDA r : r.state = "waiting")
<1>1. f = IF I # {} THEN Min(I) ELSE 0
  BY DEF SelectInSeq
<1>2. I \in SUBSET Nat /\ DOMAIN b = 1..Len(b)
  OBVIOUS
<1>3. CASE I = {}
  BY <1>1, <1>2, <1>3 DEF Waits
<1>4. CASE I # {}
  BY <1>1, <1>2, <1>4, MinGives
<1> QED
  BY <1>3, <1>4

\* What a concatenation is made of.
LEMMA ConcatGives ==
    ASSUME NEW S, NEW a \in Seq(S), NEW b \in Seq(S)
    PROVE  /\ a \o b \in Seq(S) /\ Len(a \o b) = Len(a) + Len(b)
           /\ \A j \in 1 .. Len(a) + Len(b) :
                 (a \o b)[j] = IF j <= Len(a) THEN a[j] ELSE b[j - Len(a)]
OBVIOUS

\* RemoveAt moves what is behind the place forward.
LEMMA RemoveAtGives ==
    ASSUME NEW S, NEW q \in Seq(S), NEW i \in 1 .. Len(q)
    PROVE  /\ RemoveAt(q, i) \in Seq(S)
           /\ Len(RemoveAt(q, i)) = Len(q) - 1
           /\ \A j \in 1 .. Len(q) - 1 :
                 RemoveAt(q, i)[j] = IF j < i THEN q[j] ELSE q[j + 1]
<1> DEFINE a == SubSeq(q, 1, i - 1)
           b == SubSeq(q, i + 1, Len(q))
<1>1. a \in Seq(S) /\ Len(a) = i - 1 /\ \A j \in 1 .. i - 1 : a[j] = q[j]
  OBVIOUS
<1>2. b \in Seq(S) /\ Len(b) = Len(q) - i /\ \A j \in 1 .. Len(q) - i : b[j] = q[j + i]
  OBVIOUS
<1> HIDE DEF a, b
<1>3. /\ a \o b \in Seq(S) /\ Len(a \o b) = Len(a) + Len(b)
      /\ \A j \in 1 .. Len(a) + Len(b) :
            (a \o b)[j] = IF j <= Len(a) THEN a[j] ELSE b[j - Len(a)]
  BY <1>1, <1>2, ConcatGives
<1>4. RemoveAt(q, i) = a \o b
  BY DEF RemoveAt, a, b
<1>5. Len(a) + Len(b) = Len(q) - 1
  BY <1>1, <1>2
<1>6. ASSUME NEW j \in 1 .. Len(q) - 1
      PROVE  (a \o b)[j] = IF j < i THEN q[j] ELSE q[j + 1]
  <2>1. CASE j < i
    BY <1>1, <1>3, <1>5, <2>1
  <2>2. CASE ~(j < i)
    <3>1. j - (i - 1) \in 1 .. Len(q) - i /\ (j - (i - 1)) + i = j + 1
      BY <2>2
    <3>2. b[j - (i - 1)] = q[j + 1]
      BY <1>2, <3>1
    <3> QED
      BY <1>1, <1>3, <1>5, <2>2, <3>2
  <2> QED
    BY <2>1, <2>2
<1>7. \A j \in 1 .. Len(q) - 1 : (a \o b)[j] = IF j < i THEN q[j] ELSE q[j + 1]
  BY <1>6
<1>8. Len(a \o b) = Len(q) - 1 /\ a \o b \in Seq(S)
  BY <1>3, <1>5
<1> QED
  BY <1>4, <1>7, <1>8, Zenon

\* What is said of a buffer is said of less, too.
LEMMA BufferWeakens ==
    ASSUME NEW b, NEW P, NEW K, NEW U, NEW X, NEW P2, NEW K2, NEW U2, NEW X2,
           BufferOK(b, P, K, U, X),
           P2 \subseteq P, K2 \subseteq K, U2 \subseteq U, X \subseteq X2
    PROVE  BufferOK(b, P2, K2, U2, X2)
BY DEF BufferOK, Covers, Informed, Absent, Silenced

\* The request at n is one of s.
MayRemove(b, P, K, U, X, s, n) ==
    BufferOK(b, P, K, U, X) /\ n \in 1..Len(b) /\ b[n].session = s

\* c is b without its request at n, which was one of s.
Removed(c, b, P, K, U, X, s, n) ==
    /\ BufferOK(c, P \ {s}, K \ {s}, U, X)
    /\ Len(c) = Len(b) - 1
    /\ \A j \in 1..Len(b) - 1 : c[j] = IF j < n THEN b[j] ELSE b[j + 1]

\* A request of a session leaves: the others keep their order.
LEMMA RemoveKeeps ==
    ASSUME NEW b, NEW P, NEW K, NEW U, NEW X, NEW s, NEW n,
           MayRemove(b, P, K, U, X, s, n)
    PROVE  Removed(RemoveAt(b, n), b, P, K, U, X, s, n)
<1> USE DEF MayRemove, Removed
<1> DEFINE c == RemoveAt(b, n)
           At(j) == IF j < n THEN j ELSE j + 1
<1>0. b \in Seq(PrivacyRequest)
  BY DEF BufferOK
<1>1. /\ c \in Seq(PrivacyRequest) /\ Len(c) = Len(b) - 1 /\ Len(b) \in Nat
      /\ \A j \in 1..Len(b) - 1 : c[j] = IF j < n THEN b[j] ELSE b[j + 1]
  BY <1>0, RemoveAtGives
<1> HIDE DEF c
<1>2. /\ \A j \in 1..Len(c) : At(j) \in 1..Len(b) /\ At(j) # n /\ c[j] = b[At(j)]
      /\ \A i, j \in 1..Len(c) : At(i) < At(j) <=> i < j
  BY <1>1
<1>3. \A i \in 1..Len(b) : i # n => \E j \in 1..Len(c) : At(j) = i
  <2> TAKE i \in 1..Len(b)
  <2>1. CASE i < n
    <3>1. i \in 1..Len(c) /\ At(i) = i
      BY <1>1, <2>1
    <3> QED
      BY <3>1
  <2>2. CASE i > n
    <3>1. i - 1 \in 1..Len(c) /\ At(i - 1) = i
      BY <1>1, <2>2
    <3> QED
      BY <3>1
  <2> QED
    BY <2>1, <2>2
<1> HIDE DEF At
<1>4. Entries(c)
  <2> SUFFICES ASSUME NEW i \in 1..Len(c)
               PROVE  /\ c[i].session \in External
                      /\ c[i].emergency <=> c[i].session \in Emergency
                      /\ c[i].emergency => c[i].state \in {"new", "responded"}
                      /\ c[i].state = "waiting" =>
                            c[i].action = "reject" \/ \A j \in 1..i - 1 : c[j].session # c[i].session
    BY DEF Entries
  <2>1. /\ b[At(i)].session \in External
        /\ b[At(i)].emergency <=> b[At(i)].session \in Emergency
        /\ b[At(i)].emergency => b[At(i)].state \in {"new", "responded"}
        /\ b[At(i)].state = "waiting" =>
              b[At(i)].action = "reject" \/ \A j \in 1..At(i) - 1 : b[j].session # b[At(i)].session
    BY <1>2 DEF BufferOK, Entries
  <2>2. ASSUME \A j \in 1..At(i) - 1 : b[j].session # b[At(i)].session
        PROVE  \A j \in 1..i - 1 : c[j].session # c[i].session
    <3> TAKE j \in 1..i - 1
    <3>1. j \in 1..Len(c) /\ j < i
      BY <1>1
    <3>2. At(j) < At(i) /\ At(j) \in 1..Len(b) /\ At(i) \in 1..Len(b)
      BY <1>2, <3>1
    <3>3. At(j) \in 1..At(i) - 1
      BY <3>2
    <3> QED
      BY <1>2, <2>2, <3>1, <3>3
  <2> QED
    BY <1>2, <2>1, <2>2
<1>5. Covers(c, P \ {s})
  <2> SUFFICES ASSUME NEW t \in P, t # s
               PROVE  \E i \in 1..Len(c) : c[i].session = t /\ c[i].state = "waiting"
    BY DEF Covers
  <2>1. PICK i \in 1..Len(b) : b[i].session = t /\ b[i].state = "waiting"
    BY DEF BufferOK, Covers
  <2>2. PICK j \in 1..Len(c) : At(j) = i
    BY <1>3, <2>1
  <2> QED
    BY <1>2, <2>1, <2>2
<1>6. ASSUME OneEmergency
      PROVE  Informed(c, K \ {s})
  <2> SUFFICES ASSUME NEW t \in K, t # s
               PROVE  \E i \in 1..Len(c) :
                        /\ c[i].session = t /\ c[i].state # "completed"
                        /\ \A j \in 1..i - 1 : c[j].session # t
    BY DEF Informed
  <2>1. PICK i \in 1..Len(b) : /\ b[i].session = t /\ b[i].state # "completed"
                               /\ \A j \in 1..i - 1 : b[j].session # t
    BY <1>6 DEF BufferOK, Informed
  <2>2. PICK j \in 1..Len(c) : At(j) = i
    BY <1>3, <2>1
  <2>3. ASSUME NEW k \in 1..j - 1
        PROVE  c[k].session # t
    <3>1. k \in 1..Len(c) /\ k < j
      BY <1>1
    <3>2. At(k) < i /\ At(k) \in 1..Len(b)
      BY <1>2, <2>2, <3>1
    <3>3. At(k) \in 1..i - 1
      BY <3>2
    <3> QED
      BY <1>2, <2>1, <3>1, <3>3
  <2> QED
    BY <1>2, <2>1, <2>2, <2>3
<1>7. Absent(c, U) /\ Silenced(c, X)
  BY <1>2 DEF BufferOK, Absent, Silenced
<1>8. BufferOK(c, P \ {s}, K \ {s}, U, X)
  BY <1>1, <1>4, <1>5, <1>6, <1>7 DEF BufferOK
<1> QED
  BY <1>1, <1>8 DEF c

Marked(b, J, state) ==
    [j \in DOMAIN b |-> IF j \in J THEN [b[j] EXCEPT !.state = state] ELSE b[j]]

MayMark(b, K, X, J, S, state) ==
    /\ state \in {"responded", "completed"}
    /\ \A j \in J : j \in 1..Len(b) => b[j].session \in S
    /\ state = "completed" => \A j \in J : j \in 1..Len(b) =>
          /\ b[j].session \in X \ Emergency
          /\ OneEmergency /\ b[j].session \in K =>
                \E k \in 1..j - 1 : b[k].session = b[j].session

\* What is new and what waits among requests when some get their state.
LEMMA MarkGives ==
    ASSUME NEW b \in Seq(PrivacyRequest), NEW J, NEW state \in {"responded", "completed"}
    PROVE  LET c == Marked(b, J, state) IN
           /\ c \in Seq(PrivacyRequest) /\ Len(c) = Len(b)
           /\ NewAt(c) = NewAt(b) \ J
           /\ \A i \in 1..Len(b) : c[i].state = "waiting" <=> b[i].state = "waiting" /\ i \notin J
           /\ \A i \in 1..Len(b) :
                 /\ c[i].session = b[i].session /\ c[i].emergency = b[i].emergency
                 /\ c[i].action = b[i].action
                 /\ c[i].state = IF i \in J THEN state ELSE b[i].state
<1> DEFINE c == Marked(b, J, state)
<1>1. DOMAIN b = 1..Len(b) /\ Len(b) \in Nat
  OBVIOUS
<1>2. \A i \in 1..Len(b) : b[i] \in PrivacyRequest
  BY <1>1
<1>3. \A i \in 1..Len(b) :
        /\ c[i] \in PrivacyRequest
        /\ c[i].session = b[i].session /\ c[i].emergency = b[i].emergency
        /\ c[i].action = b[i].action
        /\ c[i].state = IF i \in J THEN state ELSE b[i].state
  BY <1>1, <1>2 DEF PrivacyRequest, RequestStates, Marked
<1>4. c \in [1..Len(b) -> PrivacyRequest]
  BY <1>1, <1>3 DEF Marked
<1>5. c \in Seq(PrivacyRequest) /\ Len(c) = Len(b)
  BY <1>1, <1>4
<1> HIDE DEF c
<1>6. NewAt(c) = NewAt(b) \ J
  BY <1>3, <1>5 DEF NewAt
<1>7. \A i \in 1..Len(b) : c[i].state = "waiting" <=> b[i].state = "waiting" /\ i \notin J
  BY <1>3
<1> QED
  BY <1>3, <1>5, <1>6, <1>7 DEF c

\* Requests at the places J get their state; "completed" only behind one of
\* the session, if the controller knows it.
LEMMA MarkKeeps ==
    ASSUME NEW b, NEW P, NEW K, NEW U, NEW X, BufferOK(b, P, K, U, X),
           NEW J, NEW S, NEW state, MayMark(b, K, X, J, S, state)
    PROVE  BufferOK(Marked(b, J, state), P \ S, K, U, X)
<1> DEFINE c == Marked(b, J, state)
<1>0. /\ state \in {"responded", "completed"}
      /\ \A j \in J : j \in 1..Len(b) => b[j].session \in S
      /\ state = "completed" => \A j \in J : j \in 1..Len(b) =>
            /\ b[j].session \in X \ Emergency
            /\ OneEmergency /\ b[j].session \in K =>
                  \E k \in 1..j - 1 : b[k].session = b[j].session
  BY DEF MayMark
<1>1. b \in Seq(PrivacyRequest) /\ DOMAIN b = 1..Len(b) /\ Len(b) \in Nat
  BY DEF BufferOK
<1>3. \A i \in 1..Len(b) :
        /\ c[i].session = b[i].session /\ c[i].emergency = b[i].emergency
        /\ c[i].action = b[i].action
        /\ c[i].state = IF i \in J THEN state ELSE b[i].state
  BY <1>0, <1>1, MarkGives
<1>5. c \in Seq(PrivacyRequest) /\ Len(c) = Len(b)
  BY <1>0, <1>1, MarkGives
<1> HIDE DEF c
<1>6. Entries(c)
  BY <1>0, <1>1, <1>3, <1>5 DEF BufferOK, Entries
<1>7. Covers(c, P \ S)
  BY <1>0, <1>3, <1>5 DEF BufferOK, Covers
<1>8. ASSUME OneEmergency
      PROVE  Informed(c, K)
  <2> SUFFICES ASSUME NEW t \in K
               PROVE  \E i \in 1..Len(c) :
                        /\ c[i].session = t /\ c[i].state # "completed"
                        /\ \A j \in 1..i - 1 : c[j].session # t
    BY DEF Informed
  <2>1. PICK i \in 1..Len(b) : /\ b[i].session = t /\ b[i].state # "completed"
                               /\ \A j \in 1..i - 1 : b[j].session # t
    BY <1>8 DEF BufferOK, Informed
  <2>2. c[i].state # "completed"
    BY <1>0, <1>3, <1>8, <2>1
  <2>3. \A j \in 1..i - 1 : j \in 1..Len(b)
    BY <1>1
  <2> QED
    BY <1>3, <1>5, <2>1, <2>2, <2>3
<1>9. Absent(c, U) /\ Silenced(c, X)
  BY <1>0, <1>3, <1>5 DEF BufferOK, Absent, Silenced
<1> QED
  BY <1>5, <1>6, <1>7, <1>8, <1>9 DEF BufferOK, c

\* A request that may join: none of its session was silenced, and it is the first
\* or one the timer rejects if it waits.
MayJoin(b, U, X, r) ==
    /\ r.session \in External /\ r.session \notin U \union X
    /\ r.emergency <=> r.session \in Emergency
    /\ r.state \in {"new", "waiting"}
    /\ r.state = "waiting" =>
          /\ ~r.emergency
          /\ r.action = "reject" \/ \A j \in 1..Len(b) : b[j].session # r.session

\* A request of a session none of whose requests was silenced joins the others.
LEMMA JoinKeeps ==
    ASSUME NEW b, NEW P, NEW K, NEW U, NEW X, BufferOK(b, P, K, U, X),
           NEW r \in PrivacyRequest, MayJoin(b, U, X, r)
    PROVE  LET c == Append(b, r) IN
           /\ BufferOK(c, P, K \union {r.session}, U, X)
           /\ r.state = "waiting" => BufferOK(c, P \union {r.session}, K \union {r.session}, U, X)
           /\ Len(c) = Len(b) + 1 /\ c[Len(c)] = r
           /\ \A i \in 1..Len(b) : c[i] = b[i]
<1> USE DEF MayJoin
<1> DEFINE c == Append(b, r)
<1>1. b \in Seq(PrivacyRequest) /\ Len(b) \in Nat
  BY DEF BufferOK
<1>2. /\ c \in Seq(PrivacyRequest) /\ Len(c) = Len(b) + 1 /\ c[Len(b) + 1] = r
      /\ \A i \in 1..Len(b) : c[i] = b[i]
  BY <1>1
<1> HIDE DEF c
<1>3. \A i \in 1..Len(c) : i = Len(b) + 1 \/ i \in 1..Len(b)
  BY <1>1, <1>2
<1>4. Entries(c)
  <2> SUFFICES ASSUME NEW i \in 1..Len(c)
               PROVE  /\ c[i].session \in External
                      /\ c[i].emergency <=> c[i].session \in Emergency
                      /\ c[i].emergency => c[i].state \in {"new", "responded"}
                      /\ c[i].state = "waiting" =>
                            c[i].action = "reject" \/ \A j \in 1..i - 1 : c[j].session # c[i].session
    BY DEF Entries
  <2>1. CASE i = Len(b) + 1
    <3>1. c[i] = r /\ \A j \in 1..i - 1 : j \in 1..Len(b) /\ c[j] = b[j]
      BY <1>1, <1>2, <2>1
    <3> QED
      BY <3>1
  <2>2. CASE i \in 1..Len(b)
    <3>1. c[i] = b[i] /\ \A j \in 1..i - 1 : j \in 1..Len(b) /\ c[j] = b[j]
      BY <1>1, <1>2, <2>2
    <3> QED
      BY <3>1, <2>2 DEF BufferOK, Entries
  <2> QED
    BY <1>3, <2>1, <2>2
<1>5. Covers(c, P) /\ (r.state = "waiting" => Covers(c, P \union {r.session}))
  <2>1. \A i \in 1..Len(b) : i \in 1..Len(c)
    BY <1>1, <1>2
  <2>2. Len(b) + 1 \in 1..Len(c)
    BY <1>1, <1>2
  <2> QED
    BY <1>2, <2>1, <2>2 DEF BufferOK, Covers
<1>6. ASSUME OneEmergency
      PROVE  Informed(c, K \union {r.session})
  <2> SUFFICES ASSUME NEW t \in K \union {r.session}
               PROVE  \E i \in 1..Len(c) :
                        /\ c[i].session = t /\ c[i].state # "completed"
                        /\ \A j \in 1..i - 1 : c[j].session # t
    BY DEF Informed
  <2>1. CASE \E i \in 1..Len(b) : b[i].session = t
    <3>1. PICK i \in 1..Len(b) : /\ b[i].session = t /\ b[i].state # "completed"
                                 /\ \A j \in 1..i - 1 : b[j].session # t
      <4>1. CASE t \in K
        BY <1>6, <4>1 DEF BufferOK, Informed
      <4>2. CASE t = r.session
        <5>1. Find(b, t) \in 1..Len(b) /\ b[Find(b, t)].session = t
              /\ \A j \in 1..Find(b, t) - 1 : b[j].session # t
          BY <1>1, <2>1, FindGives
        <5>2. b[Find(b, t)].state # "completed"
          BY <5>1, <4>2 DEF BufferOK, Silenced
        <5> QED
          BY <5>1, <5>2
      <4> QED
        BY <4>1, <4>2
    <3>2. i \in 1..Len(c) /\ \A j \in 1..i - 1 : j \in 1..Len(b)
      BY <1>1, <1>2
    <3> QED
      BY <1>2, <3>1, <3>2
  <2>2. CASE ~ \E i \in 1..Len(b) : b[i].session = t
    <3>1. t = r.session
      BY <1>6, <2>2 DEF BufferOK, Informed
    <3>2. Len(b) + 1 \in 1..Len(c) /\ \A j \in 1..Len(b) + 1 - 1 : j \in 1..Len(b) /\ c[j] = b[j]
      BY <1>1, <1>2
    <3>3. c[Len(b) + 1].session = t /\ c[Len(b) + 1].state # "completed"
      BY <1>2, <3>1
    <3> QED
      BY <2>2, <3>2, <3>3
  <2> QED
    BY <2>1, <2>2
<1>7. Absent(c, U) /\ Silenced(c, X)
  BY <1>2, <1>3 DEF BufferOK, Absent, Silenced
<1> QED
  BY <1>2, <1>4, <1>5, <1>6, <1>7 DEF BufferOK, c

\* All emergencies share one request, and its latest user's is what they have.
LEMMA ShareKeeps ==
    ASSUME NEW b, NEW P, NEW K, NEW U, NEW X, BufferOK(b, P, K, U, X),
           P \intersect Emergency = {}, U \intersect Emergency = {},
           NEW r \in PrivacyRequest, r.session \in External \intersect Emergency,
           r.emergency, r.state = "new"
    PROVE  LET c == [i \in DOMAIN b |-> IF b[i].emergency THEN r ELSE b[i]] IN
           /\ BufferOK(c, P, K, U, X)
           /\ Len(c) = Len(b)
           /\ \A i \in 1..Len(b) : c[i] = b[i] \/ (c[i].emergency /\ b[i].emergency)
           /\ \A i \in 1..Len(b) : c[i].state = "waiting" <=> b[i].state = "waiting"
<1> DEFINE c == [i \in DOMAIN b |-> IF b[i].emergency THEN r ELSE b[i]]
<1>1. b \in Seq(PrivacyRequest) /\ DOMAIN b = 1..Len(b) /\ Len(b) \in Nat
  BY DEF BufferOK
<1>2. \A i \in 1..Len(b) : c[i] = IF b[i].emergency THEN r ELSE b[i]
  BY <1>1
<1>3. c \in [1..Len(b) -> PrivacyRequest]
  <2>1. \A i \in 1..Len(b) : b[i] \in PrivacyRequest
    BY <1>1
  <2> QED
    BY <1>1, <2>1
<1>4. c \in Seq(PrivacyRequest) /\ Len(c) = Len(b)
  BY <1>1, <1>3
<1> HIDE DEF c
<1>5. \A i \in 1..Len(b) : b[i].emergency =>
        b[i].session \in Emergency /\ b[i].state \in {"new", "responded"}
  BY DEF BufferOK, Entries
<1>6. \A i \in 1..Len(b) : b[i].session \in Emergency => b[i].emergency
  BY DEF BufferOK, Entries
<1>7. Entries(c)
  <2> SUFFICES ASSUME NEW i \in 1..Len(c)
               PROVE  /\ c[i].session \in External
                      /\ c[i].emergency <=> c[i].session \in Emergency
                      /\ c[i].emergency => c[i].state \in {"new", "responded"}
                      /\ c[i].state = "waiting" =>
                            c[i].action = "reject" \/ \A j \in 1..i - 1 : c[j].session # c[i].session
    BY DEF Entries
  <2>1. CASE b[i].emergency
    BY <1>2, <1>4, <2>1
  <2>2. CASE ~b[i].emergency
    <3>1. c[i] = b[i] /\ b[i].session \notin Emergency
      BY <1>2, <1>4, <1>6, <2>2
    <3>2. ASSUME NEW j \in 1..i - 1, b[j].session # b[i].session
          PROVE  c[j].session # c[i].session
      <4>1. j \in 1..Len(b)
        BY <1>1, <1>4
      <4> QED
        BY <1>2, <3>1, <3>2, <4>1
    <3> QED
      BY <1>4, <3>1, <3>2 DEF BufferOK, Entries
  <2> QED
    BY <2>1, <2>2
<1>8. Covers(c, P)
  <2> SUFFICES ASSUME NEW t \in P
               PROVE  \E i \in 1..Len(c) : c[i].session = t /\ c[i].state = "waiting"
    BY DEF Covers
  <2>1. PICK i \in 1..Len(b) : b[i].session = t /\ b[i].state = "waiting"
    BY DEF BufferOK, Covers
  <2>2. ~b[i].emergency
    BY <1>5, <2>1
  <2> QED
    BY <1>2, <1>4, <2>1, <2>2
<1>9. ASSUME OneEmergency
      PROVE  Informed(c, K)
  <2>1. \A i \in 1..Len(b) : b[i].emergency => r.session = b[i].session
    BY <1>5, <1>9, AgpsAssumption DEF OneEmergency
  <2>2. \A i \in 1..Len(b) : /\ c[i].session = b[i].session
                             /\ b[i].state # "completed" => c[i].state # "completed"
    BY <1>2, <2>1
  <2> SUFFICES ASSUME NEW t \in K
               PROVE  \E i \in 1..Len(c) :
                        /\ c[i].session = t /\ c[i].state # "completed"
                        /\ \A j \in 1..i - 1 : c[j].session # t
    BY DEF Informed
  <2>3. PICK i \in 1..Len(b) : /\ b[i].session = t /\ b[i].state # "completed"
                               /\ \A j \in 1..i - 1 : b[j].session # t
    BY <1>9 DEF BufferOK, Informed
  <2>4. \A j \in 1..i - 1 : j \in 1..Len(b)
    BY <1>1
  <2> QED
    BY <1>4, <2>2, <2>3, <2>4
<1>10. Absent(c, U) /\ Silenced(c, X)
  BY <1>2, <1>4 DEF BufferOK, Absent, Silenced
<1>11. \A i \in 1..Len(b) : c[i] = b[i] \/ (c[i].emergency /\ b[i].emergency)
  BY <1>2
<1>12. \A i \in 1..Len(b) : c[i].state = "waiting" <=> b[i].state = "waiting"
  BY <1>2, <1>5
<1>13. BufferOK(c, P, K, U, X)
  BY <1>4, <1>7, <1>8, <1>9, <1>10 DEF BufferOK
<1> QED
  BY <1>4, <1>11, <1>12, <1>13 DEF c

-----------------------------------------------------------------------------
(***************************************************************************)
(* Worlds.                                                                 *)
(***************************************************************************)
Fsms ==
    [state : FsmState, silent : BOOLEAN, locReq : BOOLEAN, exited : BOOLEAN,
     fix : BOOLEAN, meas : BOOLEAN, cancelled : BOOLEAN, counted : BOOLEAN,
     tap : BOOLEAN, method : Mode, complete : BOOLEAN]

Place == {"position", "measurement", "qualityLoss"}
Responses == Place \union {"error", "denied", "refused", "cancelled", "idleCancelled", "reference"}

Worlds ==
    [fsm : [Session -> Fsms], spare : Fsms,
     latest : [{"SELF", "X3P"} -> Session \union {NoSession}], agps : AgpsState,
     buf : Seq(PrivacyRequest), timer : BOOLEAN, alwaysVerify : BOOLEAN,
     server : BOOLEAN, counter : Nat, sent : SUBSET (Session \X Responses),
     owed : [Session -> Int], asked : [Session -> Int],
     granted : SUBSET Session, known : SUBSET Session, trusted : SUBSET Session]

Lives(w, s) == w.fsm[s].state # "none"

\* What is true of one session: the place it is at is told only if it was
\* accepted; it waits for a position with a request; the responses it will get
\* are owed; what is left of it goes with its state machine.
Consented(w, s) ==
    s \in External \ Emergency =>
        /\ w.fsm[s].state = "waitLocUpdate" => s \in w.granted
        /\ w.fsm[s].state = "waitLocReq" /\ ~w.fsm[s].cancelled => s \in w.granted
        /\ \A what \in Place : <<s, what>> \in w.sent => s \in w.granted

Replied(w, s) ==
    OneEmergency =>
        /\ w.owed[s] >= 0
        /\ w.fsm[s].state = "waitLocUpdate" => w.owed[s] > 0
        /\ w.fsm[s].state = "waitPriv" /\ w.fsm[s].locReq => w.owed[s] > 0
        /\ w.fsm[s].state = "waitPriv" /\ Type[s] = "NI" => w.fsm[s].locReq
        /\ Type[s] = "MT" => w.asked[s] >= 0
        /\ Type[s] = "MT" /\ w.fsm[s].state = "waitPriv" => w.asked[s] > 0

Tidied(w, s) ==
    OneEmergency =>
        /\ w.fsm[s].counted => w.fsm[s].exited
        /\ NoneReplaced /\ w.agps.req[s] # "none" => Lives(w, s)
        /\ NoneReplaced /\ QualityKnown /\ w.agps.req[s] = "active" =>
              w.fsm[s].state = "waitLocUpdate"

Local(w, s) ==
    /\ Consented(w, s)
    /\ w.fsm[s].state = "waitLocUpdate" =>
          w.agps.req[s] = "active" /\ w.agps.method[s] \in GpsMode
    /\ Replied(w, s)
    /\ Tidied(w, s)
    /\ w.fsm[s].counted => s \in External /\ Lives(w, s)
    /\ w.fsm[s].state = "waitPriv" => s \in External /\ ~w.fsm[s].exited
    /\ s \in Emergency /\ Device \in {"either", "both"} => <<s, "refused">> \notin w.sent

\* What sessions share.  D is the set of emergencies that have asked for a
\* position.
Counted(w) == {s \in Session : w.fsm[s].counted}

Shared(w, D) ==
    /\ w.spare.state = "idle" /\ ~w.spare.counted
    /\ \A d, e \in Emergency : Lives(w, d) /\ Lives(w, e) => d = e
    /\ \A t \in {"SELF", "X3P"} : w.latest[t] # NoSession => Type[w.latest[t]] = t
    /\ \A s \in Session : w.agps.req[s] = "active" => w.agps.running
    /\ OneEmergency /\ LocationManagement => w.counter = Cardinality(Counted(w))
    /\ OneEmergency /\ NoneReplaced /\ (\A s \in Session : ~Lives(w, s)) => ~w.agps.running
    /\ \A s \in Session :
          w.fsm[s].state = "waitLocUpdate" /\ (D \subseteq {s} \/ s \in Emergency)
              => Serves(w.agps.mode, w.agps.method[s])

\* n is what the network has done with each session: one it has not used has
\* no state machine.
Base(w, D, n) ==
    /\ w \in Worlds
    /\ \A s \in Session : Local(w, s)
    /\ Shared(w, D)
    /\ \A s \in Session : n[s] = "unused" => ~Lives(w, s)

\* The sessions that may still get a new state machine, and those that will
\* ask for privacy no more.
Later(w, n) == {s \in Session \ Emergency : n[s] # "closed" /\ ~Lives(w, s)}
Quiet(w) == {s \in Session \ Emergency : w.fsm[s].exited \/ ~Lives(w, s)}

Privacy(w, P, n) ==
    /\ BufferOK(w.buf, P, w.known, Later(w, n), Quiet(w))
    /\ OneEmergency => \A s \in w.known : Lives(w, s)

WaitsForPrivacy(w) == {s \in Session : w.fsm[s].state = "waitPriv"}
TimerOK(w) == w.timer <=> Waits(w.buf)

\* A world between two events.
Sound(w, D, n) ==
    /\ Base(w, D, n)
    /\ Privacy(w, WaitsForPrivacy(w), n)
    /\ NewAt(w.buf) = {}
    /\ TimerOK(w)
    /\ WaitsForPrivacy(w) \intersect Emergency = {}

-----------------------------------------------------------------------------
(***************************************************************************)
(* Calls on one session.                                                   *)
(***************************************************************************)

\* v differs from w only in what is of the sessions in S, or of nobody.
Touches(v, w, S) ==
    \A t \in Session \ S :
        /\ v.fsm[t] = w.fsm[t]
        /\ v.agps.req[t] = w.agps.req[t] /\ v.agps.method[t] = w.agps.method[t]
        /\ v.owed[t] = w.owed[t] /\ v.asked[t] = w.asked[t]
        /\ t \in v.granted <=> t \in w.granted
        /\ \A what \in Responses : <<t, what>> \in v.sent <=> <<t, what>> \in w.sent

\* What a call leaves alone, what it does not touch it keeps.
LEMMA TouchesKeeps ==
    ASSUME NEW v, NEW w, NEW S, Touches(v, w, S), NEW t \in Session \ S, Local(w, t)
    PROVE  Local(v, t)
<1>1. /\ v.fsm[t] = w.fsm[t]
      /\ v.agps.req[t] = w.agps.req[t] /\ v.agps.method[t] = w.agps.method[t]
      /\ v.owed[t] = w.owed[t] /\ v.asked[t] = w.asked[t]
      /\ t \in v.granted <=> t \in w.granted
      /\ \A what \in Responses : <<t, what>> \in v.sent <=> <<t, what>> \in w.sent
  BY DEF Touches
<1>2. Place \subseteq Responses /\ "refused" \in Responses
  BY DEF Place, Responses
<1>3. Consented(v, t)
  BY <1>1, <1>2 DEF Local, Consented
<1>4. Replied(v, t) /\ Tidied(v, t)
  BY <1>1 DEF Local, Replied, Tidied, Lives
<1> QED
  BY <1>1, <1>2, <1>3, <1>4 DEF Local, Lives

\* The calls of the privacy handler on its buffer.
SameBuf(v, w) == v.buf = w.buf /\ v.timer = w.timer /\ v.known = w.known

Drops(v, w, s) ==
    LET i == Find(w.buf, s) IN
    \/ i = 0 /\ SameBuf(v, w)
    \/ /\ i # 0
       /\ v.buf = RemoveAt(w.buf, i)
       /\ v.known = IF w.buf[i].state = "completed" THEN w.known ELSE w.known \ {s}
       /\ v.timer = Waits(v.buf)

\* ProcessRequestComplete drops the first request of the session.
LEMMA CompleteGives ==
    ASSUME NEW w \in Worlds, NEW s \in Session
    PROVE  LET v == ProcessRequestComplete(w, s) IN
           /\ v \in Worlds
           /\ Drops(v, w, s)
           /\ v.fsm = w.fsm /\ v.spare = w.spare /\ v.latest = w.latest /\ v.agps = w.agps
           /\ v.alwaysVerify = w.alwaysVerify /\ v.server = w.server
           /\ v.counter = w.counter /\ v.sent = w.sent /\ v.owed = w.owed
           /\ v.asked = w.asked /\ v.granted = w.granted /\ v.trusted = w.trusted
<1> DEFINE i == Find(w.buf, s)
           v == ProcessRequestComplete(w, s)
<1>1. w.buf \in Seq(PrivacyRequest)
  BY DEF Worlds
<1>2. CASE i = 0
  <2>1. v = w
    BY <1>2 DEF ProcessRequestComplete
  <2> QED
    BY <1>2, <2>1 DEF Drops, SameBuf
<1>3. CASE i # 0
  <2> DEFINE b == RemoveAt(w.buf, i)
             k == IF w.buf[i].state = "completed" THEN w.known ELSE w.known \ {s}
  <2>1. i \in 1..Len(w.buf)
    BY <1>1, <1>3, FindGives
  <2>2. b \in Seq(PrivacyRequest)
    BY <1>1, <2>1, RemoveAtGives
  <2>3. k \in SUBSET Session /\ Waits(b) \in BOOLEAN
    BY DEF Worlds, Waits
  <2>4. v = [[w EXCEPT !.buf = b, !.known = k] EXCEPT
               !.timer = Waits([w EXCEPT !.buf = b, !.known = k].buf)]
    BY <1>3 DEF ProcessRequestComplete, RestartTimer
  <2> HIDE DEF b, k, i
  <2>5. [w EXCEPT !.buf = b, !.known = k].buf = b
    BY DEF Worlds
  <2>6. v = [w EXCEPT !.buf = b, !.known = k, !.timer = Waits(b)]
    BY <2>4, <2>5
  <2> DEFINE t == Waits(b)
  <2>7. t \in BOOLEAN
    BY <2>3
  <2> HIDE DEF v, t
  <2>8. v = [w EXCEPT !.buf = b, !.known = k, !.timer = t]
    BY <2>6 DEF t
  <2>9. /\ v \in Worlds /\ v.buf = b /\ v.known = k /\ v.timer = t
        /\ v.fsm = w.fsm /\ v.spare = w.spare /\ v.latest = w.latest /\ v.agps = w.agps
        /\ v.alwaysVerify = w.alwaysVerify /\ v.server = w.server
        /\ v.counter = w.counter /\ v.sent = w.sent /\ v.owed = w.owed
        /\ v.asked = w.asked /\ v.granted = w.granted /\ v.trusted = w.trusted
    BY <2>2, <2>3, <2>7, <2>8 DEF Worlds
  <2>10. Drops(v, w, s)
    BY <1>3, <2>9 DEF Drops, b, k, i, t
  <2> QED
    BY <2>9, <2>10 DEF v
<1> QED
  BY <1>2, <1>3

\* What the buffer and the controller's view are after a drop.
LEMMA DropsKeeps ==
    ASSUME NEW v, NEW w, NEW s, NEW P, NEW U, NEW X,
           BufferOK(w.buf, P, w.known, U, X), Drops(v, w, s)
    PROVE  /\ BufferOK(v.buf, P \ {s}, v.known, U, X)
           /\ v.known \subseteq w.known
           /\ OneEmergency => s \notin v.known
           /\ NewAt(w.buf) = {} => NewAt(v.buf) = {}
           /\ TimerOK(w) => TimerOK(v)
<1> DEFINE i == Find(w.buf, s)
<1>1. w.buf \in Seq(PrivacyRequest)
  BY DEF BufferOK
<1>2. CASE i = 0
  <2>1. SameBuf(v, w)
    BY <1>2 DEF Drops
  <2>2. \A j \in 1..Len(w.buf) : w.buf[j].session # s
    BY <1>1, <1>2, FindGives
  <2>3. OneEmergency => s \notin w.known
    BY <2>2 DEF BufferOK, Informed
  <2>4. BufferOK(w.buf, P \ {s}, w.known, U, X)
    BY BufferWeakens
  <2> QED
    BY <2>1, <2>3, <2>4 DEF SameBuf, TimerOK
<1>3. CASE i # 0
  <2>1. /\ i \in 1..Len(w.buf) /\ w.buf[i].session = s
        /\ \A j \in 1..i - 1 : w.buf[j].session # s
    BY <1>1, <1>3, FindGives
  <2>2. /\ v.buf = RemoveAt(w.buf, i)
        /\ v.known = IF w.buf[i].state = "completed" THEN w.known ELSE w.known \ {s}
        /\ v.timer = Waits(v.buf)
    BY <1>3 DEF Drops
  <2> HIDE DEF i
  <2>3. /\ BufferOK(v.buf, P \ {s}, w.known \ {s}, U, X)
        /\ Len(v.buf) = Len(w.buf) - 1
        /\ \A j \in 1..Len(w.buf) - 1 : v.buf[j] = IF j < i THEN w.buf[j] ELSE w.buf[j + 1]
    <3>1. MayRemove(w.buf, P, w.known, U, X, s, i)
      BY <2>1 DEF MayRemove
    <3>2. Removed(RemoveAt(w.buf, i), w.buf, P, w.known, U, X, s, i)
      BY ONLY <3>1, RemoveKeeps
    <3>3. Removed(v.buf, w.buf, P, w.known, U, X, s, i)
      BY ONLY <2>2, <3>2
    <3> QED
      BY ONLY <3>3 DEF Removed
  <2>4. ASSUME OneEmergency, s \in w.known
        PROVE  w.buf[i].state # "completed"
    <3>1. PICK k \in 1..Len(w.buf) : /\ w.buf[k].session = s /\ w.buf[k].state # "completed"
                                     /\ \A j \in 1..k - 1 : w.buf[j].session # s
      BY <2>4 DEF BufferOK, Informed
    <3>2. ~(i < k) /\ ~(k < i)
      BY <2>1, <3>1
    <3>3. i = k
      BY <2>1, <3>1, <3>2
    <3> QED
      BY <3>1, <3>3
  <2>5. v.known \subseteq w.known /\ (OneEmergency => s \notin v.known)
    BY <2>2, <2>4
  <2>6. BufferOK(v.buf, P \ {s}, v.known, U, X)
    <3>1. OneEmergency => v.known = w.known \ {s}
      BY <2>2, <2>4
    <3> QED
      BY <2>3, <3>1 DEF BufferOK
  <2>7. ASSUME NewAt(w.buf) = {}
        PROVE  NewAt(v.buf) = {}
    <3>1. \A j \in 1..Len(w.buf) : w.buf[j].state # "new"
      BY <2>7 DEF NewAt
    <3>2. Len(w.buf) \in Nat
      BY <1>1
    <3>3. ASSUME NEW j \in 1..Len(v.buf)
          PROVE  v.buf[j].state # "new"
      <4>1. j \in 1..Len(w.buf) - 1 /\ j \in 1..Len(w.buf) /\ j + 1 \in 1..Len(w.buf)
        BY <2>3, <3>2
      <4> QED
        BY <2>3, <3>1, <4>1
    <3> QED
      BY <3>3 DEF NewAt
  <2>8. TimerOK(v)
    <3>1. Waits(v.buf) \in BOOLEAN
      BY DEF Waits
    <3> QED
      BY <2>2, <3>1, Zenon DEF TimerOK
  <2> QED
    BY <2>5, <2>6, <2>7, <2>8
<1> QED
  BY <1>2, <1>3

\* A call that moves the state machine of s, perhaps to the end of its privacy
\* request.
Called(v, w, s) ==
    /\ Touches(v, w, {s})
    /\ Lives(w, s) /\ Lives(v, s) /\ v.fsm[s].state # "waitPriv"
    /\ w.fsm[s].exited => v.fsm[s].exited
    /\ SameBuf(v, w) \/ (Drops(v, w, s) /\ s \notin Emergency)

\* What is kept of the buffer when a state machine moves.
LEMMA CalledKeeps ==
    ASSUME NEW v, NEW w \in Worlds, NEW s \in Session, Called(v, w, s),
           NEW P, NEW n, Privacy(w, P, n)
    PROVE  /\ Privacy(v, P \ {s}, n)
           /\ NewAt(w.buf) = {} => NewAt(v.buf) = {}
           /\ TimerOK(w) => TimerOK(v)
           /\ WaitsForPrivacy(v) = WaitsForPrivacy(w) \ {s}
<1>1. \A t \in Session : t # s => v.fsm[t] = w.fsm[t]
  BY DEF Called, Touches
<1>2. /\ Lives(w, s) /\ Lives(v, s) /\ v.fsm[s].state # "waitPriv"
      /\ w.fsm[s].exited => v.fsm[s].exited
  BY DEF Called
<1>3. Later(v, n) = Later(w, n) /\ Quiet(w) \subseteq Quiet(v)
  BY <1>1, <1>2 DEF Later, Quiet, Lives
<1>4. WaitsForPrivacy(v) = WaitsForPrivacy(w) \ {s}
  BY <1>1, <1>2 DEF WaitsForPrivacy
<1>5. \A t \in Session : Lives(w, t) => Lives(v, t)
  BY <1>1, <1>2 DEF Lives
<1>6. BufferOK(w.buf, P, w.known, Later(w, n), Quiet(w))
  BY DEF Privacy
<1>7. /\ BufferOK(v.buf, P \ {s}, v.known, Later(w, n), Quiet(w))
      /\ v.known \subseteq w.known
      /\ NewAt(w.buf) = {} => NewAt(v.buf) = {}
      /\ TimerOK(w) => TimerOK(v)
  <2>1. CASE SameBuf(v, w)
    <3>1. BufferOK(w.buf, P \ {s}, w.known, Later(w, n), Quiet(w))
      BY <1>6, BufferWeakens
    <3> QED
      BY <2>1, <3>1 DEF SameBuf, TimerOK
  <2>2. CASE Drops(v, w, s) /\ s \notin Emergency
    BY <1>6, <2>2, DropsKeeps
  <2> QED
    BY <2>1, <2>2 DEF Called
<1>8. BufferOK(v.buf, P \ {s}, v.known, Later(v, n), Quiet(v))
  BY <1>3, <1>7, BufferWeakens
<1>9. OneEmergency => \A t \in v.known : Lives(v, t)
  <2> SUFFICES ASSUME OneEmergency, NEW t \in v.known
               PROVE  Lives(v, t)
    OBVIOUS
  <2>1. t \in w.known /\ Lives(w, t)
    BY <1>7 DEF Privacy
  <2> QED
    BY <1>1, <1>2, <2>1 DEF Lives, Worlds
<1> QED
  BY <1>4, <1>7, <1>8, <1>9 DEF Privacy

-----------------------------------------------------------------------------
(***************************************************************************)
(* The steps of a state machine, one by one: what each does to its         *)
(* session, and what it leaves alone.                                      *)
(***************************************************************************)
Kept(v, w) ==
    /\ v.spare = w.spare /\ v.latest = w.latest /\ v.counter = w.counter
    /\ v.asked = w.asked /\ v.granted = w.granted

Put(w, s, f) == [w EXCEPT !.fsm = [@ EXCEPT ![s] = f]]

\* A state machine gets new contents, and nothing else changes.
LEMMA PutGives ==
    ASSUME NEW w \in Worlds, NEW s \in Session, NEW f \in Fsms
    PROVE  LET v == Put(w, s, f) IN
           /\ v \in Worlds
           /\ v.fsm[s] = f /\ \A t \in Session \ {s} : v.fsm[t] = w.fsm[t]
           /\ Kept(v, w) /\ SameBuf(v, w)
           /\ v.agps = w.agps /\ v.sent = w.sent /\ v.owed = w.owed
           /\ v.server = w.server /\ v.alwaysVerify = w.alwaysVerify
           /\ v.trusted = w.trusted
<1> DEFINE g == [w.fsm EXCEPT ![s] = f]
           v == [w EXCEPT !.fsm = g]
<1>1. /\ g \in [Session -> Fsms]
      /\ g[s] = f /\ \A t \in Session \ {s} : g[t] = w.fsm[t]
  BY DEF Worlds
<1>2. Put(w, s, f) = v
  BY DEF Put
<1> HIDE DEF g
<1>3. /\ v \in Worlds /\ v.fsm = g
      /\ v.spare = w.spare /\ v.latest = w.latest /\ v.counter = w.counter
      /\ v.asked = w.asked /\ v.granted = w.granted
      /\ v.buf = w.buf /\ v.timer = w.timer /\ v.known = w.known
      /\ v.agps = w.agps /\ v.sent = w.sent /\ v.owed = w.owed
      /\ v.server = w.server /\ v.alwaysVerify = w.alwaysVerify /\ v.trusted = w.trusted
  BY <1>1 DEF Worlds
<1> HIDE DEF v
<1> QED
  BY <1>1, <1>2, <1>3 DEF Kept, SameBuf

\* Leaving and entering a state.
LEMMA GotoGives ==
    ASSUME NEW w \in Worlds, NEW s \in Session, NEW state \in FsmState
    PROVE  /\ Goto(w, s, state) = Put(w, s, [w.fsm[s] EXCEPT !.state = state])
           /\ [w.fsm[s] EXCEPT !.state = state] \in Fsms
<1> DEFINE f == [w.fsm[s] EXCEPT !.state = state]
<1>1. f \in Fsms
  <2>1. w.fsm[s] \in Fsms
    BY DEF Worlds
  <2> QED
    BY <2>1 DEF Fsms
<1>2. Goto(w, s, state) = Put(w, s, f)
  BY DEF Goto, Put
<1> QED
  BY <1>1, <1>2

\* A location response answers one request.
LEMMA ResponseGives ==
    ASSUME NEW w \in Worlds, NEW s \in Session, NEW what \in Responses
    PROVE  LET v == SendNetLocResponse(w, s, what) IN
           /\ v \in Worlds
           /\ v.sent = w.sent \union {<<s, what>>}
           /\ v.owed[s] = w.owed[s] - 1 /\ \A t \in Session \ {s} : v.owed[t] = w.owed[t]
           /\ Kept(v, w) /\ SameBuf(v, w) /\ v.fsm = w.fsm /\ v.agps = w.agps
<1> DEFINE o == [w.owed EXCEPT ![s] = @ - 1]
           x == w.sent \union {<<s, what>>}
           v == [w EXCEPT !.sent = x, !.owed = o]
<1>1. /\ o \in [Session -> Int] /\ x \in SUBSET (Session \X Responses)
      /\ o[s] = w.owed[s] - 1 /\ \A t \in Session \ {s} : o[t] = w.owed[t]
  BY DEF Worlds
<1>2. SendNetLocResponse(w, s, what) = v
  BY DEF SendNetLocResponse
<1> HIDE DEF o, x
<1>3. /\ v \in Worlds /\ v.owed = o /\ v.sent = x
      /\ v.spare = w.spare /\ v.latest = w.latest /\ v.counter = w.counter
      /\ v.asked = w.asked /\ v.granted = w.granted
      /\ v.buf = w.buf /\ v.timer = w.timer /\ v.known = w.known
      /\ v.agps = w.agps /\ v.fsm = w.fsm
  BY <1>1 DEF Worlds
<1> HIDE DEF v
<1> QED
  BY <1>1, <1>2, <1>3 DEF Kept, SameBuf, x

\* The GPS request changes, and nothing else.
LEMMA AgpsGives ==
    ASSUME NEW w \in Worlds, NEW a \in AgpsState
    PROVE  LET v == [w EXCEPT !.agps = a] IN
           /\ v \in Worlds
           /\ v.agps = a
           /\ Kept(v, w) /\ SameBuf(v, w) /\ v.fsm = w.fsm /\ v.sent = w.sent /\ v.owed = w.owed
<1> DEFINE v == [w EXCEPT !.agps = a]
<1>1. /\ v \in Worlds /\ v.agps = a
      /\ v.spare = w.spare /\ v.latest = w.latest /\ v.counter = w.counter
      /\ v.asked = w.asked /\ v.granted = w.granted
      /\ v.buf = w.buf /\ v.timer = w.timer /\ v.known = w.known
      /\ v.sent = w.sent /\ v.owed = w.owed /\ v.fsm = w.fsm
  BY DEF Worlds
<1> HIDE DEF v
<1>2. Kept(v, w) /\ SameBuf(v, w)
  BY <1>1 DEF Kept, SameBuf
<1> QED
  BY <1>1, <1>2 DEF v

\* The end of a session takes its GPS request and its first privacy request.
LEMMA ExitCompleteGives ==
    ASSUME NEW w \in Worlds, NEW s \in Session
    PROVE  LET v == ExitSessionComplete(w, s) IN
           /\ v \in Worlds
           /\ v.agps = StopPositioning(w.agps, s)
           /\ Drops(v, w, s)
           /\ Kept(v, w) /\ v.fsm = w.fsm /\ v.sent = w.sent /\ v.owed = w.owed
<1> DEFINE a == StopPositioning(w.agps, s)
           x == [w EXCEPT !.agps = a]
           v == ProcessRequestComplete(x, s)
<1>1. a \in AgpsState
  BY StopGives DEF Worlds
<1>2. ExitSessionComplete(w, s) = v
  BY DEF ExitSessionComplete
<1> HIDE DEF a
<1>3. /\ x \in Worlds /\ x.agps = a
      /\ Kept(x, w) /\ SameBuf(x, w) /\ x.fsm = w.fsm /\ x.sent = w.sent /\ x.owed = w.owed
  BY <1>1, AgpsGives
<1> HIDE DEF x
<1>4. /\ v \in Worlds
      /\ Drops(v, x, s)
      /\ v.fsm = x.fsm /\ v.spare = x.spare /\ v.latest = x.latest /\ v.agps = x.agps
      /\ v.counter = x.counter /\ v.sent = x.sent /\ v.owed = x.owed
      /\ v.asked = x.asked /\ v.granted = x.granted
  BY <1>3, CompleteGives
<1> HIDE DEF v
<1>5. Drops(v, w, s)
  BY <1>3, <1>4 DEF Drops, SameBuf
<1> QED
  BY <1>2, <1>3, <1>4, <1>5 DEF Kept, a

\* The sessions in S are answered and wait for the next request.
LEMMA ExitWaitGives ==
    ASSUME NEW w \in Worlds, NEW S \in SUBSET Session, NEW what,
           \A s \in S : what[s] \in Responses
    PROVE  LET v == ExitWaitLocUpdate(w, S, what) IN
           /\ v \in Worlds
           /\ \A s \in S : /\ v.fsm[s] = [w.fsm[s] EXCEPT !.state = "waitLocReq", !.cancelled = FALSE]
                           /\ v.owed[s] = w.owed[s] - 1
           /\ \A s \in Session \ S : v.fsm[s] = w.fsm[s] /\ v.owed[s] = w.owed[s]
           /\ v.agps = HoldPositioning(w.agps, S)
           /\ v.sent = w.sent \union {<<s, what[s]>> : s \in S}
           /\ Kept(v, w) /\ SameBuf(v, w)
<1> DEFINE f == [s \in Session |->
                   IF s \in S THEN [w.fsm[s] EXCEPT !.state = "waitLocReq", !.cancelled = FALSE]
                   ELSE w.fsm[s]]
           o == [s \in Session |-> IF s \in S THEN w.owed[s] - 1 ELSE w.owed[s]]
           x == w.sent \union {<<s, what[s]>> : s \in S}
           a == HoldPositioning(w.agps, S)
           v == [w EXCEPT !.fsm = f, !.agps = a, !.sent = x, !.owed = o]
<1>1. \A s \in Session : w.fsm[s] \in Fsms /\ w.owed[s] \in Int
  BY DEF Worlds
<1>2. \A g \in Fsms : [g EXCEPT !.state = "waitLocReq", !.cancelled = FALSE] \in Fsms
  BY DEF Fsms, FsmState
<1>3. f \in [Session -> Fsms] /\ o \in [Session -> Int]
  <2>1. \A s \in Session :
          (IF s \in S THEN [w.fsm[s] EXCEPT !.state = "waitLocReq", !.cancelled = FALSE]
           ELSE w.fsm[s]) \in Fsms
    BY <1>1, <1>2
  <2>2. \A s \in Session : (IF s \in S THEN w.owed[s] - 1 ELSE w.owed[s]) \in Int
    BY <1>1
  <2> QED
    BY <2>1, <2>2
<1>4. a \in AgpsState
  BY HoldGives DEF Worlds
<1>5. x \in SUBSET (Session \X Responses)
  BY DEF Worlds
<1>6. ExitWaitLocUpdate(w, S, what) = v
  BY DEF ExitWaitLocUpdate
<1>7. /\ \A s \in S : /\ f[s] = [w.fsm[s] EXCEPT !.state = "waitLocReq", !.cancelled = FALSE]
                      /\ o[s] = w.owed[s] - 1
      /\ \A s \in Session \ S : f[s] = w.fsm[s] /\ o[s] = w.owed[s]
  OBVIOUS
<1> HIDE DEF f, o, x, a
<1>8. /\ v \in Worlds /\ v.fsm = f /\ v.agps = a /\ v.sent = x /\ v.owed = o
      /\ v.spare = w.spare /\ v.latest = w.latest /\ v.counter = w.counter
      /\ v.asked = w.asked /\ v.granted = w.granted
      /\ v.buf = w.buf /\ v.timer = w.timer /\ v.known = w.known
  BY <1>3, <1>4, <1>5 DEF Worlds
<1> HIDE DEF v
<1>9. Kept(v, w) /\ SameBuf(v, w)
  BY <1>8 DEF Kept, SameBuf
<1> QED
  BY <1>6, <1>7, <1>8, <1>9 DEF x, a

\* What a session has when it enters the state in which it is located: it
\* waits for a position with a request, or has been answered.
Locates(v, w, s) ==
    /\ v.fsm[s].state = "waitLocUpdate"
    /\ v.sent = w.sent /\ v.owed[s] = w.owed[s]
    /\ v.agps.req[s] = "active" /\ v.agps.method[s] \in GpsMode
    /\ v.agps.running /\ Serves(v.agps.mode, v.agps.method[s])
    /\ s \notin Emergency =>
          \A x \in GpsMode : Serves(w.agps.mode, x) => Serves(v.agps.mode, x)

Answered(v, w, s) ==
    /\ v.fsm[s].state \in {"idle", "waitLocReq"}
    /\ v.owed[s] = w.owed[s] - 1
    /\ \E what \in Responses :
          /\ v.sent = w.sent \union {<<s, what>>}
          /\ what = "refused" => ~(s \in Emergency /\ Device \in {"either", "both"})
    /\ v.agps.req[s] = "active" => ~QualityKnown /\ w.agps.req[s] = "active"
    /\ \A t \in Session \ {s} : w.agps.req[t] = "active" /\ w.agps.running =>
          v.agps.mode = w.agps.mode /\ v.agps.running
    /\ v.agps.req[s] = "active" /\ w.agps.running => v.agps.running

Entered(v, w, s) ==
    /\ v \in Worlds
    /\ Touches(v, w, {s})
    /\ Kept(v, w)
    /\ v.fsm[s].exited = w.fsm[s].exited /\ v.fsm[s].counted = w.fsm[s].counted
    /\ SameBuf(v, w) \/ (Drops(v, w, s) /\ s \notin Emergency)
    /\ Locates(v, w, s) \/ Answered(v, w, s)

\* Where CLbsPrivLocWaitLocUpdateState::OnEntry leaves its session.
LEMMA EnterGives ==
    ASSUME NEW w \in Worlds, NEW s \in Session, NEW method \in Mode,
           NEW complete \in BOOLEAN, NEW cached \in BOOLEAN
    PROVE  Entered(EnterWaitLocUpdate(w, s, method, complete, cached), w, s)
<1> DEFINE m == IF method = {} THEN DefaultMode ELSE method
           fx == [w.fsm[s] EXCEPT !.state = "waitLocUpdate", !.method = m]
           x == Put(w, s, fx)
           fy == [fx EXCEPT !.fix = FALSE, !.meas = FALSE]
           a == StartPositioning(w.agps, s, m)
           y == [Put(w, s, fy) EXCEPT !.agps = a]
           v == EnterWaitLocUpdate(w, s, method, complete, cached)
<1>1. m \in GpsMode /\ w.fsm[s] \in Fsms /\ w.agps \in AgpsState
  BY AgpsAssumption DEF Worlds, Mode, GpsMode
<1> HIDE DEF m
<1>2. /\ fx \in Fsms /\ fx.state = "waitLocUpdate"
      /\ fx.exited = w.fsm[s].exited /\ fx.counted = w.fsm[s].counted
  BY <1>1 DEF Fsms, FsmState, Mode
<1>3. /\ fy \in Fsms /\ fy.state = "waitLocUpdate"
      /\ fy.exited = w.fsm[s].exited /\ fy.counted = w.fsm[s].counted
  BY <1>2 DEF Fsms
<1>4. a \in AgpsState
  BY <1>1, StartGives
<1>5. v = IF NoQuality(s, complete)
          THEN LET z == SendNetLocResponse(x, s, "denied") IN
               Goto(IF s \in External THEN ExitSessionComplete(z, s) ELSE z, s, "idle")
          ELSE IF cached THEN ExitWaitLocUpdate(x, {s}, [t \in {s} |-> "position"])
          ELSE IF Starts(x.agps, s, m) THEN y
          ELSE Goto(SendNetLocResponse(y, s, "refused"), s, "idle")
  <2>1. x = [w EXCEPT !.fsm[s].state = "waitLocUpdate", !.fsm[s].method = m]
    BY <1>1 DEF Put, Worlds
  <2>2. y = [x EXCEPT !.fsm[s].fix = FALSE, !.fsm[s].meas = FALSE,
                      !.agps = StartPositioning(@, s, m)]
    BY <1>1, <2>1 DEF Put, Worlds
  <2> HIDE DEF x, y
  <2> QED
    BY <2>1, <2>2 DEF EnterWaitLocUpdate, m
<1>6. /\ x \in Worlds /\ x.fsm[s] = fx /\ \A t \in Session \ {s} : x.fsm[t] = w.fsm[t]
      /\ Kept(x, w) /\ SameBuf(x, w)
      /\ x.agps = w.agps /\ x.sent = w.sent /\ x.owed = w.owed
  BY <1>2, PutGives
<1>7. /\ y \in Worlds /\ y.fsm[s] = fy /\ \A t \in Session \ {s} : y.fsm[t] = w.fsm[t]
      /\ Kept(y, w) /\ SameBuf(y, w)
      /\ y.agps = a /\ y.sent = w.sent /\ y.owed = w.owed
  <2> DEFINE u == Put(w, s, fy)
  <2>1. /\ u \in Worlds /\ u.fsm[s] = fy /\ \A t \in Session \ {s} : u.fsm[t] = w.fsm[t]
        /\ Kept(u, w) /\ SameBuf(u, w)
        /\ u.agps = w.agps /\ u.sent = w.sent /\ u.owed = w.owed
    BY <1>3, PutGives
  <2> HIDE DEF u, a
  <2> DEFINE z == [u EXCEPT !.agps = a]
  <2>2. /\ z \in Worlds /\ z.agps = a
        /\ Kept(z, u) /\ SameBuf(z, u) /\ z.fsm = u.fsm /\ z.sent = u.sent /\ z.owed = u.owed
    BY <1>4, <2>1, AgpsGives
  <2>3. y = z
    BY DEF u, a
  <2> HIDE DEF z, y
  <2> QED
    BY <2>1, <2>2, <2>3 DEF Kept, SameBuf
<1>8. {"denied", "position", "refused"} \subseteq Responses
  BY DEF Responses, Place
<1> HIDE DEF fx, fy, x, y
<1>9. CASE NoQuality(s, complete)
  <2> DEFINE z == SendNetLocResponse(x, s, "denied")
             u == IF s \in External THEN ExitSessionComplete(z, s) ELSE z
             q == Goto(u, s, "idle")
  <2>1. v = q
    BY <1>5, <1>9
  <2>2. /\ z \in Worlds /\ z.sent = w.sent \union {<<s, "denied">>}
        /\ z.owed[s] = w.owed[s] - 1 /\ \A t \in Session \ {s} : z.owed[t] = w.owed[t]
        /\ Kept(z, x) /\ SameBuf(z, x) /\ z.fsm = x.fsm /\ z.agps = w.agps
    <3>1. x \in Worlds /\ "denied" \in Responses
      BY <1>6, <1>8
    <3>2. /\ z \in Worlds /\ z.sent = x.sent \union {<<s, "denied">>}
          /\ z.owed[s] = x.owed[s] - 1 /\ \A t \in Session \ {s} : z.owed[t] = x.owed[t]
          /\ Kept(z, x) /\ SameBuf(z, x) /\ z.fsm = x.fsm /\ z.agps = x.agps
      BY <3>1, ResponseGives
    <3> HIDE DEF z
    <3> QED
      BY <1>6, <3>2
  <2> HIDE DEF z
  <2>3. /\ u \in Worlds /\ Kept(u, z) /\ u.fsm = z.fsm /\ u.sent = z.sent /\ u.owed = z.owed
        /\ s \in External => Drops(u, z, s) /\ u.agps = StopPositioning(w.agps, s)
        /\ s \notin External => SameBuf(u, z) /\ u.agps = w.agps
    <3>1. CASE s \in External
      BY <2>2, <3>1, ExitCompleteGives
    <3>2. CASE s \notin External
      BY <2>2, <3>2 DEF Kept, SameBuf
    <3> QED
      BY <3>1, <3>2
  <2> HIDE DEF u
  <2>4. "idle" \in FsmState
    BY DEF FsmState
  <2> DEFINE g == [u.fsm[s] EXCEPT !.state = "idle"]
  <2>5. q = Put(u, s, g) /\ g \in Fsms
    BY <2>3, <2>4, GotoGives
  <2>6. g.state = "idle" /\ g.exited = w.fsm[s].exited /\ g.counted = w.fsm[s].counted
    BY <1>2, <1>6, <2>2, <2>3 DEF Fsms
  <2> HIDE DEF g
  <2>7. /\ q \in Worlds /\ q.fsm[s] = g /\ \A t \in Session \ {s} : q.fsm[t] = u.fsm[t]
        /\ Kept(q, u) /\ SameBuf(q, u)
        /\ q.agps = u.agps /\ q.sent = u.sent /\ q.owed = u.owed
    BY <2>3, <2>5, PutGives
  <2> HIDE DEF q, v
  <2>8. /\ \A t \in Session \ {s} : v.fsm[t] = w.fsm[t] /\ v.owed[t] = w.owed[t]
        /\ v.owed[s] = w.owed[s] - 1
        /\ v.sent = w.sent \union {<<s, "denied">>}
        /\ v.fsm[s].state = "idle"
        /\ v.fsm[s].exited = w.fsm[s].exited /\ v.fsm[s].counted = w.fsm[s].counted
        /\ v \in Worlds
    BY <1>6, <2>1, <2>2, <2>3, <2>6, <2>7
  <2>9. Kept(v, w)
    BY <1>6, <2>1, <2>2, <2>3, <2>7 DEF Kept
  <2>10. SameBuf(v, w) \/ (Drops(v, w, s) /\ s \notin Emergency)
    <3>1. SameBuf(z, w) /\ SameBuf(v, u)
      BY <1>6, <2>1, <2>2, <2>7 DEF SameBuf
    <3>2. CASE s \in External
      BY <1>9, <2>3, <3>1, <3>2 DEF SameBuf, Drops, NoQuality
    <3>3. CASE s \notin External
      BY <2>3, <3>1, <3>3 DEF SameBuf
    <3> QED
      BY <3>2, <3>3
  <2>11. v.agps = IF s \in External THEN StopPositioning(w.agps, s) ELSE w.agps
    BY <2>1, <2>3, <2>7
  <2>12. ~QualityKnown \/ s \in External
    BY <1>9 DEF NoQuality, QualityKnown
  <2>13. /\ \A t \in Session \ {s} :
              v.agps.req[t] = w.agps.req[t] /\ v.agps.method[t] = w.agps.method[t]
         /\ v.agps.req[s] = "active" => ~QualityKnown /\ w.agps.req[s] = "active"
         /\ \A t \in Session \ {s} : w.agps.req[t] = "active" /\ w.agps.running =>
               v.agps.mode = w.agps.mode /\ v.agps.running
         /\ v.agps.req[s] = "active" /\ w.agps.running => v.agps.running
    <3>1. CASE s \in External
      BY <1>1, <2>11, <3>1, StopGives
    <3>2. CASE s \notin External
      BY <2>11, <2>12, <3>2
    <3> QED
      BY <3>1, <3>2
  <2>14. Touches(v, w, {s})
    BY <2>8, <2>9, <2>13 DEF Touches, Kept
  <2>15. Answered(v, w, s)
    BY <1>8, <2>8, <2>13 DEF Answered
  <2> QED
    BY <2>8, <2>9, <2>10, <2>14, <2>15 DEF Entered, v
<1>10. CASE ~NoQuality(s, complete) /\ cached
  <2> DEFINE what == [t \in {s} |-> "position"]
             q == ExitWaitLocUpdate(x, {s}, what)
  <2>1. v = q
    BY <1>5, <1>10
  <2>2. {s} \in SUBSET Session /\ what[s] = "position" /\ \A t \in {s} : what[t] \in Responses
    BY <1>8
  <2> HIDE DEF what
  <2>3. /\ q \in Worlds
        /\ \A t \in {s} : /\ q.fsm[t] = [x.fsm[t] EXCEPT !.state = "waitLocReq", !.cancelled = FALSE]
                          /\ q.owed[t] = x.owed[t] - 1
        /\ \A t \in Session \ {s} : q.fsm[t] = x.fsm[t] /\ q.owed[t] = x.owed[t]
        /\ q.agps = HoldPositioning(x.agps, {s})
        /\ q.sent = x.sent \union {<<t, what[t]>> : t \in {s}}
        /\ Kept(q, x) /\ SameBuf(q, x)
    BY <1>6, <2>2, ExitWaitGives
  <2> DEFINE g == [fx EXCEPT !.state = "waitLocReq", !.cancelled = FALSE]
  <2>4. g.state = "waitLocReq" /\ g.exited = w.fsm[s].exited /\ g.counted = w.fsm[s].counted
    BY <1>2 DEF Fsms
  <2>5. q.fsm[s] = g
    BY <1>6, <2>3
  <2> HIDE DEF q, v, g
  <2>6. /\ \A t \in Session \ {s} : v.fsm[t] = w.fsm[t] /\ v.owed[t] = w.owed[t]
        /\ v.owed[s] = w.owed[s] - 1
        /\ v.sent = w.sent \union {<<s, "position">>}
        /\ v.fsm[s].state = "waitLocReq"
        /\ v.fsm[s].exited = w.fsm[s].exited /\ v.fsm[s].counted = w.fsm[s].counted
        /\ v \in Worlds
    BY <1>6, <2>1, <2>2, <2>3, <2>4, <2>5
  <2>7. Kept(v, w) /\ SameBuf(v, w)
    BY <1>6, <2>1, <2>3 DEF Kept, SameBuf
  <2> DEFINE h == HoldPositioning(w.agps, {s})
  <2>8. v.agps = h
    BY <1>6, <2>1, <2>3
  <2>9. /\ h.mode = w.agps.mode /\ h.running = w.agps.running /\ h.method = w.agps.method
        /\ h.req[s] # "active"
        /\ \A t \in Session \ {s} : h.req[t] = w.agps.req[t]
    <3>1. /\ h.mode = w.agps.mode /\ h.running = w.agps.running /\ h.method = w.agps.method
          /\ \A t \in {s} : h.req[t] = IF w.agps.req[t] = "none" THEN "none" ELSE "hold"
          /\ \A t \in Session \ {s} : h.req[t] = w.agps.req[t]
      BY <1>1, <2>2, HoldGives
    <3> HIDE DEF h
    <3> QED
      BY <3>1
  <2> HIDE DEF h
  <2>10. Touches(v, w, {s})
    BY <2>6, <2>7, <2>8, <2>9 DEF Touches, Kept
  <2>11. Answered(v, w, s)
    BY <1>8, <2>6, <2>8, <2>9 DEF Answered
  <2> QED
    BY <2>6, <2>7, <2>10, <2>11 DEF Entered, v
<1>11. CASE ~NoQuality(s, complete) /\ ~cached /\ Starts(x.agps, s, m)
  <2>1. v = y /\ Starts(w.agps, s, m)
    BY <1>5, <1>6, <1>11
  <2>2. /\ \A t \in Session \ {s} : a.req[t] = w.agps.req[t] /\ a.method[t] = w.agps.method[t]
        /\ a.req[s] = "active" /\ a.method[s] = m
        /\ a.running /\ Serves(a.mode, m)
        /\ s \notin Emergency => \A z \in GpsMode : Serves(w.agps.mode, z) => Serves(a.mode, z)
    BY <1>1, <2>1, StartGives
  <2> HIDE DEF a, v
  <2>3. Touches(v, w, {s})
    BY <1>7, <2>1, <2>2 DEF Touches, Kept
  <2>4. Locates(v, w, s)
    BY <1>1, <1>3, <1>7, <2>1, <2>2 DEF Locates
  <2> QED
    BY <1>3, <1>7, <2>1, <2>3, <2>4 DEF Entered, v
<1>12. CASE ~NoQuality(s, complete) /\ ~cached /\ ~Starts(x.agps, s, m)
  <2> DEFINE z == SendNetLocResponse(y, s, "refused")
             q == Goto(z, s, "idle")
  <2>1. v = q /\ ~Starts(w.agps, s, m)
    BY <1>5, <1>6, <1>12
  <2>2. /\ \A t \in Session \ {s} : a.req[t] = w.agps.req[t] /\ a.method[t] = w.agps.method[t]
        /\ a.req[s] = "none" /\ a.mode = w.agps.mode /\ a.running = w.agps.running
    BY <1>1, <2>1, StartGives
  <2>3. ~(s \in Emergency /\ Device \in {"either", "both"})
    BY <1>1, <2>1, EmergencyStarts
  <2> HIDE DEF a
  <2>4. /\ z \in Worlds /\ z.sent = w.sent \union {<<s, "refused">>}
        /\ z.owed[s] = w.owed[s] - 1 /\ \A t \in Session \ {s} : z.owed[t] = w.owed[t]
        /\ Kept(z, y) /\ SameBuf(z, y) /\ z.fsm = y.fsm /\ z.agps = a
    <3>1. y \in Worlds /\ "refused" \in Responses
      BY <1>7, <1>8
    <3>2. /\ z \in Worlds /\ z.sent = y.sent \union {<<s, "refused">>}
          /\ z.owed[s] = y.owed[s] - 1 /\ \A t \in Session \ {s} : z.owed[t] = y.owed[t]
          /\ Kept(z, y) /\ SameBuf(z, y) /\ z.fsm = y.fsm /\ z.agps = y.agps
      BY <3>1, ResponseGives
    <3> HIDE DEF z
    <3> QED
      BY <1>7, <3>2
  <2> HIDE DEF z
  <2>5. "idle" \in FsmState
    BY DEF FsmState
  <2> DEFINE g == [z.fsm[s] EXCEPT !.state = "idle"]
  <2>6. q = Put(z, s, g) /\ g \in Fsms
    BY <2>4, <2>5, GotoGives
  <2>7. g.state = "idle" /\ g.exited = w.fsm[s].exited /\ g.counted = w.fsm[s].counted
    BY <1>3, <1>7, <2>4 DEF Fsms
  <2> HIDE DEF g
  <2>8. /\ q \in Worlds /\ q.fsm[s] = g /\ \A t \in Session \ {s} : q.fsm[t] = z.fsm[t]
        /\ Kept(q, z) /\ SameBuf(q, z)
        /\ q.agps = z.agps /\ q.sent = z.sent /\ q.owed = z.owed
    BY <2>4, <2>6, PutGives
  <2> HIDE DEF q, v
  <2>9. /\ \A t \in Session \ {s} : v.fsm[t] = w.fsm[t] /\ v.owed[t] = w.owed[t]
        /\ v.owed[s] = w.owed[s] - 1
        /\ v.sent = w.sent \union {<<s, "refused">>}
        /\ v.fsm[s].state = "idle" /\ v.agps = a
        /\ v.fsm[s].exited = w.fsm[s].exited /\ v.fsm[s].counted = w.fsm[s].counted
        /\ v \in Worlds
    BY <1>7, <2>1, <2>4, <2>7, <2>8
  <2>10. Kept(v, w) /\ SameBuf(v, w)
    BY <1>7, <2>1, <2>4, <2>8 DEF Kept, SameBuf
  <2>11. Touches(v, w, {s})
    BY <2>2, <2>9, <2>10 DEF Touches, Kept
  <2>12. Answered(v, w, s)
    BY <1>8, <2>2, <2>3, <2>9 DEF Answered
  <2> QED
    BY <2>9, <2>10, <2>11, <2>12 DEF Entered, v
<1> QED
  BY <1>9, <1>10, <1>11, <1>12

-----------------------------------------------------------------------------
(***************************************************************************)
(* What holds of a world when all holds but what is said of session s.     *)
(***************************************************************************)
Almost(w, s, D, n) ==
    /\ w \in Worlds
    /\ \A t \in Session \ {s} : Local(w, t)
    /\ Shared(w, D)
    /\ \A t \in Session : n[t] = "unused" => ~Lives(w, t)

\* The GPS after a step of session s: the others have what they had.
GpsKept(v, w, s, D) ==
    /\ v.agps.req[s] = "active" => v.agps.running
    /\ v.fsm[s].state = "waitLocUpdate" => Serves(v.agps.mode, v.agps.method[s])
    /\ \A t \in Session \ {s} :
          w.agps.req[t] = "active" /\ w.agps.running =>
              /\ v.agps.running
              /\ D \subseteq {t} \/ (t \in Emergency /\ Lives(w, t)) =>
                    \A x \in GpsMode : Serves(w.agps.mode, x) => Serves(v.agps.mode, x)

\* A step of s that keeps the counter and the GPS right keeps all but what is of
\* s itself.
LEMMA AlmostKeeps ==
    ASSUME NEW v \in Worlds, NEW w, NEW s \in Session, NEW D, NEW n,
           Almost(w, s, D, n), Touches(v, w, {s}), Lives(w, s), Lives(v, s),
           v.spare = w.spare, v.latest = w.latest,
           OneEmergency /\ LocationManagement => v.counter = Cardinality(Counted(v)),
           GpsKept(v, w, s, D)
    PROVE  Almost(v, s, D, n)
<1>1. \A t \in Session \ {s} : Local(v, t) /\ v.fsm[t] = w.fsm[t]
         /\ v.agps.req[t] = w.agps.req[t] /\ v.agps.method[t] = w.agps.method[t]
  <2>1. \A t \in Session \ {s} : Local(w, t)
    BY DEF Almost
  <2>2. ASSUME NEW t \in Session \ {s}
        PROVE  Local(v, t)
    BY <2>1, TouchesKeeps
  <2> QED
    BY <2>2 DEF Touches
<1>2. \A t \in Session : Lives(v, t) <=> Lives(w, t)
  BY <1>1 DEF Lives
<1>3. Shared(w, D)
  BY DEF Almost
<1>4. v.spare.state = "idle" /\ ~v.spare.counted
  BY <1>3 DEF Shared
<1>5. \A d, e \in Emergency : Lives(v, d) /\ Lives(v, e) => d = e
  BY <1>2, <1>3, AgpsAssumption DEF Shared
<1>6. \A t \in {"SELF", "X3P"} : v.latest[t] # NoSession => Type[v.latest[t]] = t
  BY <1>3 DEF Shared
<1>7. \A t \in Session : v.agps.req[t] = "active" => v.agps.running
  <2> TAKE t \in Session
  <2>1. CASE t = s
    BY <2>1 DEF GpsKept
  <2>2. CASE t # s
    BY <1>1, <1>3, <2>2 DEF GpsKept, Shared
  <2> QED
    BY <2>1, <2>2
<1>8. ~ \A t \in Session : ~Lives(v, t)
  OBVIOUS
<1>9. ASSUME NEW t \in Session, v.fsm[t].state = "waitLocUpdate",
             D \subseteq {t} \/ t \in Emergency
      PROVE  Serves(v.agps.mode, v.agps.method[t])
  <2>1. CASE t = s
    BY <1>9, <2>1 DEF GpsKept
  <2>2. CASE t # s
    <3>1. w.fsm[t].state = "waitLocUpdate" /\ v.agps.method[t] = w.agps.method[t]
      BY <1>1, <1>9, <2>2
    <3>2. Local(w, t)
      BY <2>2 DEF Almost
    <3>3. w.agps.req[t] = "active" /\ w.agps.method[t] \in GpsMode
      BY <3>1, <3>2 DEF Local
    <3>4. w.agps.running /\ Serves(w.agps.mode, w.agps.method[t])
      BY <1>3, <1>9, <3>1, <3>3 DEF Shared
    <3>5. Lives(w, t)
      BY <3>1 DEF Lives
    <3> QED
      BY <1>9, <2>2, <3>1, <3>3, <3>4, <3>5 DEF GpsKept
  <2> QED
    BY <2>1, <2>2
<1>10. Shared(v, D)
  BY <1>4, <1>5, <1>6, <1>7, <1>8, <1>9 DEF Shared
<1>11. \A t \in Session : n[t] = "unused" => ~Lives(v, t)
  BY <1>2 DEF Almost
<1> QED
  BY <1>1, <1>10, <1>11 DEF Almost

\* All in order is all but s, and s.
LEMMA AlmostAndLocal ==
    ASSUME NEW w, NEW s \in Session, NEW D, NEW n
    PROVE  Base(w, D, n) <=> Almost(w, s, D, n) /\ Local(w, s)
<1>1. (\A t \in Session : Local(w, t)) <=> (\A t \in Session \ {s} : Local(w, t)) /\ Local(w, s)
  OBVIOUS
<1> QED
  BY <1>1 DEF Base, Almost

\* A session that may be located: it was accepted, and it has a response
\* coming.
Ready(w, s, D) ==
    /\ Lives(w, s)
    /\ s \in External \ Emergency => s \in w.granted
    /\ OneEmergency =>
          w.owed[s] > 0 /\ (Type[s] = "MT" => w.asked[s] >= 0)
    /\ OneEmergency /\ w.fsm[s].counted => w.fsm[s].exited
    /\ w.fsm[s].counted => s \in External
    /\ s \in Emergency =>
          s \in D /\ (Device \in {"either", "both"} => <<s, "refused">> \notin w.sent)

\* A session that may be located leaves all in order when it is.
LEMMA EnteredKeeps ==
    ASSUME NEW v, NEW w, NEW s \in Session, NEW D, NEW n,
           Almost(w, s, D, n), Ready(w, s, D), Entered(v, w, s)
    PROVE  Base(v, D, n) /\ Called(v, w, s)
<1>1. /\ v \in Worlds /\ w \in Worlds /\ Touches(v, w, {s}) /\ Kept(v, w)
      /\ v.fsm[s].exited = w.fsm[s].exited /\ v.fsm[s].counted = w.fsm[s].counted
      /\ SameBuf(v, w) \/ (Drops(v, w, s) /\ s \notin Emergency)
      /\ Locates(v, w, s) \/ Answered(v, w, s)
  BY DEF Entered, Almost
<1>2. /\ v.spare = w.spare /\ v.latest = w.latest /\ v.counter = w.counter
      /\ v.asked = w.asked /\ v.granted = w.granted
  BY <1>1 DEF Kept
<1>3. Lives(v, s) /\ v.fsm[s].state # "waitPriv"
  BY <1>1 DEF Lives, Locates, Answered
<1>4. OneEmergency /\ LocationManagement => v.counter = Cardinality(Counted(v))
  <2>1. \A t \in Session : v.fsm[t].counted = w.fsm[t].counted
    BY <1>1 DEF Touches
  <2>2. Counted(v) = Counted(w)
    BY <2>1 DEF Counted
  <2> QED
    BY <1>2, <2>2 DEF Almost, Shared
<1>5. Shared(w, D) /\ (w.agps.req[s] = "active" => w.agps.running)
  BY DEF Almost, Shared
<1>6. GpsKept(v, w, s, D)
  <2>1. CASE Locates(v, w, s)
    <3>1. ASSUME NEW t \in Session \ {s}, D \subseteq {t} \/ (t \in Emergency /\ Lives(w, t))
          PROVE  s \notin Emergency
      <4>1. s \in Emergency => s \in D /\ Lives(w, s)
        BY DEF Ready
      <4> QED
        BY <1>5, <3>1, <4>1 DEF Shared
    <3> QED
      BY <2>1, <3>1 DEF Locates, GpsKept
  <2>2. CASE Answered(v, w, s)
    BY <1>5, <2>2 DEF Answered, GpsKept
  <2> QED
    BY <1>1, <2>1, <2>2
<1>7. Almost(v, s, D, n)
  BY <1>1, <1>2, <1>3, <1>4, <1>6, AlmostKeeps DEF Ready
<1>8. Consented(v, s)
  BY <1>2 DEF Ready, Consented
<1>9. v.fsm[s].state = "waitLocUpdate" =>
          v.agps.req[s] = "active" /\ v.agps.method[s] \in GpsMode
  BY <1>1 DEF Locates, Answered
<1>10. Replied(v, s)
  <2>1. w.owed[s] \in Int /\ v.owed[s] \in Int
    BY <1>1 DEF Worlds
  <2>2. v.owed[s] = w.owed[s] \/ (v.owed[s] = w.owed[s] - 1 /\ v.fsm[s].state # "waitLocUpdate")
    BY <1>1 DEF Locates, Answered
  <2> QED
    BY <1>2, <1>3, <2>1, <2>2 DEF Ready, Replied
<1>11. Tidied(v, s)
  BY <1>1, <1>3 DEF Ready, Tidied, Locates, Answered
<1>12. s \in Emergency /\ Device \in {"either", "both"} => <<s, "refused">> \notin v.sent
  BY <1>1 DEF Ready, Locates, Answered
<1>13. Local(v, s)
  BY <1>1, <1>3, <1>8, <1>9, <1>10, <1>11, <1>12 DEF Local, Ready
<1>14. Called(v, w, s)
  BY <1>1, <1>3 DEF Called, Ready
<1> QED
  BY <1>7, <1>13, <1>14, AlmostAndLocal

\* A call that changes nothing the sessions share but the GPS.
LEMMA TouchesTwice ==
    ASSUME NEW v, NEW u, NEW w, NEW s, Touches(v, u, {s}), Touches(u, w, {s})
    PROVE  Touches(v, w, {s})
BY DEF Touches

\* Two calls on one session are one.
LEMMA CalledTwice ==
    ASSUME NEW v, NEW u, NEW w, NEW s, Called(v, u, s), Touches(u, w, {s}), SameBuf(u, w),
           Lives(w, s), w.fsm[s].exited => u.fsm[s].exited
    PROVE  Called(v, w, s)
<1>1. Touches(v, w, {s})
  BY TouchesTwice DEF Called
<1>2. SameBuf(v, w) \/ (Drops(v, w, s) /\ s \notin Emergency)
  BY DEF Called, SameBuf, Drops
<1> QED
  BY <1>1, <1>2 DEF Called

\* An answer to an MTLR request.
LEMMA MtlrGives ==
    ASSUME NEW w \in Worlds, NEW s \in Session
    PROVE  LET v == SendMTLRResponse(w, s) IN
           /\ v \in Worlds
           /\ v.asked[s] = w.asked[s] - 1 /\ \A t \in Session \ {s} : v.asked[t] = w.asked[t]
           /\ SameBuf(v, w) /\ v.fsm = w.fsm /\ v.agps = w.agps /\ v.sent = w.sent
           /\ v.owed = w.owed /\ v.granted = w.granted /\ v.counter = w.counter
           /\ v.spare = w.spare /\ v.latest = w.latest
<1> DEFINE q == [w.asked EXCEPT ![s] = @ - 1]
           v == [w EXCEPT !.asked = q]
<1>1. /\ q \in [Session -> Int]
      /\ q[s] = w.asked[s] - 1 /\ \A t \in Session \ {s} : q[t] = w.asked[t]
  BY DEF Worlds
<1>2. SendMTLRResponse(w, s) = v
  BY DEF SendMTLRResponse
<1> HIDE DEF q
<1>3. /\ v \in Worlds /\ v.asked = q
      /\ v.fsm = w.fsm /\ v.agps = w.agps /\ v.sent = w.sent /\ v.owed = w.owed
      /\ v.granted = w.granted /\ v.counter = w.counter
      /\ v.spare = w.spare /\ v.latest = w.latest
      /\ v.buf = w.buf /\ v.timer = w.timer /\ v.known = w.known
  BY <1>1 DEF Worlds
<1> HIDE DEF v
<1> QED
  BY <1>1, <1>2, <1>3 DEF SameBuf

\* The part of a privacy response every session hears that the network's
\* request is answered: Tell.
Tells(w, s) == IF Type[s] = "MT" THEN SendMTLRResponse(w, s) ELSE w

\* The answer to an MTLR request, where the session has one.
LEMMA TellsGives ==
    ASSUME NEW w \in Worlds, NEW s \in Session
    PROVE  LET v == Tells(w, s) IN
           /\ v \in Worlds
           /\ v.asked[s] = IF Type[s] = "MT" THEN w.asked[s] - 1 ELSE w.asked[s]
           /\ \A t \in Session \ {s} : v.asked[t] = w.asked[t]
           /\ SameBuf(v, w) /\ v.fsm = w.fsm /\ v.agps = w.agps /\ v.sent = w.sent
           /\ v.owed = w.owed /\ v.granted = w.granted /\ v.counter = w.counter
           /\ v.spare = w.spare /\ v.latest = w.latest
<1>1. CASE Type[s] = "MT"
  BY <1>1, MtlrGives DEF Tells
<1>2. CASE Type[s] # "MT"
  BY <1>2 DEF Tells, SameBuf
<1> QED
  BY <1>1, <1>2

\* One more session is counted, or none.
LEMMA CountedGives ==
    ASSUME NEW v, NEW w, NEW s \in Session,
           \A t \in Session \ {s} : v.fsm[t].counted <=> w.fsm[t].counted
    PROVE  /\ IsFiniteSet(Counted(w)) /\ Cardinality(Counted(w)) \in Nat
           /\ (v.fsm[s].counted <=> w.fsm[s].counted) => Counted(v) = Counted(w)
           /\ v.fsm[s].counted /\ ~w.fsm[s].counted =>
                 Cardinality(Counted(v)) = Cardinality(Counted(w)) + 1
           /\ ~v.fsm[s].counted /\ w.fsm[s].counted =>
                 Cardinality(Counted(v)) = Cardinality(Counted(w)) - 1
<1>1. IsFiniteSet(Counted(w)) /\ IsFiniteSet(Session)
  BY FS_Subset, AgpsAssumption DEF Counted
<1>2. Cardinality(Counted(w)) \in Nat
  BY <1>1, FS_CardinalityType
<1>3. (v.fsm[s].counted <=> w.fsm[s].counted) => Counted(v) = Counted(w)
  BY DEF Counted
<1>4. v.fsm[s].counted /\ ~w.fsm[s].counted =>
         Counted(v) = Counted(w) \union {s} /\ s \notin Counted(w)
  BY DEF Counted
<1>5. ~v.fsm[s].counted /\ w.fsm[s].counted =>
         Counted(v) = Counted(w) \ {s} /\ s \in Counted(w)
  BY DEF Counted
<1>6. v.fsm[s].counted /\ ~w.fsm[s].counted =>
         Cardinality(Counted(v)) = Cardinality(Counted(w)) + 1
  BY <1>1, <1>4, FS_AddElement
<1>7. ~v.fsm[s].counted /\ w.fsm[s].counted =>
         Cardinality(Counted(v)) = Cardinality(Counted(w)) - 1
  BY <1>1, <1>5, FS_RemoveElement
<1> QED
  BY <1>1, <1>2, <1>3, <1>6, <1>7

\* A session that is accepted: what is common to one that has asked for a
\* position and one that has not.
Accepts(w, s) ==
    LET f == w.fsm[s]
        x == [w EXCEPT !.fsm[s].exited = TRUE, !.fsm[s].locReq = FALSE]
    IN  [x EXCEPT !.agps = PreStartPositioning(@, s),
                  !.counter = IF f.silent THEN @ ELSE @ + 1,
                  !.fsm[s].counted = @ \/ ~f.silent,
                  !.granted = @ \union {s}]

\* What an accepted session is before it is located or waits.
LEMMA AcceptsGives ==
    ASSUME NEW w \in Worlds, NEW s \in Session
    PROVE  LET v == Accepts(w, s) IN
           /\ v \in Worlds
           /\ v.fsm[s] = [w.fsm[s] EXCEPT !.exited = TRUE, !.locReq = FALSE,
                            !.counted = w.fsm[s].counted \/ ~w.fsm[s].silent]
           /\ \A t \in Session \ {s} : v.fsm[t] = w.fsm[t]
           /\ v.agps = PreStartPositioning(w.agps, s)
           /\ v.counter = IF w.fsm[s].silent THEN w.counter ELSE w.counter + 1
           /\ v.granted = w.granted \union {s}
           /\ SameBuf(v, w) /\ v.sent = w.sent /\ v.owed = w.owed /\ v.asked = w.asked
           /\ v.spare = w.spare /\ v.latest = w.latest
<1> DEFINE b == w.fsm[s].counted \/ ~w.fsm[s].silent
           f == [w.fsm[s] EXCEPT !.exited = TRUE, !.locReq = FALSE, !.counted = b]
           g == [w.fsm EXCEPT ![s] = f]
           a == PreStartPositioning(w.agps, s)
           c == IF w.fsm[s].silent THEN w.counter ELSE w.counter + 1
           d == w.granted \union {s}
           v == [w EXCEPT !.fsm = g, !.agps = a, !.counter = c, !.granted = d]
<1>1. w.fsm[s] \in Fsms /\ w.agps \in AgpsState
  BY DEF Worlds
<1>2. b \in BOOLEAN
  OBVIOUS
<1>3. Accepts(w, s) = v
  <2> DEFINE f1 == [w.fsm[s] EXCEPT !.exited = TRUE, !.locReq = FALSE]
             g1 == [w.fsm EXCEPT ![s] = f1]
             x == [w EXCEPT !.fsm[s].exited = TRUE, !.fsm[s].locReq = FALSE]
  <2>1. x = [w EXCEPT !.fsm = g1]
    BY DEF Worlds
  <2>2. x \in Worlds /\ x.fsm[s] = f1 /\ x.agps = w.agps /\ x.counter = w.counter /\ x.granted = w.granted
        /\ x.fsm = g1
    <3>1. g1 \in [Session -> Fsms] /\ g1[s] = f1
      BY <1>1 DEF Worlds, Fsms
    <3> HIDE DEF g1, f1
    <3> QED
      BY <2>1, <3>1 DEF Worlds
  <2>3. f1.counted = w.fsm[s].counted
    BY <1>1 DEF Fsms
  <2> DEFINE p == [x EXCEPT !.agps = PreStartPositioning(@, s),
                            !.counter = IF w.fsm[s].silent THEN @ ELSE @ + 1,
                            !.fsm[s].counted = @ \/ ~w.fsm[s].silent,
                            !.granted = @ \union {s}]
  <2>4. Accepts(w, s) = p
    BY DEF Accepts
  <2> HIDE DEF x, f1
  <2> DEFINE f2 == [f1 EXCEPT !.counted = b]
             g2 == [x.fsm EXCEPT ![s] = f2]
  <2>5. p = [x EXCEPT !.agps = a, !.counter = c, !.fsm = g2, !.granted = d]
    BY <2>2, <2>3 DEF Worlds
  <2>6. f2 = f
    BY <1>1 DEF f1, Fsms
  <2>7. g2 = g
    BY <2>2, <2>6 DEF Worlds
  <2> HIDE DEF p, g2, f, a, c, d, g
  <2>8. p = [x EXCEPT !.agps = a, !.counter = c, !.fsm = g, !.granted = d]
    BY <2>5, <2>7
  <2> HIDE DEF g1
  <2>9. [x EXCEPT !.agps = a, !.counter = c, !.fsm = g, !.granted = d] = v
    BY <2>1 DEF Worlds
  <2> QED
    BY <2>4, <2>8, <2>9
<1> HIDE DEF b
<1>4. f \in Fsms
  BY <1>1, <1>2 DEF Fsms
<1> HIDE DEF f
<1>5. g \in [Session -> Fsms] /\ g[s] = f /\ \A t \in Session \ {s} : g[t] = w.fsm[t]
  BY <1>4 DEF Worlds
<1>6. a \in AgpsState /\ c \in Nat /\ d \in SUBSET Session
  BY <1>1, PreStartGives DEF Worlds
<1> HIDE DEF g, a, c, d
<1>7. /\ v \in Worlds /\ v.fsm = g /\ v.agps = a /\ v.counter = c /\ v.granted = d
      /\ v.sent = w.sent /\ v.owed = w.owed /\ v.asked = w.asked
      /\ v.spare = w.spare /\ v.latest = w.latest
      /\ v.buf = w.buf /\ v.timer = w.timer /\ v.known = w.known
  BY <1>5, <1>6 DEF Worlds
<1> HIDE DEF v
<1>8. /\ Accepts(w, s).fsm[s] = f /\ Accepts(w, s).agps = a /\ Accepts(w, s).counter = c
      /\ Accepts(w, s).granted = d /\ SameBuf(Accepts(w, s), w)
      /\ \A t \in Session \ {s} : Accepts(w, s).fsm[t] = w.fsm[t]
  BY <1>3, <1>5, <1>7 DEF SameBuf
<1> QED
  BY <1>3, <1>7, <1>8 DEF f, a, c, d, b

\* What a privacy response does to a session that waits for it.
LEMMA AcceptKeeps ==
    ASSUME NEW w, NEW s \in Session, NEW D, NEW n, NEW cached \in BOOLEAN,
           Base(w, D, n), w.fsm[s].state = "waitPriv",
           s \in Emergency /\ w.fsm[s].locReq => s \in D
    PROVE  LET v == OnRespond(w, s, "accepted", cached) IN
           Base(v, D, n) /\ Called(v, w, s) /\ v.fsm[s].exited
<1> DEFINE f == w.fsm[s]
           y == Accepts(w, s)
           u == Tells(y, s)
           v == OnRespond(w, s, "accepted", cached)
           h == [w.fsm[s] EXCEPT !.exited = TRUE, !.locReq = FALSE,
                            !.counted = w.fsm[s].counted \/ ~w.fsm[s].silent]
<1>1. Almost(w, s, D, n) /\ Local(w, s) /\ w \in Worlds /\ f \in Fsms /\ w.agps \in AgpsState
  <2>1. Almost(w, s, D, n) /\ Local(w, s)
    BY AlmostAndLocal
  <2> QED
    BY <2>1 DEF Almost, Worlds
<1>2. /\ s \in External /\ ~w.fsm[s].exited
      /\ OneEmergency => ~w.fsm[s].counted
      /\ w.owed[s] \in Int /\ w.asked[s] \in Int
  BY <1>1 DEF Local, Tidied, Worlds
<1>3. h \in Fsms
  <2>1. (w.fsm[s].counted \/ ~w.fsm[s].silent) \in BOOLEAN
    OBVIOUS
  <2> QED
    BY <1>1, <2>1 DEF Fsms
<1>4. /\ h.state = "waitPriv" /\ h.exited /\ h.method = f.method /\ h.complete = f.complete
      /\ h.counted <=> w.fsm[s].counted \/ ~w.fsm[s].silent
  BY <1>1 DEF Fsms
<1>5. /\ y \in Worlds /\ y.fsm[s] = h
      /\ \A t \in Session \ {s} : y.fsm[t] = w.fsm[t]
      /\ y.agps = PreStartPositioning(w.agps, s)
      /\ y.counter = IF w.fsm[s].silent THEN w.counter ELSE w.counter + 1
      /\ y.granted = w.granted \union {s}
      /\ SameBuf(y, w) /\ y.sent = w.sent /\ y.owed = w.owed /\ y.asked = w.asked
      /\ y.spare = w.spare /\ y.latest = w.latest
  BY <1>1, AcceptsGives
<1>6. v = IF w.fsm[s].locReq THEN EnterWaitLocUpdate(u, s, f.method, f.complete, cached)
          ELSE Goto([u EXCEPT !.fsm[s].cancelled = FALSE], s, "waitLocReq")
  BY DEF OnRespond, Accepts, Tells
<1> HIDE DEF y, h
<1>7. /\ u \in Worlds
      /\ u.asked[s] = IF Type[s] = "MT" THEN y.asked[s] - 1 ELSE y.asked[s]
      /\ \A t \in Session \ {s} : u.asked[t] = y.asked[t]
      /\ SameBuf(u, y) /\ u.fsm = y.fsm /\ u.agps = y.agps /\ u.sent = y.sent
      /\ u.owed = y.owed /\ u.granted = y.granted /\ u.counter = y.counter
      /\ u.spare = y.spare /\ u.latest = y.latest
  BY <1>5, TellsGives
<1> HIDE DEF u
<1>8. /\ u.fsm[s] = h /\ \A t \in Session \ {s} : u.fsm[t] = w.fsm[t] /\ u.asked[t] = w.asked[t]
      /\ u.asked[s] = IF Type[s] = "MT" THEN w.asked[s] - 1 ELSE w.asked[s]
      /\ u.counter = IF w.fsm[s].silent THEN w.counter ELSE w.counter + 1
      /\ u.granted = w.granted \union {s} /\ u.sent = w.sent /\ u.owed = w.owed
      /\ u.spare = w.spare /\ u.latest = w.latest
  BY <1>5, <1>7
<1>9. SameBuf(u, w)
  BY <1>5, <1>7 DEF SameBuf
<1>10. /\ u.agps.mode = w.agps.mode /\ u.agps.running = w.agps.running
       /\ u.agps.req[s] # "active"
       /\ \A t \in Session \ {s} : /\ u.agps.req[t] = w.agps.req[t]
                                   /\ u.agps.method[t] = w.agps.method[t]
  <2> DEFINE b == PreStartPositioning(w.agps, s)
  <2>1. /\ b.mode = w.agps.mode /\ b.running = w.agps.running
        /\ b.req[s] # "active"
        /\ \A t \in Session \ {s} : b.req[t] = w.agps.req[t] /\ b.method[t] = w.agps.method[t]
    BY <1>1, PreStartGives
  <2> HIDE DEF b
  <2>2. u.agps = b
    BY <1>5, <1>7 DEF b
  <2> QED
    BY <2>1, <2>2
<1>11. Touches(u, w, {s})
  BY <1>8, <1>10 DEF Touches
<1>12. Lives(w, s) /\ Lives(u, s)
  BY <1>4, <1>8 DEF Lives
<1>13. OneEmergency /\ LocationManagement => u.counter = Cardinality(Counted(u))
  <2>1. \A t \in Session \ {s} : u.fsm[t].counted <=> w.fsm[t].counted
    BY <1>8
  <2>2. u.fsm[s].counted <=> w.fsm[s].counted \/ ~w.fsm[s].silent
    BY <1>4, <1>8
  <2>3. OneEmergency /\ LocationManagement => w.counter = Cardinality(Counted(w))
    BY <1>1 DEF Almost, Shared
  <2>4. /\ (u.fsm[s].counted <=> w.fsm[s].counted) => Counted(u) = Counted(w)
        /\ u.fsm[s].counted /\ ~w.fsm[s].counted =>
              Cardinality(Counted(u)) = Cardinality(Counted(w)) + 1
    BY <2>1, CountedGives
  <2>5. CASE w.fsm[s].silent
    BY <1>8, <2>2, <2>3, <2>4, <2>5
  <2>6. CASE ~w.fsm[s].silent
    BY <1>2, <1>8, <2>2, <2>3, <2>4, <2>6
  <2> QED
    BY <2>5, <2>6
<1>14. GpsKept(u, w, s, D)
  BY <1>4, <1>8, <1>10 DEF GpsKept
<1>15. Almost(u, s, D, n)
  BY <1>1, <1>7, <1>8, <1>11, <1>12, <1>13, <1>14, AlmostKeeps
<1>16. OneEmergency =>
          /\ w.fsm[s].locReq => w.owed[s] > 0
          /\ w.owed[s] >= 0
          /\ Type[s] = "MT" => u.asked[s] >= 0
  BY <1>1, <1>2, <1>8 DEF Local, Replied
<1>17. s \in Emergency /\ Device \in {"either", "both"} => <<s, "refused">> \notin u.sent
  BY <1>1, <1>8 DEF Local
<1>18. CASE w.fsm[s].locReq
  <2>1. Ready(u, s, D)
    BY <1>2, <1>4, <1>8, <1>12, <1>16, <1>17, <1>18 DEF Ready
  <2>2. f.method \in Mode /\ f.complete \in BOOLEAN
    BY <1>1 DEF Fsms
  <2>3. v = EnterWaitLocUpdate(u, s, f.method, f.complete, cached)
    BY <1>6, <1>18
  <2> HIDE DEF v
  <2>4. Entered(v, u, s)
    BY <1>7, <2>2, <2>3, EnterGives
  <2>5. Base(v, D, n) /\ Called(v, u, s)
    BY <1>15, <2>1, <2>4, EnteredKeeps
  <2>6. Called(v, w, s)
    BY <1>2, <1>9, <1>11, <1>12, <2>5, CalledTwice
  <2>7. v.fsm[s].exited
    BY <1>4, <1>8, <2>4 DEF Entered
  <2> QED
    BY <2>5, <2>6, <2>7 DEF v
<1>19. CASE ~w.fsm[s].locReq
  <2> DEFINE k == [h EXCEPT !.cancelled = FALSE, !.state = "waitLocReq"]
             q == Put(u, s, k)
  <2>1. v = q
    <3>1. [u EXCEPT !.fsm[s].cancelled = FALSE] = Put(u, s, [h EXCEPT !.cancelled = FALSE])
      BY <1>7, <1>8 DEF Put, Worlds
    <3>2. [h EXCEPT !.cancelled = FALSE] \in Fsms
      BY <1>3 DEF Fsms
    <3> DEFINE h1 == [h EXCEPT !.cancelled = FALSE]
               u1 == Put(u, s, h1)
    <3>3. u1 \in Worlds /\ u1.fsm[s] = h1
      BY <1>7, <3>2, PutGives
    <3>4. Goto(u1, s, "waitLocReq") = Put(u1, s, [h1 EXCEPT !.state = "waitLocReq"])
      <4>1. "waitLocReq" \in FsmState
        BY DEF FsmState
      <4> HIDE DEF u1, h1
      <4>2. Goto(u1, s, "waitLocReq") = Put(u1, s, [u1.fsm[s] EXCEPT !.state = "waitLocReq"])
        BY <3>3, <4>1, GotoGives
      <4> QED
        BY <3>3, <4>2
    <3>5. k = [h1 EXCEPT !.state = "waitLocReq"]
      BY <1>3 DEF Fsms
    <3> HIDE DEF h1, k
    <3>6. Put(u1, s, k) = Put(u, s, k)
      BY <1>7 DEF Put, Worlds
    <3> QED
      BY <1>6, <1>19, <3>1, <3>4, <3>5, <3>6 DEF h1
  <2>2. k \in Fsms /\ k.state = "waitLocReq" /\ k.exited /\ (k.counted <=> h.counted)
    BY <1>3, <1>4 DEF Fsms, FsmState
  <2> HIDE DEF k
  <2>3. /\ q \in Worlds /\ q.fsm[s] = k /\ \A t \in Session \ {s} : q.fsm[t] = u.fsm[t]
        /\ Kept(q, u) /\ SameBuf(q, u)
        /\ q.agps = u.agps /\ q.sent = u.sent /\ q.owed = u.owed
    BY <1>7, <2>2, PutGives
  <2> HIDE DEF q, v
  <2>4. /\ v \in Worlds /\ v.fsm[s] = k /\ \A t \in Session \ {s} : v.fsm[t] = u.fsm[t]
        /\ v.spare = u.spare /\ v.latest = u.latest /\ v.counter = u.counter
        /\ v.asked = u.asked /\ v.granted = u.granted
        /\ v.agps = u.agps /\ v.sent = u.sent /\ v.owed = u.owed
    BY <2>1, <2>3 DEF Kept
  <2>5. Touches(v, u, {s})
    BY <2>4 DEF Touches
  <2>6. Lives(v, s) /\ v.fsm[s].state # "waitPriv"
    BY <2>2, <2>4 DEF Lives
  <2>7. OneEmergency /\ LocationManagement => v.counter = Cardinality(Counted(v))
    <3>1. \A t \in Session : v.fsm[t].counted <=> u.fsm[t].counted
      BY <1>8, <2>2, <2>4
    <3>2. Counted(v) = Counted(u)
      BY <3>1 DEF Counted
    <3> QED
      BY <1>13, <2>4, <3>2
  <2>8. GpsKept(v, u, s, D)
    BY <1>10, <2>2, <2>4 DEF GpsKept
  <2>9. Almost(v, s, D, n)
    BY <1>12, <1>15, <2>4, <2>5, <2>6, <2>7, <2>8, AlmostKeeps
  <2>10. Local(v, s)
    <3>1. Consented(v, s)
      BY <1>8, <2>4 DEF Consented
    <3>2. Replied(v, s)
      BY <1>8, <1>16, <2>2, <2>4 DEF Replied
    <3>3. Tidied(v, s)
      BY <1>10, <2>2, <2>4, <2>6 DEF Tidied
    <3> QED
      BY <1>2, <1>10, <1>17, <2>2, <2>4, <2>6, <3>1, <3>2, <3>3 DEF Local
  <2>11. SameBuf(v, w) /\ Touches(v, w, {s})
    <3>1. SameBuf(v, w)
      BY <1>9, <2>1, <2>3 DEF SameBuf
    <3> QED
      BY <1>11, <2>5, <3>1, TouchesTwice
  <2>12. Called(v, w, s) /\ v.fsm[s].exited
    BY <1>12, <2>2, <2>4, <2>6, <2>11 DEF Called
  <2>13. Base(v, D, n)
    BY <2>9, <2>10, AlmostAndLocal
  <2> QED
    BY <2>12, <2>13 DEF v
<1> QED
  BY <1>18, <1>19

\* A session that waits for no position leaves the others as they are.
LEMMA AsideKeeps ==
    ASSUME NEW v \in Worlds, NEW w, NEW s \in Session, NEW D, NEW n,
           Almost(w, s, D, n), Touches(v, w, {s}), Lives(w, s), Lives(v, s),
           v.spare = w.spare, v.latest = w.latest, v.counter = w.counter,
           v.fsm[s].counted <=> w.fsm[s].counted,
           v.fsm[s].state # "waitLocUpdate",
           v.agps = w.agps \/ v.agps = StopPositioning(w.agps, s),
           Local(v, s)
    PROVE  Base(v, D, n)
<1>1. w \in Worlds /\ Shared(w, D) /\ w.agps \in AgpsState
  BY DEF Almost, Worlds
<1>2. OneEmergency /\ LocationManagement => v.counter = Cardinality(Counted(v))
  <2>1. \A t \in Session : v.fsm[t].counted <=> w.fsm[t].counted
    BY DEF Touches
  <2>2. Counted(v) = Counted(w)
    BY <2>1 DEF Counted
  <2> QED
    BY <1>1, <2>2 DEF Shared
<1>3. GpsKept(v, w, s, D)
  <2>1. CASE v.agps = w.agps
    BY <1>1, <2>1 DEF GpsKept, Shared
  <2>2. CASE v.agps = StopPositioning(w.agps, s)
    <3> DEFINE b == StopPositioning(w.agps, s)
    <3>1. /\ b.req[s] = "none"
          /\ \A t \in Session \ {s} : w.agps.req[t] = "active" => b.mode = w.agps.mode /\ b.running
      BY <1>1, StopGives
    <3> HIDE DEF b
    <3>2. v.agps = b
      BY <2>2 DEF b
    <3> QED
      BY <3>1, <3>2 DEF GpsKept
  <2> QED
    BY <2>1, <2>2
<1>4. Almost(v, s, D, n)
  BY <1>2, <1>3, AlmostKeeps
<1> QED
  BY <1>4, AlmostAndLocal

\* A session that is no longer accepted.
Revoke(w, s) == [w EXCEPT !.granted = @ \ {s}]

\* What a cancel takes from the session, whatever its state.
LEMMA RevokeGives ==
    ASSUME NEW w \in Worlds, NEW s \in Session
    PROVE  LET v == Revoke(w, s) IN
           /\ v \in Worlds
           /\ v.granted = w.granted \ {s}
           /\ SameBuf(v, w) /\ v.fsm = w.fsm /\ v.agps = w.agps /\ v.sent = w.sent
           /\ v.owed = w.owed /\ v.asked = w.asked /\ v.counter = w.counter
           /\ v.spare = w.spare /\ v.latest = w.latest
<1> DEFINE g == w.granted \ {s}
           v == [w EXCEPT !.granted = g]
<1>1. g \in SUBSET Session
  BY DEF Worlds
<1>2. Revoke(w, s) = v
  BY DEF Revoke
<1> HIDE DEF g
<1>3. /\ v \in Worlds /\ v.granted = g
      /\ v.fsm = w.fsm /\ v.agps = w.agps /\ v.sent = w.sent /\ v.owed = w.owed
      /\ v.asked = w.asked /\ v.counter = w.counter
      /\ v.spare = w.spare /\ v.latest = w.latest
      /\ v.buf = w.buf /\ v.timer = w.timer /\ v.known = w.known
  BY <1>1 DEF Worlds
<1> HIDE DEF v
<1> QED
  BY <1>2, <1>3 DEF SameBuf, g

\* What a rejection does to a session that waits for an answer.
LEMMA RejectKeeps ==
    ASSUME NEW w, NEW s \in Session, NEW D, NEW n, NEW cached \in BOOLEAN,
           Base(w, D, n), w.fsm[s].state = "waitPriv", w.sent = {}
    PROVE  LET v == OnRespond(w, s, "rejected", cached) IN
           /\ Base(v, D, n) /\ Called(v, w, s) /\ v.fsm[s].exited
           /\ SameBuf(v, w)
<1> DEFINE f == [w.fsm[s] EXCEPT !.exited = TRUE, !.locReq = FALSE]
           x == Put(w, s, f)
           y == Revoke(x, s)
           g == [f EXCEPT !.state = "idle"]
           z == Put(y, s, g)
           v == OnRespond(w, s, "rejected", cached)
<1>1. Almost(w, s, D, n) /\ Local(w, s) /\ w \in Worlds /\ w.fsm[s] \in Fsms
  <2>1. Almost(w, s, D, n) /\ Local(w, s)
    BY AlmostAndLocal
  <2> QED
    BY <2>1 DEF Almost, Worlds
<1>2. f \in Fsms
  BY <1>1 DEF Fsms
<1>3. /\ x \in Worlds /\ x.fsm[s] = f /\ \A t \in Session \ {s} : x.fsm[t] = w.fsm[t]
      /\ Kept(x, w) /\ SameBuf(x, w)
      /\ x.agps = w.agps /\ x.sent = w.sent /\ x.owed = w.owed
  BY <1>1, <1>2, PutGives
<1>4. x = [w EXCEPT !.fsm[s].exited = TRUE, !.fsm[s].locReq = FALSE]
  BY <1>1 DEF Put, Worlds
<1>5. v = IF Type[s] = "NI" THEN SendNetLocResponse(Goto(y, s, "idle"), s, "denied")
          ELSE Tells(Goto(y, s, "idle"), s)
  <2> HIDE DEF x, f
  <2> QED
    BY <1>4 DEF OnRespond, Tells, Revoke
<1> HIDE DEF x
<1>6. /\ y \in Worlds /\ y.granted = w.granted \ {s} /\ y.fsm = x.fsm
      /\ SameBuf(y, w) /\ y.agps = w.agps /\ y.sent = w.sent
      /\ y.owed = w.owed /\ y.asked = w.asked /\ y.counter = w.counter
      /\ y.spare = w.spare /\ y.latest = w.latest
  <2>1. /\ y \in Worlds
        /\ y.granted = x.granted \ {s}
        /\ SameBuf(y, x) /\ y.fsm = x.fsm /\ y.agps = x.agps /\ y.sent = x.sent
        /\ y.owed = x.owed /\ y.asked = x.asked /\ y.counter = x.counter
        /\ y.spare = x.spare /\ y.latest = x.latest
    BY <1>3, RevokeGives
  <2> HIDE DEF y
  <2> QED
    BY <1>3, <2>1 DEF Kept, SameBuf
<1> HIDE DEF y
<1>7. /\ g \in Fsms /\ g.state = "idle" /\ g.exited /\ ~g.locReq
      /\ g.counted <=> w.fsm[s].counted
  BY <1>1 DEF Fsms, FsmState
<1>8. Goto(y, s, "idle") = z
  <2>1. "idle" \in FsmState
    BY DEF FsmState
  <2>2. Goto(y, s, "idle") = Put(y, s, [y.fsm[s] EXCEPT !.state = "idle"])
    BY <1>6, <2>1, GotoGives
  <2> QED
    BY <1>3, <1>6, <2>2
<1> HIDE DEF f, g
<1>9. /\ z \in Worlds /\ z.fsm[s] = g /\ \A t \in Session \ {s} : z.fsm[t] = w.fsm[t]
      /\ z.spare = w.spare /\ z.latest = w.latest /\ z.counter = w.counter
      /\ z.asked = w.asked /\ z.granted = w.granted \ {s}
      /\ SameBuf(z, w) /\ z.agps = w.agps /\ z.sent = {} /\ z.owed = w.owed
  <2>1. /\ z \in Worlds /\ z.fsm[s] = g /\ \A t \in Session \ {s} : z.fsm[t] = y.fsm[t]
        /\ Kept(z, y) /\ SameBuf(z, y)
        /\ z.agps = y.agps /\ z.sent = y.sent /\ z.owed = y.owed
    BY <1>6, <1>7, PutGives
  <2> HIDE DEF z
  <2> QED
    BY <1>3, <1>6, <2>1 DEF Kept, SameBuf
<1>10. v = IF Type[s] = "NI" THEN SendNetLocResponse(z, s, "denied") ELSE Tells(z, s)
  BY <1>5, <1>8
<1> HIDE DEF z
<1>11. /\ v \in Worlds /\ v.fsm = z.fsm /\ v.agps = w.agps /\ SameBuf(v, w)
       /\ v.spare = w.spare /\ v.latest = w.latest /\ v.counter = w.counter
       /\ v.granted = w.granted \ {s}
       /\ v.owed[s] = IF Type[s] = "NI" THEN w.owed[s] - 1 ELSE w.owed[s]
       /\ v.asked[s] = IF Type[s] = "MT" THEN w.asked[s] - 1 ELSE w.asked[s]
       /\ \A t \in Session \ {s} : v.owed[t] = w.owed[t] /\ v.asked[t] = w.asked[t]
       /\ v.sent = {} \/ v.sent = {<<s, "denied">>}
  <2>1. CASE Type[s] = "NI"
    <3> DEFINE q == SendNetLocResponse(z, s, "denied")
    <3>1. "denied" \in Responses
      BY DEF Responses
    <3>2. /\ q \in Worlds /\ q.sent = z.sent \union {<<s, "denied">>}
          /\ q.owed[s] = z.owed[s] - 1 /\ \A t \in Session \ {s} : q.owed[t] = z.owed[t]
          /\ Kept(q, z) /\ SameBuf(q, z) /\ q.fsm = z.fsm /\ q.agps = z.agps
      BY <1>9, <3>1, ResponseGives
    <3>3. v = q
      BY <1>10, <2>1
    <3> HIDE DEF q, v
    <3> QED
      BY <1>9, <2>1, <3>2, <3>3 DEF Kept, SameBuf
  <2>2. CASE Type[s] # "NI"
    <3> DEFINE q == Tells(z, s)
    <3>1. /\ q \in Worlds
          /\ q.asked[s] = IF Type[s] = "MT" THEN z.asked[s] - 1 ELSE z.asked[s]
          /\ \A t \in Session \ {s} : q.asked[t] = z.asked[t]
          /\ SameBuf(q, z) /\ q.fsm = z.fsm /\ q.agps = z.agps /\ q.sent = z.sent
          /\ q.owed = z.owed /\ q.granted = z.granted /\ q.counter = z.counter
          /\ q.spare = z.spare /\ q.latest = z.latest
      BY <1>9, TellsGives
    <3>2. v = q
      BY <1>10, <2>2
    <3> HIDE DEF q, v
    <3> QED
      BY <1>9, <2>2, <3>1, <3>2 DEF SameBuf
  <2> QED
    BY <2>1, <2>2
<1> HIDE DEF v
<1>12. /\ v.fsm[s] = g /\ \A t \in Session \ {s} : v.fsm[t] = w.fsm[t]
       /\ \A what : <<s, what>> \in v.sent => what = "denied"
  BY <1>9, <1>11
<1>13. Touches(v, w, {s})
  BY <1>11, <1>12 DEF Touches
<1>14. Lives(w, s) /\ Lives(v, s)
  BY <1>7, <1>12 DEF Lives
<1>15. Local(v, s)
  <2>1. Consented(v, s)
    BY <1>7, <1>12 DEF Consented, Place
  <2>2. Replied(v, s)
    <3>1. w.owed[s] \in Int /\ w.asked[s] \in Int
      BY <1>1 DEF Worlds
    <3>2. Type[s] \in {"MT", "NI"}
      BY <1>1 DEF Local, External
    <3>3. Replied(w, s)
      BY <1>1 DEF Local
    <3> QED
      BY <1>7, <1>11, <1>12, <3>1, <3>2, <3>3 DEF Replied
  <2>3. Tidied(v, s)
    BY <1>1, <1>7, <1>11, <1>12, <1>14 DEF Local, Tidied
  <2>4. w.fsm[s].counted => s \in External
    BY <1>1 DEF Local
  <2> QED
    BY <1>7, <1>12, <1>14, <2>1, <2>2, <2>3, <2>4 DEF Local
<1>16. Base(v, D, n)
  BY <1>1, <1>7, <1>11, <1>12, <1>13, <1>14, <1>15, AsideKeeps
<1>17. Called(v, w, s) /\ v.fsm[s].exited
  BY <1>7, <1>11, <1>12, <1>13, <1>14 DEF Called
<1> QED
  BY <1>11, <1>16, <1>17 DEF v

\* The privacy response, in every state: only a session that waits hears it.
LEMMA RespondKeeps ==
    ASSUME NEW w, NEW s \in Session, NEW D, NEW n, NEW cached \in BOOLEAN,
           NEW answer \in {"accepted", "rejected"},
           Base(w, D, n), w.sent = {}, s \in Emergency /\ w.fsm[s].locReq => s \in D
    PROVE  LET v == OnRespond(w, s, answer, cached) IN
           /\ Base(v, D, n)
           /\ w.fsm[s].state # "waitPriv" => v = w
           /\ w.fsm[s].state = "waitPriv" => Called(v, w, s) /\ v.fsm[s].exited
           /\ answer = "rejected" => SameBuf(v, w)
<1>1. CASE w.fsm[s].state # "waitPriv"
  <2>1. OnRespond(w, s, answer, cached) = w
    BY <1>1 DEF OnRespond
  <2> QED
    BY <1>1, <2>1 DEF SameBuf
<1>2. CASE w.fsm[s].state = "waitPriv" /\ answer = "accepted"
  BY <1>2, AcceptKeeps
<1>3. CASE w.fsm[s].state = "waitPriv" /\ answer = "rejected"
  BY <1>3, RejectKeeps
<1> QED
  BY <1>1, <1>2, <1>3

\* What a cancel does to a session: it is answered if it waits for a position,
\* and will be if it asks for one again.
LEMMA CancelKeeps ==
    ASSUME NEW w, NEW s \in Session, NEW D, NEW n,
           Base(w, D, n), w.sent = {}
    PROVE  LET v == OnCancel(w, s) IN
           Base(v, D, n) /\ (v = w \/ (Called(v, w, s) /\ SameBuf(v, w)))
<1> DEFINE f == w.fsm[s]
           x == Revoke(w, s)
           v == OnCancel(w, s)
<1>1. Almost(w, s, D, n) /\ Local(w, s) /\ w \in Worlds /\ f \in Fsms
  <2>1. Almost(w, s, D, n) /\ Local(w, s)
    BY AlmostAndLocal
  <2> QED
    BY <2>1 DEF Almost, Worlds
<1>2. /\ x \in Worlds /\ x.granted = w.granted \ {s} /\ x.fsm = w.fsm
      /\ SameBuf(x, w) /\ x.agps = w.agps /\ x.sent = w.sent
      /\ x.owed = w.owed /\ x.asked = w.asked /\ x.counter = w.counter
      /\ x.spare = w.spare /\ x.latest = w.latest
  BY <1>1, RevokeGives
<1>3. CASE s \in Emergency \/ f.state = "none"
  <2>1. v = w
    BY <1>3 DEF OnCancel
  <2> QED
    BY <2>1
<1>4. f.state \in FsmState /\ w.owed[s] \in Int /\ w.asked[s] \in Int
  BY <1>1 DEF Fsms, Worlds
<1>5. Local(w, s) /\ Consented(w, s) /\ Replied(w, s) /\ Tidied(w, s)
  BY <1>1 DEF Local
<1>6. ASSUME NEW g \in Fsms, g.state \in {"idle", "waitLocReq"},
             g.state = "waitLocReq" => g.cancelled,
             g.exited <=> f.exited, g.counted <=> f.counted, f.state # "none",
             s \notin Emergency,
             NEW u \in Worlds, SameBuf(u, w), u.granted = w.granted \ {s},
             u.spare = w.spare, u.latest = w.latest, u.counter = w.counter,
             u.fsm[s] = g, \A t \in Session \ {s} : u.fsm[t] = w.fsm[t],
             \A t \in Session \ {s} : u.owed[t] = w.owed[t] /\ u.asked[t] = w.asked[t],
             \A t \in Session, what \in Responses : <<t, what>> \in u.sent => t = s /\ what \in {"cancelled", "idleCancelled"},
             \/ u.agps = w.agps /\ f.state # "waitLocUpdate"
             \/ u.agps = StopPositioning(w.agps, s),
             OneEmergency =>
                 u.owed[s] >= 0 /\ (Type[s] = "MT" => u.asked[s] >= 0)
      PROVE  Base(u, D, n) /\ Called(u, w, s)
  <2>1. /\ u.agps.req[s] = "active" => w.agps.req[s] = "active" /\ f.state # "waitLocUpdate"
        /\ \A t \in Session \ {s} : u.agps.req[t] = w.agps.req[t] /\ u.agps.method[t] = w.agps.method[t]
    <3>1. CASE u.agps = w.agps /\ f.state # "waitLocUpdate"
      BY <3>1
    <3>2. CASE u.agps = StopPositioning(w.agps, s)
      <4>1. w.agps \in AgpsState
        BY <1>1 DEF Worlds
      <4> QED
        BY <3>2, <4>1, StopGives
    <3> QED
      BY <1>6, <3>1, <3>2
  <2>2. Lives(w, s) /\ Lives(u, s) /\ u.fsm[s].state \notin {"waitPriv", "waitLocUpdate"}
    BY <1>6 DEF Lives
  <2>3. \A t \in Session \ {s}, what \in Responses : <<t, what>> \in u.sent <=> <<t, what>> \in w.sent
    BY <1>6
  <2>4. Touches(u, w, {s})
    BY <1>6, <2>1, <2>3 DEF Touches
  <2>5. Local(u, s)
    <3>1. \A what \in Place : <<s, what>> \notin u.sent
      BY <1>6 DEF Place, Responses
    <3>2. Consented(u, s)
      BY <1>6, <3>1 DEF Consented
    <3>3. Replied(u, s)
      BY <1>6, <2>2 DEF Replied
    <3>4. Tidied(u, s)
      BY <1>5, <1>6, <2>1, <2>2 DEF Tidied
    <3>5. f.counted => s \in External
      BY <1>5 DEF Local
    <3> QED
      BY <1>6, <2>2, <3>2, <3>3, <3>4, <3>5 DEF Local
  <2>6. Base(u, D, n)
    BY <1>1, <1>6, <2>2, <2>4, <2>5, AsideKeeps
  <2>7. Called(u, w, s)
    BY <1>6, <2>2, <2>4 DEF Called
  <2> QED
    BY <2>6, <2>7
<1>7. {"cancelled", "idleCancelled"} \subseteq Responses /\ {"idle", "waitLocReq"} \subseteq FsmState
  BY DEF Responses, FsmState
<1>8. \A t \in Session, what \in Responses : <<t, what>> \notin x.sent
  BY <1>2
<1> HIDE DEF x
<1>9. CASE s \notin Emergency /\ f.state = "idle"
  <2> DEFINE S == x.sent \union {<<s, "idleCancelled">>}
             u == [x EXCEPT !.sent = S]
  <2>1. v = u
    BY <1>9 DEF OnCancel, Revoke, x
  <2>2. S \in SUBSET (Session \X Responses)
    BY <1>2, <1>7 DEF Worlds
  <2>3. \A t \in Session, what \in Responses :
            <<t, what>> \in S => t = s /\ what \in {"cancelled", "idleCancelled"}
    BY <1>8
  <2> HIDE DEF S
  <2>4. /\ u \in Worlds /\ u.sent = S /\ SameBuf(u, x) /\ u.granted = x.granted
        /\ u.spare = x.spare /\ u.latest = x.latest /\ u.counter = x.counter
        /\ u.fsm = x.fsm /\ u.agps = x.agps /\ u.asked = x.asked /\ u.owed = x.owed
    BY <1>2, <2>2 DEF Worlds, SameBuf
  <2> HIDE DEF u, v
  <2>5. /\ u.granted = w.granted \ {s} /\ SameBuf(u, w)
        /\ u.spare = w.spare /\ u.latest = w.latest /\ u.counter = w.counter
        /\ u.fsm = w.fsm /\ u.agps = w.agps /\ u.asked = w.asked /\ u.owed = w.owed
    BY <1>2, <2>4 DEF SameBuf
  <2>6. OneEmergency => u.owed[s] >= 0 /\ (Type[s] = "MT" => u.asked[s] >= 0)
    BY <1>5, <2>5 DEF Replied
  <2>7. Base(u, D, n) /\ Called(u, w, s)
    BY <1>1, <1>6, <1>9, <2>3, <2>4, <2>5, <2>6
  <2> QED
    BY <2>1, <2>5, <2>7 DEF v
<1>10. CASE s \notin Emergency /\ f.state = "waitPriv"
  <2> DEFINE g == [f EXCEPT !.locReq = FALSE]
             y == Put(x, s, g)
             h == [g EXCEPT !.state = "idle"]
             z == SendMTLRResponse(y, s)
             u == Put(z, s, h)
  <2>1. g \in Fsms /\ h \in Fsms /\ h.state = "idle" /\ h.exited = f.exited /\ h.counted = f.counted
    BY <1>1 DEF Fsms, FsmState
  <2>2. v = Goto(z, s, "idle")
    <3>1. [x EXCEPT !.fsm[s].locReq = FALSE] = y
      BY <1>2 DEF Put, Worlds
    <3> HIDE DEF y
    <3> QED
      BY <1>10, <3>1 DEF OnCancel, Revoke, x
  <2> HIDE DEF g
  <2>3. /\ y \in Worlds /\ y.fsm[s] = g /\ \A t \in Session \ {s} : y.fsm[t] = x.fsm[t]
        /\ Kept(y, x) /\ SameBuf(y, x)
        /\ y.agps = x.agps /\ y.sent = x.sent /\ y.owed = x.owed
    BY <1>2, <2>1, PutGives
  <2> HIDE DEF y
  <2>4. /\ z \in Worlds
        /\ z.asked[s] = y.asked[s] - 1 /\ \A t \in Session \ {s} : z.asked[t] = y.asked[t]
        /\ SameBuf(z, y) /\ z.fsm = y.fsm /\ z.agps = y.agps /\ z.sent = y.sent
        /\ z.owed = y.owed /\ z.granted = y.granted /\ z.counter = y.counter
        /\ z.spare = y.spare /\ z.latest = y.latest
    BY <2>3, MtlrGives
  <2> HIDE DEF z
  <2>5. Goto(z, s, "idle") = u
    <3>1. Goto(z, s, "idle") = Put(z, s, [z.fsm[s] EXCEPT !.state = "idle"])
      BY <1>7, <2>4, GotoGives
    <3> QED
      BY <2>3, <2>4, <3>1
  <2> HIDE DEF h
  <2>6. /\ u \in Worlds /\ u.fsm[s] = h /\ \A t \in Session \ {s} : u.fsm[t] = z.fsm[t]
        /\ Kept(u, z) /\ SameBuf(u, z)
        /\ u.agps = z.agps /\ u.sent = z.sent /\ u.owed = z.owed
    BY <2>1, <2>4, PutGives
  <2> HIDE DEF u, v
  <2>7. /\ u.granted = w.granted \ {s} /\ SameBuf(u, w)
        /\ u.spare = w.spare /\ u.latest = w.latest /\ u.counter = w.counter
        /\ u.agps = w.agps /\ u.owed = w.owed /\ u.sent = x.sent
        /\ u.asked[s] = w.asked[s] - 1
        /\ \A t \in Session \ {s} : u.fsm[t] = w.fsm[t] /\ u.asked[t] = w.asked[t]
    BY <1>2, <2>3, <2>4, <2>6 DEF Kept, SameBuf
  <2>8. \A t \in Session, what \in Responses : <<t, what>> \in u.sent => t = s /\ what \in {"cancelled", "idleCancelled"}
    BY <1>8, <2>7
  <2>9. OneEmergency =>
            u.owed[s] >= 0 /\ (Type[s] = "MT" => u.asked[s] >= 0)
    BY <1>4, <1>5, <1>10, <2>7 DEF Replied
  <2>10. Base(u, D, n) /\ Called(u, w, s)
    BY <1>6, <1>10, <2>1, <2>6, <2>7, <2>8, <2>9
  <2> QED
    BY <2>2, <2>5, <2>7, <2>10 DEF v
<1>11. CASE s \notin Emergency /\ f.state = "waitLocUpdate"
  <2> DEFINE a == StopPositioning(w.agps, s)
             y == [x EXCEPT !.agps = a]
             h == [f EXCEPT !.state = "idle"]
             z == SendNetLocResponse(y, s, "cancelled")
             u == Put(z, s, h)
  <2>1. h \in Fsms /\ h.state = "idle" /\ h.exited = f.exited /\ h.counted = f.counted
    BY <1>1 DEF Fsms, FsmState
  <2>2. v = Goto(z, s, "idle")
    <3>1. [x EXCEPT !.agps = StopPositioning(@, s)] = y
      BY <1>2
    <3> HIDE DEF y
    <3> QED
      BY <1>11, <3>1 DEF OnCancel, Revoke, x
  <2>3. a \in AgpsState
    BY <1>1, StopGives DEF Worlds
  <2> HIDE DEF a
  <2>4. /\ y \in Worlds /\ y.agps = a
        /\ Kept(y, x) /\ SameBuf(y, x) /\ y.fsm = x.fsm /\ y.sent = x.sent /\ y.owed = x.owed
    BY <1>2, <2>3, AgpsGives
  <2> HIDE DEF y
  <2>5. /\ z \in Worlds
        /\ z.sent = y.sent \union {<<s, "cancelled">>}
        /\ z.owed[s] = y.owed[s] - 1 /\ \A t \in Session \ {s} : z.owed[t] = y.owed[t]
        /\ Kept(z, y) /\ SameBuf(z, y) /\ z.fsm = y.fsm /\ z.agps = y.agps
    BY <1>7, <2>4, ResponseGives
  <2> HIDE DEF z
  <2>6. Goto(z, s, "idle") = u
    <3>1. Goto(z, s, "idle") = Put(z, s, [z.fsm[s] EXCEPT !.state = "idle"])
      BY <1>7, <2>5, GotoGives
    <3> QED
      BY <1>2, <2>4, <2>5, <3>1
  <2> HIDE DEF h
  <2>7. /\ u \in Worlds /\ u.fsm[s] = h /\ \A t \in Session \ {s} : u.fsm[t] = z.fsm[t]
        /\ Kept(u, z) /\ SameBuf(u, z)
        /\ u.agps = z.agps /\ u.sent = z.sent /\ u.owed = z.owed
    BY <2>1, <2>5, PutGives
  <2> HIDE DEF u, v
  <2>8. /\ u.granted = w.granted \ {s} /\ SameBuf(u, w)
        /\ u.spare = w.spare /\ u.latest = w.latest /\ u.counter = w.counter
        /\ u.agps = a /\ u.asked = w.asked
        /\ u.owed[s] = w.owed[s] - 1 /\ u.sent = x.sent \union {<<s, "cancelled">>}
        /\ \A t \in Session \ {s} : u.fsm[t] = w.fsm[t] /\ u.owed[t] = w.owed[t]
    BY <1>2, <2>4, <2>5, <2>7 DEF Kept, SameBuf
  <2>9. \A t \in Session, what \in Responses : <<t, what>> \in u.sent => t = s /\ what \in {"cancelled", "idleCancelled"}
    BY <1>8, <2>8
  <2>10. OneEmergency =>
            u.owed[s] >= 0 /\ (Type[s] = "MT" => u.asked[s] >= 0)
    BY <1>4, <1>5, <1>11, <2>8 DEF Replied
  <2>11. u.agps = StopPositioning(w.agps, s)
    BY <2>8 DEF a
  <2>12. Base(u, D, n) /\ Called(u, w, s)
    BY <1>6, <1>11, <2>1, <2>7, <2>8, <2>9, <2>10, <2>11
  <2> QED
    BY <2>2, <2>6, <2>8, <2>12 DEF v
<1>12. CASE s \notin Emergency /\ f.state = "waitLocReq"
  <2> DEFINE h == [f EXCEPT !.cancelled = TRUE]
             u == Put(x, s, h)
  <2>1. /\ h \in Fsms /\ h.state = "waitLocReq" /\ h.cancelled
        /\ h.exited = f.exited /\ h.counted = f.counted
    BY <1>1, <1>12 DEF Fsms
  <2>2. v = u
    <3>1. [x EXCEPT !.fsm[s].cancelled = TRUE] = u
      BY <1>2 DEF Put, Worlds
    <3> HIDE DEF u
    <3> QED
      BY <1>12, <3>1 DEF OnCancel, Revoke, x
  <2> HIDE DEF h
  <2>3. /\ u \in Worlds /\ u.fsm[s] = h /\ \A t \in Session \ {s} : u.fsm[t] = x.fsm[t]
        /\ Kept(u, x) /\ SameBuf(u, x)
        /\ u.agps = x.agps /\ u.sent = x.sent /\ u.owed = x.owed
    BY <1>2, <2>1, PutGives
  <2> HIDE DEF u, v
  <2>4. /\ u.granted = w.granted \ {s} /\ SameBuf(u, w)
        /\ u.spare = w.spare /\ u.latest = w.latest /\ u.counter = w.counter
        /\ u.agps = w.agps /\ u.asked = w.asked /\ u.owed = w.owed /\ u.sent = x.sent
        /\ \A t \in Session \ {s} : u.fsm[t] = w.fsm[t]
    BY <1>2, <2>3 DEF Kept, SameBuf
  <2>5. \A t \in Session, what \in Responses : <<t, what>> \in u.sent => t = s /\ what \in {"cancelled", "idleCancelled"}
    BY <1>8, <2>4
  <2>6. OneEmergency =>
            u.owed[s] >= 0 /\ (Type[s] = "MT" => u.asked[s] >= 0)
    BY <1>4, <1>5, <2>4 DEF Replied
  <2>7. Base(u, D, n) /\ Called(u, w, s)
    BY <1>6, <1>12, <2>1, <2>3, <2>4, <2>5, <2>6
  <2> QED
    BY <2>2, <2>4, <2>7 DEF v
<1> QED
  BY <1>3, <1>4, <1>9, <1>10, <1>11, <1>12 DEF FsmState

-----------------------------------------------------------------------------
(***************************************************************************)
(* The state a privacy request is left in.                                 *)
(***************************************************************************)

\* A change to what only the privacy handler has leaves the sessions alone.
SameSessions(v, w) ==
    /\ v.fsm = w.fsm /\ v.agps = w.agps /\ v.sent = w.sent /\ v.owed = w.owed
    /\ v.spare = w.spare /\ v.latest = w.latest /\ v.counter = w.counter
    /\ v.asked = w.asked /\ v.granted = w.granted

\* The sessions are what they were.
LEMMA SameSessionsGives ==
    ASSUME NEW v, NEW w, NEW n, SameSessions(v, w)
    PROVE  /\ WaitsForPrivacy(v) = WaitsForPrivacy(w)
           /\ Later(v, n) = Later(w, n) /\ Quiet(v) = Quiet(w)
           /\ \A t : Lives(v, t) <=> Lives(w, t)
BY DEF SameSessions, Lives, WaitsForPrivacy, Later, Quiet

\* What is true of the sessions stays true.
LEMMA SameSessionsKeeps ==
    ASSUME NEW v \in Worlds, NEW w, NEW D, NEW n, SameSessions(v, w), Base(w, D, n)
    PROVE  Base(v, D, n)
<1>1. /\ v.fsm = w.fsm /\ v.agps = w.agps /\ v.sent = w.sent /\ v.owed = w.owed
      /\ v.spare = w.spare /\ v.latest = w.latest /\ v.counter = w.counter
      /\ v.asked = w.asked /\ v.granted = w.granted
  BY DEF SameSessions
<1>2. \A t : Lives(v, t) <=> Lives(w, t)
  BY <1>1 DEF Lives
<1>3. ASSUME NEW t \in Session, Local(w, t)
      PROVE  Local(v, t)
  BY <1>1, <1>2, <1>3 DEF Local, Consented, Replied, Tidied
<1>4. Shared(w, D) => Shared(v, D)
  <2>1. Counted(v) = Counted(w)
    BY <1>1 DEF Counted
  <2> QED
    BY <1>1, <1>2, <2>1 DEF Shared
<1> QED
  BY <1>2, <1>3, <1>4 DEF Base

\* A request at i gets the state its handler decided on: before is the world the
\* request was found in, w the world its session's calls led to.
MaySet(before, w, s, i, state, P, n) ==
    /\ before \in Worlds /\ w \in Worlds
    /\ i \in 1..Len(before.buf) /\ before.buf[i].session = s
    /\ SameBuf(w, before) \/ (Drops(w, before, s) /\ s \notin Emergency)
    /\ state \in {"responded", "completed"}
    /\ Privacy(w, P, n) /\ s \notin P /\ P \intersect Emergency = {}
    /\ Entries(before.buf)
    /\ NewAt(before.buf) \subseteq {j \in 1..Len(before.buf) :
           j = i \/ (before.buf[i].emergency /\ before.buf[j].emergency)}
    /\ state = "completed" =>
           /\ SameBuf(w, before)
           /\ s \in Quiet(w)
           /\ OneEmergency /\ s \in w.known =>
                 \E k \in 1..i - 1 : before.buf[k].session = s

\* What SetState leaves: the requests of the others are as they were, and none
\* is new.
SetTo(v, before, w, s, i, P, n) ==
    /\ v \in Worlds /\ SameSessions(v, w)
    /\ Privacy(v, P, n)
    /\ NewAt(v.buf) = {}
    /\ before.buf[i].state = "new" /\ TimerOK(w) => TimerOK(v)
    /\ v.timer = w.timer
    /\ Drops(w, before, s) /\ before.buf[i].state = "waiting"
          /\ (\A j \in 1..i - 1 : before.buf[j].session # s) => v = w

\* SetState gives the request at i its state, whatever the calls since the
\* world before removed.
LEMMA SetStateKeeps ==
    ASSUME NEW before, NEW w, NEW s \in Session, NEW i, NEW state, NEW P, NEW n,
           MaySet(before, w, s, i, state, P, n)
    PROVE  SetTo(SetState(before, w, i, state), before, w, s, i, P, n)
<1> SUFFICES LET v == SetState(before, w, i, state) IN
             /\ v \in Worlds /\ SameSessions(v, w)
             /\ Privacy(v, P, n)
             /\ NewAt(v.buf) = {}
             /\ before.buf[i].state = "new" /\ TimerOK(w) => TimerOK(v)
             /\ v.timer = w.timer
             /\ Drops(w, before, s) /\ before.buf[i].state = "waiting"
                   /\ (\A j \in 1..i - 1 : before.buf[j].session # s) => v = w
  BY Zenon DEF SetTo
<1> USE DEF MaySet
<1> DEFINE b == before.buf
           k == Find(b, s)
           v == SetState(before, w, i, state)
<1>1. b \in Seq(PrivacyRequest) /\ w.buf \in Seq(PrivacyRequest) /\ Len(b) \in Nat /\ i \in 1..Len(b)
  BY DEF Worlds
<1>2. \/ k = 0 /\ \A j \in 1..Len(b) : b[j].session # s
      \/ k \in 1..Len(b) /\ b[k].session = s /\ \A j \in 1..k - 1 : b[j].session # s
  BY <1>1, FindGives
<1>3. k \in 1..Len(b) /\ b[k].session = s /\ \A j \in 1..k - 1 : b[j].session # s
  BY <1>2
<1>4. k <= i
  <2>1. ~(i < k)
    BY <1>3
  <2> QED
    BY <1>3, <2>1
<1>5. v = IF Len(w.buf) = Len(b)
          THEN [w EXCEPT !.buf = [j \in DOMAIN @ |->
                  IF j = i \/ (b[i].emergency /\ @[j].emergency)
                  THEN [@[j] EXCEPT !.state = state] ELSE @[j]]]
          ELSE IF k = i THEN w
          ELSE [w EXCEPT !.buf[i - 1].state = state]
  BY DEF SetState
<1>6. BufferOK(w.buf, P, w.known, Later(w, n), Quiet(w))
  BY DEF Privacy
<1>7. \A j \in 1..Len(b) : (b[j].emergency <=> b[j].session \in Emergency)
                           /\ (b[j].emergency => b[j].state # "waiting")
  BY DEF Entries
<1>8. ASSUME NEW c, c \in Seq(PrivacyRequest), NEW J,
             BufferOK(c, P, w.known, Later(w, n), Quiet(w)),
             v = [w EXCEPT !.buf = c], NewAt(c) = {},
             \A j \in 1..Len(w.buf) : c[j].state = "waiting" <=> w.buf[j].state = "waiting" /\ j \notin J,
             Len(c) = Len(w.buf),
             b[i].state = "new" => \A j \in 1..Len(w.buf) : j \in J => w.buf[j].state # "waiting"
      PROVE  /\ v \in Worlds /\ SameSessions(v, w)
             /\ Privacy(v, P, n)
             /\ NewAt(v.buf) = {}
             /\ b[i].state = "new" /\ TimerOK(w) => TimerOK(v)
             /\ v.timer = w.timer
  <2> HIDE DEF v, b, k
  <2>1. /\ v \in Worlds /\ v.buf = c /\ v.timer = w.timer /\ v.known = w.known
        /\ v.fsm = w.fsm /\ v.agps = w.agps /\ v.sent = w.sent /\ v.owed = w.owed
        /\ v.spare = w.spare /\ v.latest = w.latest /\ v.counter = w.counter
        /\ v.asked = w.asked /\ v.granted = w.granted
    BY <1>8 DEF Worlds
  <2>2. SameSessions(v, w)
    BY <2>1 DEF SameSessions
  <2>3. Later(v, n) = Later(w, n) /\ Quiet(v) = Quiet(w) /\ \A t : Lives(v, t) <=> Lives(w, t)
    BY <2>2, SameSessionsGives
  <2>4. Privacy(v, P, n)
    BY <1>8, <2>1, <2>3 DEF Privacy
  <2>5. b[i].state = "new" => (Waits(c) <=> Waits(w.buf))
    <3>1. DOMAIN c = 1..Len(w.buf) /\ DOMAIN w.buf = 1..Len(w.buf)
      BY <1>1, <1>8
    <3> QED
      BY <1>8, <3>1 DEF Waits
  <2>6. b[i].state = "new" /\ TimerOK(w) => TimerOK(v)
    <3>1. v.timer = w.timer /\ v.buf = c
      BY <2>1
    <3> QED
      BY <2>5, <3>1, Zenon DEF TimerOK
  <2> QED
    BY <1>8, <2>1, <2>2, <2>4, <2>6
<1>9. CASE SameBuf(w, before)
  <2> DEFINE J == {j \in 1..Len(b) : j = i \/ (b[i].emergency /\ b[j].emergency)}
             c == Marked(b, J, state)
             S == {s} \union Emergency
  <2>1. w.buf = b
    BY <1>9 DEF SameBuf
  <2>2. \A j \in J : j \in 1..Len(b) => b[j].session \in S
    BY <1>7
  <2>3. state = "completed" => \A j \in J : j \in 1..Len(b) =>
            /\ b[j].session \in Quiet(w) \ Emergency
            /\ OneEmergency /\ b[j].session \in w.known =>
                  \E l \in 1..j - 1 : b[l].session = b[j].session
    <3> SUFFICES ASSUME state = "completed"
                 PROVE  s \notin Emergency
      BY <1>7
    <3> QED
      BY DEF Quiet
  <2>4. BufferOK(b, P, w.known, Later(w, n), Quiet(w))
    BY <1>6, <2>1
  <2>5. /\ BufferOK(c, P \ S, w.known, Later(w, n), Quiet(w))
        /\ NewAt(c) = NewAt(b) \ J
        /\ \A j \in 1..Len(b) : c[j].state = "waiting" <=> b[j].state = "waiting" /\ j \notin J
        /\ Len(c) = Len(b)
    <3>1. MayMark(b, w.known, Quiet(w), J, S, state)
      BY <2>2, <2>3 DEF MayMark
    <3> HIDE DEF J, S, b
    <3>2. BufferOK(Marked(b, J, state), P \ S, w.known, Later(w, n), Quiet(w))
      BY <2>4, <3>1, MarkKeeps
    <3> QED
      BY <1>1, <3>2, MarkGives
  <2>6. v = [w EXCEPT !.buf = c]
    <3>1. v = [w EXCEPT !.buf = [j \in DOMAIN @ |->
                  IF j = i \/ (b[i].emergency /\ @[j].emergency)
                  THEN [@[j] EXCEPT !.state = state] ELSE @[j]]]
      BY <1>5, <2>1
    <3> DEFINE d == [j \in DOMAIN b |->
                  IF j = i \/ (b[i].emergency /\ b[j].emergency)
                  THEN [b[j] EXCEPT !.state = state] ELSE b[j]]
    <3>2. d = c
      <4>1. DOMAIN b = 1..Len(b)
        BY <1>1
      <4> QED
        BY <4>1 DEF Marked
    <3>3. v = [w EXCEPT !.buf = d]
      BY <2>1, <3>1
    <3> HIDE DEF c, d, v
    <3> QED
      BY <3>2, <3>3
  <2>7. P \ S = P
    OBVIOUS
  <2>8. c \in Seq(PrivacyRequest)
    BY <2>5 DEF BufferOK
  <2>9. NewAt(c) = {}
    BY <2>5
  <2>10. b[i].state = "new" => \A j \in 1..Len(b) : j \in J => b[j].state # "waiting"
    BY <1>7
  <2>11. ~Drops(w, before, s)
    <3>1. k # 0 /\ Len(RemoveAt(b, k)) = Len(b) - 1
      <4> HIDE DEF b, k
      <4> QED
        BY <1>1, <1>3, RemoveAtGives
    <3>2. Len(w.buf) # Len(RemoveAt(b, k))
      BY <1>1, <2>1, <3>1
    <3> QED
      BY <3>1, <3>2 DEF Drops
  <2> HIDE DEF c, J, S
  <2>12. /\ v \in Worlds /\ SameSessions(v, w)
         /\ Privacy(v, P, n)
         /\ NewAt(v.buf) = {}
         /\ b[i].state = "new" /\ TimerOK(w) => TimerOK(v)
         /\ v.timer = w.timer
    <3> HIDE DEF v, b
    <3> QED
      BY <1>8, <2>1, <2>5, <2>6, <2>7, <2>8, <2>9, <2>10
  <2> QED
    BY <2>11, <2>12
<1>10. CASE ~SameBuf(w, before)
  <2>1. s \notin Emergency /\ state = "responded" /\ ~b[i].emergency /\ NewAt(b) \subseteq {i}
    BY <1>7, <1>10
  <2>2. w.buf = RemoveAt(b, k)
    BY <1>3, <1>10 DEF Drops
  <2>3. /\ Len(w.buf) = Len(b) - 1
        /\ \A j \in 1..Len(b) - 1 : w.buf[j] = IF j < k THEN b[j] ELSE b[j + 1]
    <3> HIDE DEF k, b
    <3> QED
      BY <1>1, <1>3, <2>2, RemoveAtGives
  <2>4. CASE k = i
    <3>1. v = w
      BY <1>1, <1>5, <2>3, <2>4
    <3>2. NewAt(w.buf) = {}
      <4>1. ASSUME NEW j \in 1..Len(b) - 1
            PROVE  w.buf[j].state # "new"
        <5>1. j \in 1..Len(b) /\ j + 1 \in 1..Len(b)
          BY <1>1
        <5>2. w.buf[j] = IF j < i THEN b[j] ELSE b[j + 1]
          BY <2>3, <2>4
        <5> QED
          BY <2>1, <5>1, <5>2 DEF NewAt
      <4> QED
        BY <2>3, <4>1 DEF NewAt
    <3> QED
      BY <3>1, <3>2 DEF SameSessions
  <2>5. CASE k # i
    <3> DEFINE m == i - 1
               c == Marked(w.buf, {m}, state)
    <3>1. m \in 1..Len(w.buf) /\ w.buf[m] = b[i]
      <4>1. k < i
        BY <1>3, <1>4, <2>5
      <4>2. m \in 1..Len(b) - 1 /\ ~(m < k) /\ m + 1 = i
        BY <1>1, <1>3, <4>1
      <4> QED
        BY <2>3, <4>2
    <3>2. /\ BufferOK(c, P \ {s}, w.known, Later(w, n), Quiet(w))
          /\ NewAt(c) = NewAt(w.buf) \ {m}
          /\ \A j \in 1..Len(w.buf) : c[j].state = "waiting" <=> w.buf[j].state = "waiting" /\ j \notin {m}
          /\ Len(c) = Len(w.buf)
      <4> DEFINE J == {m}
                 S == {s}
      <4>1. \A j \in J : j \in 1..Len(w.buf) => w.buf[j].session \in S
        BY <3>1
      <4>2. state = "completed" => FALSE
        BY <2>1
      <4> DEFINE d == Marked(w.buf, J, state)
      <4> HIDE DEF J, S
      <4>3. MayMark(w.buf, w.known, Quiet(w), J, S, state)
        BY <4>1, <4>2 DEF MayMark
      <4>4. /\ BufferOK(d, P \ S, w.known, Later(w, n), Quiet(w))
            /\ NewAt(d) = NewAt(w.buf) \ J
            /\ \A j \in 1..Len(w.buf) : d[j].state = "waiting" <=> w.buf[j].state = "waiting" /\ j \notin J
            /\ Len(d) = Len(w.buf)
        <5>1. BufferOK(Marked(w.buf, J, state), P \ S, w.known, Later(w, n), Quiet(w))
          BY <1>6, <4>3, MarkKeeps
        <5>2. /\ NewAt(d) = NewAt(w.buf) \ J
              /\ \A j \in 1..Len(w.buf) : d[j].state = "waiting" <=> w.buf[j].state = "waiting" /\ j \notin J
              /\ Len(d) = Len(w.buf)
          <6> DEFINE q == w.buf
          <6>1. q \in Seq(PrivacyRequest)
            BY <1>1
          <6> HIDE DEF q
          <6>2. /\ NewAt(Marked(q, J, state)) = NewAt(q) \ J
                /\ \A j \in 1..Len(q) :
                      Marked(q, J, state)[j].state = "waiting" <=> q[j].state = "waiting" /\ j \notin J
                /\ Len(Marked(q, J, state)) = Len(q)
            BY <6>1, MarkGives
          <6> QED
            BY <6>2 DEF q
        <5> QED
          BY <5>1, <5>2
      <4> QED
        BY <4>4 DEF J, S
    <3>3. v = [w EXCEPT !.buf = c]
      <4>1. v = [w EXCEPT !.buf[i - 1].state = state]
        BY <1>1, <1>5, <2>3, <2>5
      <4>2. [w EXCEPT !.buf[i - 1].state = state]
              = [w EXCEPT !.buf = [w.buf EXCEPT ![m] = [w.buf[m] EXCEPT !.state = state]]]
        BY <3>1 DEF Worlds
      <4>3. [w.buf EXCEPT ![m] = [w.buf[m] EXCEPT !.state = state]] = c
        BY <1>1, <3>1 DEF Marked
      <4> HIDE DEF c, v
      <4> QED
        BY <4>1, <4>2, <4>3
    <3>4. NewAt(c) = {}
      <4>1. ASSUME NEW j \in 1..Len(b) - 1, j # m
            PROVE  w.buf[j].state # "new"
        <5>0. /\ i \in Nat /\ k \in Nat /\ Len(b) \in Nat /\ j \in Nat
              /\ k <= i /\ j >= 1 /\ j <= Len(b) - 1 /\ j # i - 1
          BY <1>1, <1>3, <1>4, <4>1
        <5>1. j \in 1..Len(b) /\ j + 1 \in 1..Len(b) /\ j + 1 # i /\ (j < k => j # i)
          BY <5>0
        <5>2. w.buf[j] = IF j < k THEN b[j] ELSE b[j + 1]
          BY <2>3
        <5> QED
          BY <2>1, <5>1, <5>2 DEF NewAt
      <4>2. NewAt(w.buf) \subseteq {m}
        BY <2>3, <4>1 DEF NewAt
      <4> HIDE DEF c
      <4> QED
        BY <3>2, <4>2
    <3>5. c \in Seq(PrivacyRequest) /\ P \ {s} = P
      BY <3>2 DEF BufferOK
    <3>6. b[i].state = "new" => \A j \in 1..Len(w.buf) : j \in {m} => w.buf[j].state # "waiting"
      BY <3>1
    <3>7. ~ \A j \in 1..i - 1 : b[j].session # s
      <4>1. k \in 1..i - 1
        BY <1>3, <1>4, <2>5
      <4> QED
        BY <1>3, <4>1
    <3> DEFINE J == {m}
    <3> HIDE DEF c, m
    <3>8. /\ v \in Worlds /\ SameSessions(v, w)
          /\ Privacy(v, P, n)
          /\ NewAt(v.buf) = {}
          /\ b[i].state = "new" /\ TimerOK(w) => TimerOK(v)
          /\ v.timer = w.timer
      <4> HIDE DEF v, b
      <4> QED
        BY <1>8, <3>2, <3>3, <3>4, <3>5, <3>6
    <3> QED
      BY <3>7, <3>8
  <2> QED
    BY <2>4, <2>5
<1> QED
  BY <1>9, <1>10

-----------------------------------------------------------------------------
(***************************************************************************)
(* A request for privacy.                                                  *)
(***************************************************************************)
\* What the privacy handler may decide: it tells the controller of an emergency
\* and does not wait for the answer.
LEMMA DecisionGives ==
    ASSUME NEW s \in Session, NEW advice \in {"verify", "notify", "silent", "stealth"},
           NEW action \in {"allow", "reject"},
           NEW admin \in {"on", "alwaysVerify", "off", "offButNotify"}
    PROVE  LET d == Decision(s, advice, action, admin) IN
           /\ d.wait \in BOOLEAN /\ d.notify \in BOOLEAN /\ d.accept \in BOOLEAN
           /\ s \in Emergency => ~d.wait /\ d.notify
           /\ d.wait => advice = "verify" \/ admin = "alwaysVerify"
<1> DEFINE Do(notify, wait, accept) == [notify |-> notify, wait |-> wait, accept |-> accept]
           N == CASE action = "allow" -> Do(TRUE, FALSE, TRUE)
                  [] action = "reject" -> Do(TRUE, FALSE, FALSE)
                  [] OTHER -> Do(FALSE, FALSE, FALSE)
           d == Decision(s, advice, action, admin)
           NoProfile == Profile = "missing" \/ (Profile = "notInUse" /\ ~Original)
<1>1. /\ N.wait = FALSE /\ N.notify = TRUE /\ N.accept \in BOOLEAN
  OBVIOUS
<1>2. CASE s \in Emergency
  <2>1. d = N
    BY <1>2 DEF Decision
  <2> QED
    BY <1>1, <1>2, <2>1
<1>3. CASE s \notin Emergency /\ NoProfile
  <2>1. d = Do(FALSE, FALSE, FALSE)
    BY <1>3 DEF Decision
  <2> QED
    BY <1>3, <2>1
<1>4. CASE s \notin Emergency /\ ~NoProfile
  <2>0. d = CASE admin = "alwaysVerify" -> Do(TRUE, TRUE, FALSE)
              [] admin = "off" -> Do(FALSE, FALSE, FALSE)
              [] admin = "offButNotify" -> Do(TRUE, FALSE, FALSE)
              [] admin = "on" ->
                  CASE advice = "verify" -> Do(TRUE, TRUE, FALSE)
                    [] advice = "notify" -> N
                    [] advice = "silent" ->
                         Do(TRUE, FALSE, ~(Original /\ action = "reject"))
                    [] advice = "stealth" -> Do(FALSE, FALSE, FALSE)
    BY <1>4 DEF Decision
  <2> DEFINE a == ~(Original /\ action = "reject")
  <2> HIDE DEF d, N
  <2>8. /\ d.wait \in BOOLEAN /\ d.notify \in BOOLEAN /\ d.accept \in BOOLEAN
        /\ d.wait => advice = "verify" \/ admin = "alwaysVerify"
    <3>1. CASE admin = "alwaysVerify"
      <4>1. d = Do(TRUE, TRUE, FALSE)
        BY <2>0, <3>1
      <4> QED
        BY <1>4, <3>1, <4>1
    <3>2. CASE admin = "off"
      <4>1. d = Do(FALSE, FALSE, FALSE)
        BY <2>0, <3>2
      <4> QED
        BY <1>4, <4>1
    <3>3. CASE admin = "offButNotify"
      <4>1. d = Do(TRUE, FALSE, FALSE)
        BY <2>0, <3>3
      <4> QED
        BY <1>4, <4>1
    <3>4. CASE admin = "on" /\ advice = "verify"
      <4>1. d = Do(TRUE, TRUE, FALSE)
        BY <2>0, <3>4
      <4> QED
        BY <1>4, <3>4, <4>1
    <3>5. CASE admin = "on" /\ advice = "notify"
      <4>1. d = N
        BY <2>0, <3>5
      <4> QED
        BY <1>1, <1>4, <4>1
    <3>6. CASE admin = "on" /\ advice = "silent"
      <4>1. d = Do(TRUE, FALSE, a)
        BY <2>0, <3>6
      <4>2. a \in BOOLEAN
        OBVIOUS
      <4> HIDE DEF a
      <4> QED
        BY <1>4, <4>1, <4>2
    <3>7. CASE admin = "on" /\ advice = "stealth"
      <4>1. d = Do(FALSE, FALSE, FALSE)
        BY <2>0, <3>7
      <4> QED
        BY <1>4, <4>1
    <3> QED
      BY <3>1, <3>2, <3>3, <3>4, <3>5, <3>6, <3>7
  <2> QED
    BY <1>4, <2>8 DEF d
<1> QED
  BY <1>2, <1>3, <1>4

\* Waiting is at some place.
LEMMA WaitsIsAt ==
    ASSUME NEW b \in Seq(PrivacyRequest)
    PROVE  Waits(b) <=> \E i \in 1..Len(b) : b[i].state = "waiting"
BY DEF Waits

\* The buffer when a request joins it: one of an emergency replaces the others.
Joined(b, r) ==
    Append([i \in DOMAIN b |-> IF r.emergency /\ b[i].emergency THEN r ELSE b[i]], r)

\* The buffer with the new request behind the others.
LEMMA JoinedKeeps ==
    ASSUME NEW b, NEW P, NEW K, NEW U, NEW X, BufferOK(b, P, K, U, X),
           P \intersect Emergency = {}, U \intersect Emergency = {},
           NEW r \in PrivacyRequest, MayJoin(b, U, X, r)
    PROVE  /\ BufferOK(Joined(b, r), P, K \union {r.session}, U, X)
           /\ r.state = "waiting" =>
                 BufferOK(Joined(b, r), P \union {r.session}, K \union {r.session}, U, X)
<1> DEFINE a == [i \in DOMAIN b |-> IF r.emergency /\ b[i].emergency THEN r ELSE b[i]]
           c == Append(a, r)
<1>0. b \in Seq(PrivacyRequest) /\ Len(b) \in Nat
  BY DEF BufferOK
<1>1. /\ BufferOK(a, P, K, U, X)
      /\ ~r.emergency => a = b
  <2>1. CASE r.emergency
    <3>1. a = [i \in DOMAIN b |-> IF b[i].emergency THEN r ELSE b[i]]
      BY <2>1
    <3>2. r.session \in External \intersect Emergency /\ r.state = "new"
      BY <2>1 DEF MayJoin
    <3>3. r.emergency
      BY <2>1
    <3>4. BufferOK([i \in DOMAIN b |-> IF b[i].emergency THEN r ELSE b[i]], P, K, U, X)
      BY <3>2, <3>3, ShareKeeps
    <3> HIDE DEF a
    <3> QED
      BY <2>1, <3>1, <3>4
  <2>2. CASE ~r.emergency
    <3>1. a = b
      BY <1>0, <2>2
    <3> HIDE DEF a
    <3> QED
      BY <2>2, <3>1
  <2> QED
    BY <2>1, <2>2
<1> HIDE DEF a
<1>2. MayJoin(a, U, X, r)
  BY <1>1 DEF MayJoin
<1>3. /\ BufferOK(c, P, K \union {r.session}, U, X)
      /\ r.state = "waiting" => BufferOK(c, P \union {r.session}, K \union {r.session}, U, X)
      /\ Len(c) = Len(a) + 1 /\ c[Len(c)] = r
      /\ \A i \in 1..Len(a) : c[i] = a[i]
  <2>1. BufferOK(a, P, K, U, X)
    BY <1>1
  <2>2. BufferOK(Append(a, r), P, K \union {r.session}, U, X)
    BY <1>2, <2>1, JoinKeeps
  <2>3. LET d == Append(a, r) IN
        r.state = "waiting" => BufferOK(d, P \union {r.session}, K \union {r.session}, U, X)
    BY <1>2, <2>1, JoinKeeps
  <2>4. LET d == Append(a, r) IN Len(d) = Len(a) + 1 /\ d[Len(d)] = r
    BY <1>2, <2>1, JoinKeeps
  <2>5. LET d == Append(a, r) IN \A i \in 1..Len(a) : d[i] = a[i]
    BY <1>2, <2>1, JoinKeeps
  <2> QED
    BY <2>2, <2>3, <2>4, <2>5
<1>4. c = Joined(b, r)
  BY DEF Joined, a
<1> HIDE DEF c
<1> QED
  BY <1>3, <1>4

\* What is new and what waits in such a buffer.
LEMMA JoinedGives ==
    ASSUME NEW b \in Seq(PrivacyRequest), NewAt(b) = {}, Entries(b),
           NEW r \in PrivacyRequest, r.state \in {"new", "waiting"},
           r.state = "waiting" => ~r.emergency
    PROVE  LET c == Joined(b, r) IN
           /\ Len(c) = Len(b) + 1 /\ c[Len(c)] = r
           /\ NewAt(c) \subseteq {j \in 1..Len(c) : j = Len(c) \/ (r.emergency /\ c[j].emergency)}
           /\ r.state = "waiting" => NewAt(c) = {}
           /\ r.state = "new" => (Waits(c) <=> Waits(b))
           /\ ~r.emergency => \A i \in 1..Len(b) : c[i] = b[i]
<1> DEFINE a == [i \in DOMAIN b |-> IF r.emergency /\ b[i].emergency THEN r ELSE b[i]]
           c == Append(a, r)
<1>0. Len(b) \in Nat
  OBVIOUS
<1>1. /\ a \in Seq(PrivacyRequest) /\ Len(a) = Len(b)
      /\ \A i \in 1..Len(b) : a[i] = IF r.emergency /\ b[i].emergency THEN r ELSE b[i]
  <2>1. DOMAIN b = 1..Len(b)
    OBVIOUS
  <2>2. a \in [1..Len(b) -> PrivacyRequest]
    BY <2>1
  <2> QED
    BY <2>1, <2>2
<1>2. /\ \A i \in 1..Len(b) : a[i].state = "waiting" <=> b[i].state = "waiting"
      /\ \A i \in 1..Len(b) : a[i] = b[i] \/ (a[i] = r /\ r.emergency)
      /\ ~r.emergency => \A i \in 1..Len(b) : a[i] = b[i]
  BY <1>1 DEF Entries
<1> HIDE DEF a
<1>3. /\ c \in Seq(PrivacyRequest) /\ Len(c) = Len(a) + 1 /\ c[Len(c)] = r
      /\ \A i \in 1..Len(a) : c[i] = a[i]
  BY <1>1
<1>4. c = Joined(b, r)
  BY DEF Joined, a
<1> HIDE DEF c
<1>5. \A i \in 1..Len(b) : a[i].state = "new" => r.emergency /\ a[i].emergency
  <2> SUFFICES ASSUME NEW i \in 1..Len(b), a[i].state = "new" PROVE r.emergency /\ a[i].emergency
    OBVIOUS
  <2>1. b[i].state # "new"
    BY DEF NewAt
  <2>2. a[i] # b[i]
    BY <2>1
  <2> QED
    BY <1>1, <1>2, <2>2
<1>6. NewAt(c) \subseteq {j \in 1..Len(c) : j = Len(c) \/ (r.emergency /\ c[j].emergency)}
  <2> SUFFICES ASSUME NEW j \in 1..Len(c), c[j].state = "new", j # Len(c)
               PROVE  r.emergency /\ c[j].emergency
    BY DEF NewAt
  <2>1. j \in 1..Len(b) /\ c[j] = a[j]
    BY <1>0, <1>1, <1>3
  <2> QED
    BY <1>5, <2>1
<1>7. r.state = "waiting" => NewAt(c) = {}
  <2> SUFFICES ASSUME r.state = "waiting", NEW j \in NewAt(c) PROVE FALSE
    OBVIOUS
  <2>1. j \in 1..Len(c) /\ c[j].state = "new" /\ j = Len(c)
    BY <1>6 DEF NewAt
  <2> QED
    BY <1>3, <2>1
<1>8. r.state = "new" => (Waits(c) <=> Waits(b))
  <2> SUFFICES ASSUME r.state = "new" PROVE Waits(c) <=> Waits(b)
    OBVIOUS
  <2>1. c \in Seq(PrivacyRequest)
    BY <1>3
  <2>2. \A i \in 1..Len(b) : i \in 1..Len(c) /\ (c[i].state = "waiting" <=> b[i].state = "waiting")
    BY <1>0, <1>1, <1>2, <1>3
  <2>3. \A i \in 1..Len(c) : c[i].state = "waiting" => i \in 1..Len(b)
    BY <1>0, <1>1, <1>3
  <2> QED
    BY <1>0, <2>1, <2>2, <2>3, WaitsIsAt
<1> QED
  BY <1>1, <1>2, <1>3, <1>4, <1>6, <1>7, <1>8

\* The timer runs again if a request waits.
LEMMA RestartGives ==
    ASSUME NEW w \in Worlds
    PROVE  LET v == RestartTimer(w) IN
           /\ v \in Worlds /\ SameSessions(v, w)
           /\ v.buf = w.buf /\ v.known = w.known
           /\ TimerOK(v)
           /\ TimerOK(w) => v.timer = w.timer
<1> DEFINE t == Waits(w.buf)
           v == [w EXCEPT !.timer = t]
<1>1. t \in BOOLEAN
  BY DEF Waits
<1>2. RestartTimer(w) = v
  BY DEF RestartTimer
<1> HIDE DEF t
<1>3. /\ v \in Worlds /\ SameSessions(v, w)
      /\ v.buf = w.buf /\ v.known = w.known /\ v.timer = t
  BY <1>1 DEF Worlds, SameSessions
<1> HIDE DEF v
<1>4. TimerOK(v)
  <2>1. v.timer = Waits(w.buf) /\ v.buf = w.buf
    BY <1>3 DEF t
  <2> QED
    BY <2>1, Zenon DEF TimerOK
<1>5. TimerOK(w) => v.timer = w.timer
  <2> SUFFICES ASSUME TimerOK(w) PROVE v.timer = w.timer
    OBVIOUS
  <2>1. w.timer <=> Waits(w.buf)
    BY DEF TimerOK
  <2>2. v.timer = Waits(w.buf)
    BY <1>3 DEF t
  <2>3. w.timer \in BOOLEAN
    BY DEF Worlds
  <2> DEFINE a == w.timer
             c == Waits(w.buf)
  <2>4. a \in BOOLEAN /\ c \in BOOLEAN /\ (a <=> c)
    BY <1>1, <2>1, <2>3 DEF t
  <2> HIDE DEF a, c
  <2>5. a = c
    BY <2>4
  <2> QED
    BY <2>2, <2>5 DEF a, c
<1> QED
  BY <1>2, <1>3, <1>4, <1>5

\* A request that waits is the first of its session, or the timer rejects it.
MayAsk(w, s, advice, action, admin) ==
    s \notin Emergency =>
        \/ action = "reject"
        \/ \A i \in 1..Len(w.buf) : w.buf[i].session # s
        \/ advice = "notify" /\ admin # "alwaysVerify"

\* A world in which s has just begun to wait for an answer.
Asking(w, s, D, n) ==
    /\ Base(w, D, n) /\ w.sent = {} /\ w.fsm[s].state = "waitPriv"
    /\ Privacy(w, WaitsForPrivacy(w) \ {s}, n) /\ NewAt(w.buf) = {} /\ TimerOK(w)
    /\ WaitsForPrivacy(w) \intersect Emergency \subseteq {s}
    /\ s \in Emergency /\ w.fsm[s].locReq => s \in D

\* A session that waits for its answer either gets it or has a request that
\* waits.
LEMMA ProcessKeeps ==
    ASSUME NEW w, NEW s \in Session, NEW D, NEW n,
           NEW advice \in {"verify", "notify", "silent", "stealth"},
           NEW action \in {"allow", "reject"},
           NEW admin \in {"on", "alwaysVerify", "off", "offButNotify"},
           NEW cached \in BOOLEAN,
           Asking(w, s, D, n), MayAsk(w, s, advice, action, admin)
    PROVE  Sound(ProcessNetworkLocationRequest(w, s, advice, action, admin, cached), D, n)
<1> USE DEF Asking
<1> DEFINE emergency == s \in Emergency
           stored == IF advice = "verify" /\ ~TimeoutAccepts(w.alwaysVerify, action)
                     THEN "reject" ELSE action
           d == Decision(s, advice, stored, admin)
           verify == w.server /\ ~emergency /\ admin = "alwaysVerify"
           wait == w.server /\ d.wait
           notify == w.server /\ d.notify
           accept == IF w.server THEN d.accept ELSE AcceptsAlone(s, advice, stored)
           request == [session |-> s, emergency |-> emergency, action |-> stored,
                       verify |-> verify, state |-> IF wait THEN "waiting" ELSE "new"]
           shared == [i \in DOMAIN w.buf |->
                        IF emergency /\ w.buf[i].emergency THEN request ELSE w.buf[i]]
           known2 == IF notify THEN w.known \union {s} ELSE w.known
           x == [w EXCEPT !.buf = Append(shared, request), !.alwaysVerify = verify,
                          !.known = known2]
           state == IF w.server /\ ~accept /\ ~notify THEN "completed" ELSE "responded"
           u == OnRespond(x, s, Answer(accept), cached)
           v == IF wait THEN RestartTimer(x) ELSE SetState(x, u, Len(x.buf), state)
           P == WaitsForPrivacy(w) \ {s}
           U == Later(w, n)
           X == Quiet(w)
<1>0. ProcessNetworkLocationRequest(w, s, advice, action, admin, cached) = v
  BY DEF ProcessNetworkLocationRequest
<1>1. /\ w \in Worlds /\ Lives(w, s) /\ s \in External
      /\ s \notin U /\ s \notin X /\ U \intersect Emergency = {}
      /\ P \intersect Emergency = {}
  <2>1. w \in Worlds /\ Local(w, s)
    BY DEF Base
  <2>2. s \in External /\ ~w.fsm[s].exited
    BY <2>1 DEF Local
  <2> QED
    BY <2>1, <2>2 DEF Lives, Later, Quiet
<1>2. stored \in {"allow", "reject"} /\ (action = "reject" => stored = "reject")
  OBVIOUS
<1> HIDE DEF stored
<1>3. /\ d.wait \in BOOLEAN /\ d.notify \in BOOLEAN /\ d.accept \in BOOLEAN
      /\ s \in Emergency => ~d.wait /\ d.notify
      /\ d.wait => advice = "verify" \/ admin = "alwaysVerify"
  BY <1>2, DecisionGives
<1>4. w.server \in BOOLEAN
  BY <1>1 DEF Worlds
<1>5. /\ wait \in BOOLEAN /\ notify \in BOOLEAN /\ accept \in BOOLEAN
      /\ verify \in BOOLEAN
      /\ s \in Emergency => ~wait /\ (w.server => notify)
      /\ wait => d.wait
  <2> HIDE DEF d
  <2> QED
    BY <1>3, <1>4 DEF AcceptsAlone
<1> HIDE DEF d
<1>6. wait => stored = "reject" \/ \A i \in 1..Len(w.buf) : w.buf[i].session # s
  BY <1>2, <1>3, <1>5 DEF MayAsk
<1> HIDE DEF wait, notify, accept, verify
<1>7. /\ request \in PrivacyRequest /\ request.session = s
      /\ request.emergency = (s \in Emergency) /\ request.action = stored
      /\ request.state = IF wait THEN "waiting" ELSE "new"
  BY <1>2, <1>5 DEF PrivacyRequest, RequestStates
<1>8. Append(shared, request) = Joined(w.buf, request)
  BY DEF Joined
<1> HIDE DEF request
<1>9. MayJoin(w.buf, U, X, request)
  <2>1. request.state = "waiting" => wait
    BY <1>5, <1>7
  <2>2. request.emergency <=> request.session \in Emergency
    BY <1>7, Zenon
  <2>3. ~(wait /\ request.emergency)
    BY <1>5, <1>7
  <2> QED
    BY <1>1, <1>5, <1>6, <1>7, <2>1, <2>2, <2>3 DEF MayJoin
<1> DEFINE c == Joined(w.buf, request)
<1>10. BufferOK(w.buf, P, w.known, U, X)
  BY DEF Privacy
<1> HIDE DEF P, U, X
<1>11. /\ BufferOK(c, P, w.known \union {request.session}, U, X)
       /\ request.state = "waiting" =>
             BufferOK(c, P \union {request.session}, w.known \union {request.session}, U, X)
       /\ Len(c) = Len(w.buf) + 1 /\ c[Len(c)] = request
       /\ NewAt(c) \subseteq {j \in 1..Len(c) : j = Len(c) \/ (request.emergency /\ c[j].emergency)}
       /\ request.state = "waiting" => NewAt(c) = {}
       /\ request.state = "new" => (Waits(c) <=> Waits(w.buf))
       /\ ~request.emergency => \A i \in 1..Len(w.buf) : c[i] = w.buf[i]
  <2> DEFINE q == w.buf
             K == w.known
  <2>1. BufferOK(q, P, K, U, X) /\ NewAt(q) = {} /\ MayJoin(q, U, X, request)
    BY <1>9, <1>10
  <2>2. c = Joined(q, request)
    OBVIOUS
  <2> HIDE DEF q, K, c
  <2>3. BufferOK(Joined(q, request), P, K \union {request.session}, U, X)
    BY <1>1, <1>7, <2>1, JoinedKeeps
  <2>4. request.state = "waiting" =>
           BufferOK(Joined(q, request), P \union {request.session}, K \union {request.session}, U, X)
    BY <1>1, <1>7, <2>1, JoinedKeeps
  <2>5. /\ q \in Seq(PrivacyRequest) /\ Entries(q)
        /\ request.state \in {"new", "waiting"} /\ (request.state = "waiting" => ~request.emergency)
    BY <2>1 DEF BufferOK, MayJoin
  <2>6. LET e == Joined(q, request) IN
        /\ Len(e) = Len(q) + 1 /\ e[Len(e)] = request
        /\ NewAt(e) \subseteq {j \in 1..Len(e) : j = Len(e) \/ (request.emergency /\ e[j].emergency)}
        /\ request.state = "waiting" => NewAt(e) = {}
        /\ request.state = "new" => (Waits(e) <=> Waits(q))
        /\ ~request.emergency => \A i \in 1..Len(q) : e[i] = q[i]
    BY <1>7, <2>1, <2>5, JoinedGives
  <2> QED
    BY <2>2, <2>3, <2>4, <2>6 DEF q, K
<1> HIDE DEF c
<1>12. c \in Seq(PrivacyRequest)
  BY <1>11 DEF BufferOK
<1>13. x = [w EXCEPT !.buf = c, !.alwaysVerify = verify, !.known = known2]
  BY <1>8 DEF c
<1>14. known2 \in SUBSET Session /\ known2 \subseteq w.known \union {s}
       /\ (~notify => known2 = w.known)
  BY <1>1 DEF Worlds
<1> HIDE DEF shared, known2
<1>15. /\ x \in Worlds /\ x.buf = c /\ x.known = known2 /\ x.timer = w.timer
       /\ SameSessions(x, w) /\ x.server = w.server
  <2> DEFINE y == [w EXCEPT !.buf = c, !.alwaysVerify = verify, !.known = known2]
  <2>1. /\ y \in Worlds /\ y.buf = c /\ y.known = known2 /\ y.timer = w.timer
        /\ SameSessions(y, w) /\ y.server = w.server
    BY <1>1, <1>5, <1>12, <1>14 DEF Worlds, SameSessions
  <2> HIDE DEF y, x
  <2> QED
    BY <1>13, <2>1 DEF y
<1> HIDE DEF x
<1>16. /\ Base(x, D, n) /\ x.sent = {}
       /\ WaitsForPrivacy(x) = WaitsForPrivacy(w)
       /\ Later(x, n) = U /\ Quiet(x) = X
       /\ \A t : Lives(x, t) <=> Lives(w, t)
       /\ x.fsm = w.fsm
  <2>1. Base(x, D, n)
    BY <1>15, SameSessionsKeeps
  <2>2. /\ WaitsForPrivacy(x) = WaitsForPrivacy(w)
        /\ Later(x, n) = U /\ Quiet(x) = X
        /\ \A t : Lives(x, t) <=> Lives(w, t)
    BY <1>15, SameSessionsGives DEF U, X
  <2> QED
    BY <1>15, <2>1, <2>2 DEF SameSessions
<1>17. OneEmergency => \A t \in x.known : Lives(x, t)
  BY <1>1, <1>14, <1>15, <1>16 DEF Privacy
<1>18. Privacy(x, P, n) /\ (wait => Privacy(x, P \union {s}, n))
  <2>1. /\ BufferOK(c, P, w.known \union {s}, U, X)
        /\ wait => BufferOK(c, P \union {s}, w.known \union {s}, U, X)
    BY <1>7, <1>11
  <2>2. BufferOK(c, P, known2, U, X)
    BY <1>14, <2>1, BufferWeakens
  <2>3. wait => BufferOK(c, P \union {s}, known2, U, X)
    BY <1>14, <2>1, BufferWeakens
  <2> QED
    BY <1>15, <1>16, <1>17, <2>2, <2>3 DEF Privacy
<1>19. CASE wait
  <2>1. v = RestartTimer(x)
    BY <1>19
  <2> HIDE DEF v
  <2>2. /\ v \in Worlds /\ SameSessions(v, x) /\ v.buf = x.buf /\ v.known = x.known /\ TimerOK(v)
    BY <1>15, <2>1, RestartGives
  <2>3. Base(v, D, n) /\ WaitsForPrivacy(v) = WaitsForPrivacy(x)
        /\ Later(v, n) = Later(x, n) /\ Quiet(v) = Quiet(x)
        /\ \A t : Lives(v, t) <=> Lives(x, t)
    BY <1>16, <2>2, SameSessionsKeeps, SameSessionsGives
  <2>4. Privacy(v, P \union {s}, n)
    BY <1>18, <1>19, <2>2, <2>3 DEF Privacy
  <2>5. s \notin Emergency /\ P \union {s} = WaitsForPrivacy(w)
    BY <1>5, <1>19 DEF P, WaitsForPrivacy
  <2>6. NewAt(v.buf) = {}
    BY <1>7, <1>11, <1>15, <1>19, <2>2
  <2> QED
    BY <1>0, <1>16, <2>2, <2>3, <2>4, <2>5, <2>6 DEF Sound
<1>20. CASE ~wait
  <2> DEFINE i == Len(x.buf)
  <2>0. v = SetState(x, u, i, state)
    BY <1>20
  <2>1. s \in Emergency /\ x.fsm[s].locReq => s \in D
    BY <1>16
  <2>2. Answer(accept) \in {"accepted", "rejected"} /\ (Answer(accept) = "accepted" <=> accept)
    BY <1>5 DEF Answer
  <2>3. x.fsm[s].state = "waitPriv"
    BY <1>16
  <2>4. /\ Base(u, D, n) /\ Called(u, x, s) /\ u.fsm[s].exited
        /\ ~accept => SameBuf(u, x)
    <3> DEFINE answer == Answer(accept)
    <3> HIDE DEF answer, u
    <3>1. answer \in {"accepted", "rejected"} /\ (answer = "rejected" <=> ~accept)
      BY <1>5, <2>2 DEF answer
    <3>2. LET r == OnRespond(x, s, answer, cached) IN
          /\ Base(r, D, n)
          /\ x.fsm[s].state = "waitPriv" => Called(r, x, s) /\ r.fsm[s].exited
          /\ answer = "rejected" => SameBuf(r, x)
      BY <1>16, <2>1, <3>1, RespondKeeps
    <3> QED
      BY <2>3, <3>1, <3>2 DEF u, answer
  <2> HIDE DEF u
  <2>5. TimerOK(x)
    <3>1. Waits(x.buf) <=> Waits(w.buf)
      BY <1>7, <1>11, <1>15, <1>20
    <3>2. x.timer = w.timer
      BY <1>15
    <3> QED
      BY <3>1, <3>2, Zenon DEF TimerOK
  <2>6. /\ Privacy(u, P, n) /\ TimerOK(u)
        /\ WaitsForPrivacy(u) = P
    <3>1. P \ {s} = P
      BY DEF P
    <3>2. /\ Privacy(u, P \ {s}, n) /\ TimerOK(u)
          /\ WaitsForPrivacy(u) = WaitsForPrivacy(x) \ {s}
      BY <1>15, <1>18, <2>4, <2>5, CalledKeeps
    <3> QED
      BY <1>16, <3>1, <3>2 DEF P
  <2>7. i \in 1..Len(x.buf) /\ x.buf[i] = request /\ x.buf[i].session = s /\ x.buf[i].state = "new"
    BY <1>7, <1>11, <1>15, <1>20
  <2>8. NewAt(x.buf) \subseteq {j \in 1..Len(x.buf) :
            j = i \/ (x.buf[i].emergency /\ x.buf[j].emergency)}
    BY <1>11, <1>15, <2>7
  <2>9. Entries(x.buf)
    BY <1>18 DEF Privacy, BufferOK
  <2>10. SameBuf(u, x) \/ (Drops(u, x, s) /\ s \notin Emergency)
    BY <2>4 DEF Called
  <2>11. ASSUME state = "completed"
         PROVE  /\ SameBuf(u, x)
                /\ s \in Quiet(u)
                /\ OneEmergency /\ s \in u.known =>
                      \E k \in 1..i - 1 : x.buf[k].session = s
    <3>1. ~accept /\ ~notify /\ s \notin Emergency
      BY <1>5, <2>11
    <3>2. SameBuf(u, x) /\ s \in Quiet(u)
      BY <2>4, <3>1 DEF Quiet
    <3>3. ASSUME OneEmergency, s \in u.known
          PROVE  \E k \in 1..i - 1 : x.buf[k].session = s
      <4>1. s \in w.known
        BY <1>14, <1>15, <3>1, <3>2, <3>3 DEF SameBuf
      <4>2. PICK k \in 1..Len(w.buf) : w.buf[k].session = s
        BY <1>10, <3>3, <4>1 DEF BufferOK, Informed
      <4>3. Len(x.buf) = Len(w.buf) + 1 /\ x.buf[k] = w.buf[k]
        BY <1>7, <1>11, <1>15, <3>1
      <4>4. Len(w.buf) \in Nat
        BY <1>10 DEF BufferOK
      <4> QED
        BY <4>2, <4>3, <4>4
    <3> QED
      BY <3>2, <3>3
  <2>12. state \in {"responded", "completed"} /\ s \notin P /\ u \in Worlds
    BY <2>4 DEF P, Base
  <2> HIDE DEF state, i, v
  <2>13. LET y == SetState(x, u, i, state) IN
         /\ y \in Worlds /\ SameSessions(y, u) /\ Privacy(y, P, n)
         /\ NewAt(y.buf) = {}
         /\ x.buf[i].state = "new" /\ TimerOK(u) => TimerOK(y)
    <3>1. MaySet(x, u, s, i, state, P, n)
      BY <1>1, <1>15, <2>6, <2>7, <2>8, <2>9, <2>10, <2>11, <2>12 DEF MaySet
    <3>2. SetTo(SetState(x, u, i, state), x, u, s, i, P, n)
      BY <3>1, SetStateKeeps
    <3> QED
      BY <3>2, Zenon DEF SetTo
  <2>14. /\ v \in Worlds /\ SameSessions(v, u) /\ Privacy(v, P, n)
         /\ NewAt(v.buf) = {} /\ TimerOK(v)
    BY <2>0, <2>6, <2>7, <2>13
  <2>15. Base(v, D, n) /\ WaitsForPrivacy(v) = P
    BY <2>4, <2>6, <2>14, SameSessionsKeeps, SameSessionsGives
  <2> QED
    BY <1>0, <1>1, <2>14, <2>15 DEF Sound
<1> QED
  BY <1>19, <1>20



-----------------------------------------------------------------------------
(***************************************************************************)
(* Whole events, from one world between two events to the next.            *)
(***************************************************************************)

\* A call that moves a state machine, and leaves what sessions share in order,
\* may end an event.
LEMMA CalledSound ==
    ASSUME NEW v, NEW w, NEW s \in Session, NEW D, NEW n,
           Sound(w, D, n), Base(v, D, n), Called(v, w, s)
    PROVE  Sound(v, D, n)
<1> DEFINE P == WaitsForPrivacy(w)
<1>1. w \in Worlds /\ Privacy(w, P, n) /\ NewAt(w.buf) = {} /\ TimerOK(w) /\ P \intersect Emergency = {}
  BY DEF Sound, Base
<1> HIDE DEF P
<1>2. /\ Privacy(v, P \ {s}, n) /\ NewAt(v.buf) = {} /\ TimerOK(v)
      /\ WaitsForPrivacy(v) = WaitsForPrivacy(w) \ {s}
  BY <1>1, CalledKeeps
<1> QED
  BY <1>1, <1>2 DEF Sound, P

\* Two worlds that differ in nothing a property is about, but that more
\* responses may be owed.
Alike(v, w) ==
    /\ \A t \in Session :
          /\ v.fsm[t].state = w.fsm[t].state /\ v.fsm[t].locReq = w.fsm[t].locReq
          /\ v.fsm[t].exited = w.fsm[t].exited /\ v.fsm[t].counted = w.fsm[t].counted
          /\ v.fsm[t].cancelled = w.fsm[t].cancelled
          /\ v.owed[t] >= w.owed[t] /\ v.asked[t] >= w.asked[t]
    /\ v.spare = w.spare /\ v.latest = w.latest /\ v.agps = w.agps
    /\ v.sent = w.sent /\ v.counter = w.counter /\ v.granted = w.granted
    /\ SameBuf(v, w)

\* What the properties speak of decides whether a world is in order.
LEMMA AlikeSound ==
    ASSUME NEW v \in Worlds, NEW w, NEW D, NEW n, Sound(w, D, n), Alike(v, w)
    PROVE  Sound(v, D, n)
<1>1. w \in Worlds
  BY DEF Sound, Base
<1>2. /\ \A t \in Session : Lives(v, t) <=> Lives(w, t)
      /\ WaitsForPrivacy(v) = WaitsForPrivacy(w)
      /\ Later(v, n) = Later(w, n) /\ Quiet(v) = Quiet(w) /\ Counted(v) = Counted(w)
  BY DEF Alike, Lives, WaitsForPrivacy, Later, Quiet, Counted
<1>3. ASSUME NEW t \in Session PROVE Local(v, t)
  <2>1. Local(w, t)
    BY DEF Sound, Base
  <2>2. Consented(v, t)
    BY <2>1 DEF Local, Consented, Alike
  <2>3. Replied(v, t)
    <3>1. v.owed[t] \in Int /\ w.owed[t] \in Int /\ v.asked[t] \in Int /\ w.asked[t] \in Int
      BY <1>1 DEF Worlds
    <3>2. Replied(w, t)
      BY <2>1 DEF Local
    <3> QED
      BY <3>1, <3>2 DEF Replied, Alike
  <2>4. Tidied(v, t)
    BY <1>2, <2>1 DEF Local, Tidied, Alike
  <2> QED
    BY <1>2, <2>1, <2>2, <2>3, <2>4 DEF Local, Alike
<1>4. Shared(v, D)
  <2>1. Shared(w, D)
    BY DEF Sound, Base
  <2> QED
    BY <1>2, <2>1, AgpsAssumption DEF Shared, Alike
<1>5. Base(v, D, n)
  BY <1>2, <1>3, <1>4 DEF Sound, Base
<1>6. v.buf = w.buf /\ v.known = w.known /\ v.timer = w.timer
  BY DEF Alike, SameBuf
<1>7. Privacy(v, WaitsForPrivacy(v), n)
  <2>1. Privacy(w, WaitsForPrivacy(w), n)
    BY DEF Sound
  <2>2. w.known \subseteq Session
    BY <1>1 DEF Worlds
  <2> QED
    BY <1>2, <1>6, <2>1, <2>2 DEF Privacy
<1>8. TimerOK(v)
  <2>1. TimerOK(w)
    BY DEF Sound
  <2> QED
    BY <1>6, <2>1, Zenon DEF TimerOK
<1> QED
  BY <1>2, <1>5, <1>6, <1>7, <1>8 DEF Sound

\* More emergencies have asked for a position; the network has moved on.
LEMMA SoundWeakens ==
    ASSUME NEW w, NEW D, NEW n, NEW E, NEW m, Sound(w, D, n), D \subseteq E,
           \A t \in Session : m[t] = "unused" => n[t] = "unused",
           \A t \in Session : n[t] = "closed" => m[t] = "closed"
    PROVE  Sound(w, E, m)
<1>1. Shared(w, E)
  <2>1. Shared(w, D)
    BY DEF Sound, Base
  <2> QED
    BY <2>1 DEF Shared
<1>2. Base(w, E, m)
  BY <1>1 DEF Sound, Base
<1>3. Later(w, m) \subseteq Later(w, n)
  BY DEF Later
<1>4. Privacy(w, WaitsForPrivacy(w), m)
  <2> DEFINE P == WaitsForPrivacy(w)
             X == Quiet(w)
             K == w.known
  <2>1. Privacy(w, P, n)
    BY DEF Sound
  <2>2. BufferOK(w.buf, P, K, Later(w, n), X)
    BY <2>1 DEF Privacy
  <2> HIDE DEF P, X, K
  <2>3. BufferOK(w.buf, P, K, Later(w, m), X)
    BY <1>3, <2>2, BufferWeakens
  <2> QED
    BY <2>1, <2>3 DEF Privacy, P, X, K
<1> QED
  BY <1>2, <1>4 DEF Sound

\* A step of one session that leaves its state, and what the sessions share.
LEMMA AsideSound ==
    ASSUME NEW v \in Worlds, NEW w, NEW s \in Session, NEW D, NEW n,
           Sound(w, D, n), Touches(v, w, {s}), SameBuf(v, w),
           v.fsm[s].state = w.fsm[s].state, v.fsm[s].exited = w.fsm[s].exited,
           v.fsm[s].counted = w.fsm[s].counted,
           v.spare = w.spare, v.latest = w.latest, v.counter = w.counter, v.agps = w.agps,
           Local(v, s)
    PROVE  Sound(v, D, n)
<1>1. w \in Worlds
  BY DEF Sound, Base
<1>2. \A t \in Session :
         /\ v.fsm[t].state = w.fsm[t].state
         /\ v.fsm[t].exited = w.fsm[t].exited /\ v.fsm[t].counted = w.fsm[t].counted
  BY DEF Touches
<1>3. /\ \A t \in Session : Lives(v, t) <=> Lives(w, t)
      /\ WaitsForPrivacy(v) = WaitsForPrivacy(w)
      /\ Later(v, n) = Later(w, n) /\ Quiet(v) = Quiet(w) /\ Counted(v) = Counted(w)
  BY <1>2 DEF Lives, WaitsForPrivacy, Later, Quiet, Counted
<1>4. \A t \in Session : Local(v, t)
  <2> SUFFICES ASSUME NEW t \in Session, t # s PROVE Local(v, t)
    OBVIOUS
  <2>1. t \in Session \ {s} /\ Local(w, t)
    BY DEF Sound, Base
  <2> QED
    BY <2>1, TouchesKeeps
<1>5. Shared(v, D)
  <2>1. Shared(w, D)
    BY DEF Sound, Base
  <2> QED
    BY <1>2, <1>3, <2>1, AgpsAssumption DEF Shared
<1>6. Base(v, D, n)
  BY <1>3, <1>4, <1>5 DEF Sound, Base
<1>7. v.buf = w.buf /\ v.known = w.known /\ v.timer = w.timer
  BY DEF SameBuf
<1>8. Privacy(v, WaitsForPrivacy(v), n)
  <2>1. Privacy(w, WaitsForPrivacy(w), n)
    BY DEF Sound
  <2>2. w.known \subseteq Session
    BY <1>1 DEF Worlds
  <2> QED
    BY <1>3, <1>7, <2>1, <2>2 DEF Privacy
<1>9. TimerOK(v)
  <2>1. TimerOK(w)
    BY DEF Sound
  <2> QED
    BY <1>7, <2>1, Zenon DEF TimerOK
<1> QED
  BY <1>3, <1>6, <1>7, <1>8, <1>9 DEF Sound

\* A response that tells no place, and is owed.
LEMMA ResponseSound ==
    ASSUME NEW w, NEW s \in Session, NEW D, NEW n, NEW what \in {"denied", "cancelled", "reference"},
           Sound(w, D, n),
           OneEmergency =>
               w.owed[s] > IF w.fsm[s].state \in {"waitPriv", "waitLocUpdate"} THEN 1 ELSE 0
    PROVE  Sound(SendNetLocResponse(w, s, what), D, n)
<1> DEFINE v == SendNetLocResponse(w, s, what)
<1>1. w \in Worlds /\ Local(w, s)
  BY DEF Sound, Base
<1>2. what \in Responses \ Place /\ what # "refused"
  BY DEF Responses, Place
<1>3. /\ v \in Worlds
      /\ v.sent = w.sent \union {<<s, what>>}
      /\ v.owed[s] = w.owed[s] - 1 /\ \A t \in Session \ {s} : v.owed[t] = w.owed[t]
      /\ Kept(v, w) /\ SameBuf(v, w) /\ v.fsm = w.fsm /\ v.agps = w.agps
  BY <1>1, <1>2, ResponseGives
<1> HIDE DEF v
<1>4. Touches(v, w, {s})
  BY <1>3 DEF Touches, Kept
<1>5. \A x : x # what => (<<s, x>> \in v.sent <=> <<s, x>> \in w.sent)
  BY <1>3
<1>6. Consented(v, s)
  BY <1>1, <1>2, <1>3, <1>5 DEF Local, Consented, Kept
<1>7. Replied(v, s)
  <2>1. Replied(w, s) /\ w.owed[s] \in Int
    BY <1>1 DEF Local, Worlds
  <2> QED
    BY <1>3, <2>1 DEF Replied, Kept
<1>8. Tidied(v, s)
  BY <1>1, <1>3 DEF Local, Tidied, Lives
<1>9. Local(v, s)
  BY <1>1, <1>2, <1>3, <1>5, <1>6, <1>7, <1>8 DEF Local, Lives
<1>10. Sound(v, D, n)
  BY <1>3, <1>4, <1>9, AsideSound DEF Kept
<1> QED
  BY <1>10 DEF v

\* An answer to an MTLR request of a session for which there is no state machine.
LEMMA MtlrSound ==
    ASSUME NEW w, NEW s \in Session, NEW D, NEW n, Sound(w, D, n), ~Lives(w, s),
           OneEmergency => w.asked[s] > 0
    PROVE  Sound(SendMTLRResponse(w, s), D, n)
<1> DEFINE v == SendMTLRResponse(w, s)
<1>1. w \in Worlds /\ Local(w, s)
  BY DEF Sound, Base
<1>2. /\ v \in Worlds
      /\ v.asked[s] = w.asked[s] - 1 /\ \A t \in Session \ {s} : v.asked[t] = w.asked[t]
      /\ SameBuf(v, w) /\ v.fsm = w.fsm /\ v.agps = w.agps /\ v.sent = w.sent
      /\ v.owed = w.owed /\ v.granted = w.granted /\ v.counter = w.counter
      /\ v.spare = w.spare /\ v.latest = w.latest
  BY <1>1, MtlrGives
<1> HIDE DEF v
<1>3. Touches(v, w, {s})
  BY <1>2 DEF Touches
<1>4. Consented(v, s)
  BY <1>1, <1>2 DEF Local, Consented
<1>5. Replied(v, s)
  <2>1. Replied(w, s) /\ w.asked[s] \in Int
    BY <1>1 DEF Local, Worlds
  <2> QED
    BY <1>2, <2>1 DEF Replied, Lives
<1>6. Tidied(v, s)
  BY <1>1, <1>2 DEF Local, Tidied, Lives
<1>7. Local(v, s)
  BY <1>1, <1>2, <1>4, <1>5, <1>6 DEF Local, Lives
<1>8. Sound(v, D, n)
  BY <1>2, <1>3, <1>7, AsideSound
<1> QED
  BY <1>8 DEF v

\* A self location or X3P session takes the place of the one there is.
LEMMA ReplaceKeeps ==
    ASSUME NEW w, NEW s \in Session, NEW D, NEW n, Sound(w, D, n)
    PROVE  LET v == ReplaceSession(w, s) IN
           /\ Sound(v, D, n)
           /\ v.fsm[s] = w.fsm[s] \/ ~Lives(v, s)
           /\ v.owed = w.owed /\ v.asked = w.asked /\ v.sent = w.sent /\ v.buf = w.buf
<1> DEFINE o == w.latest[Type[s]]
           f == [w.fsm EXCEPT ![o] = NoFsm]
           l == [w.latest EXCEPT ![Type[s]] = NoSession]
           v == [w EXCEPT !.fsm = f, !.latest = l]
<1>1. w \in Worlds /\ Shared(w, D)
  BY DEF Sound, Base
<1>2. CASE Lives(w, s) \/ Type[s] \notin {"SELF", "X3P"} \/ o = NoSession
  <2>1. ReplaceSession(w, s) = w
    BY <1>2 DEF ReplaceSession, Live, Lives
  <2> QED
    BY <2>1
<1>3. CASE ~(Lives(w, s) \/ Type[s] \notin {"SELF", "X3P"} \/ o = NoSession)
  <2>1. o \in Session /\ Type[o] = Type[s] /\ Type[s] \in {"SELF", "X3P"}
    BY <1>1, <1>3 DEF Worlds, Shared
  <2>2. ReplaceSession(w, s) = v
    BY <1>3 DEF ReplaceSession, Live, Lives
  <2>3. o \notin External /\ o \notin Emergency /\ ~NoneReplaced
    BY <2>1, PrivLocAssumption DEF External, NoneReplaced
  <2>4. NoFsm \in Fsms /\ NoFsm.state = "none" /\ ~NoFsm.counted
    BY DEF NoFsm, Fsms, FsmState, Mode
  <2>5. /\ f \in [Session -> Fsms] /\ f[o] = NoFsm /\ \A t \in Session \ {o} : f[t] = w.fsm[t]
        /\ l \in [{"SELF", "X3P"} -> Session \union {NoSession}]
        /\ \A t \in {"SELF", "X3P"} : l[t] = NoSession \/ l[t] = w.latest[t]
    BY <1>1, <2>1, <2>4 DEF Worlds
  <2> HIDE DEF f, l, o
  <2>6. /\ v \in Worlds /\ v.fsm = f /\ v.latest = l
        /\ v.spare = w.spare /\ v.counter = w.counter /\ v.agps = w.agps /\ v.sent = w.sent
        /\ v.owed = w.owed /\ v.asked = w.asked /\ v.granted = w.granted
        /\ v.buf = w.buf /\ v.timer = w.timer /\ v.known = w.known
    BY <1>1, <2>5 DEF Worlds
  <2> HIDE DEF v
  <2>7. Local(w, o) /\ ~w.fsm[o].counted /\ w.fsm[o].state # "waitPriv"
    BY <2>1, <2>3 DEF Sound, Base, Local
  <2>8. Counted(v) = Counted(w)
    BY <2>4, <2>5, <2>6, <2>7 DEF Counted
  <2>9. WaitsForPrivacy(v) = WaitsForPrivacy(w)
    BY <2>4, <2>5, <2>6, <2>7 DEF WaitsForPrivacy
  <2>10. ~Lives(v, o) /\ \A t \in Session \ {o} : Lives(v, t) <=> Lives(w, t)
    BY <2>1, <2>4, <2>5, <2>6 DEF Lives
  <2>11. ASSUME NEW t \in Session PROVE Local(v, t)
    <3>1. CASE t = o
      <4>1. Replied(v, t)
        BY <2>3, <2>4, <2>5, <2>6, <2>7, <3>1 DEF Local, Replied, External
      <4>2. Tidied(v, t) /\ Consented(v, t)
        BY <2>3, <2>4, <2>5, <2>6, <3>1 DEF Tidied, Consented
      <4> QED
        BY <2>3, <2>4, <2>5, <2>6, <3>1, <4>1, <4>2 DEF Local
    <3>2. CASE t # o
      <4>1. Touches(v, w, {o})
        BY <2>5, <2>6 DEF Touches
      <4>2. t \in Session \ {o} /\ Local(w, t)
        BY <3>2 DEF Sound, Base
      <4> QED
        BY <4>1, <4>2, TouchesKeeps
    <3> QED
      BY <3>1, <3>2
  <2>12. Shared(v, D)
    <3>1. \A a, b \in Emergency : Lives(v, a) /\ Lives(v, b) => a = b
      BY <1>1, <2>3, <2>10, AgpsAssumption DEF Shared
    <3>2. \A t \in {"SELF", "X3P"} : v.latest[t] # NoSession => Type[v.latest[t]] = t
      BY <1>1, <2>5, <2>6 DEF Shared
    <3>3. \A t \in Session : v.fsm[t].state = "waitLocUpdate" => w.fsm[t].state = "waitLocUpdate"
      BY <2>4, <2>5, <2>6
    <3> QED
      BY <1>1, <2>3, <2>6, <2>8, <3>1, <3>2, <3>3 DEF Shared
  <2>13. Base(v, D, n)
    BY <2>1, <2>6, <2>10, <2>11, <2>12 DEF Sound, Base
  <2>14. Privacy(v, WaitsForPrivacy(v), n)
    <3> DEFINE P == WaitsForPrivacy(w)
               b == w.buf
               K == w.known
    <3>1. BufferOK(b, P, K, Later(w, n), Quiet(w))
      BY DEF Sound, Privacy
    <3>2. \A i \in 1..Len(b) : b[i].session \in External
      BY <3>1 DEF BufferOK, Entries
    <3>3. Quiet(w) \subseteq Quiet(v)
      BY <2>3, <2>5, <2>6, <2>10 DEF Quiet
    <3>4. Later(v, n) \subseteq Later(w, n) \union {o}
      BY <2>10 DEF Later
    <3> HIDE DEF P, b, K
    <3>5. BufferOK(b, P, K, Later(w, n), Quiet(v))
      BY <3>1, <3>3, BufferWeakens
    <3>6. BufferOK(b, P, K, Later(v, n), Quiet(v))
      BY <2>3, <3>2, <3>4, <3>5 DEF BufferOK, Absent
    <3>7. ASSUME OneEmergency, NEW t \in K PROVE Lives(v, t)
      <4>1. Lives(w, t) /\ t \in Session
        BY <1>1, <3>7 DEF Sound, Privacy, K, Worlds
      <4>2. t \in External
        BY <3>1, <3>2, <3>7 DEF BufferOK, Informed
      <4> QED
        BY <2>3, <2>10, <4>1, <4>2
    <3> QED
      BY <2>6, <2>9, <3>6, <3>7 DEF Privacy, P, b, K
  <2>15. TimerOK(v)
    <3>1. TimerOK(w)
      BY DEF Sound
    <3> QED
      BY <2>6, <3>1, Zenon DEF TimerOK
  <2>16. v.fsm[s] = w.fsm[s] \/ ~Lives(v, s)
    BY <2>5, <2>6, <2>10
  <2> QED
    BY <2>2, <2>6, <2>9, <2>13, <2>14, <2>15, <2>16 DEF Sound
<1> QED
  BY <1>2, <1>3

\* A session that gets a state machine of its own, or that of the emergency
\* there is.
ResetFsm(f) == [f EXCEPT !.locReq = FALSE, !.fix = FALSE, !.tap = FALSE, !.exited = FALSE]

\* What ResetFsm leaves.
LEMMA ResetGives ==
    ASSUME NEW f \in Fsms
    PROVE  LET g == ResetFsm(f) IN
           /\ g \in Fsms /\ g.state = f.state /\ g.counted = f.counted
           /\ ~g.locReq /\ ~g.exited
BY DEF ResetFsm, Fsms

\* What a new state machine has in common, wherever it comes from: v is w with
\* it, and the network's book m says that the session is open.
NewFsm(v, w, s, n, m) ==
    /\ v \in Worlds
    /\ ~Lives(w, s) /\ Lives(v, s)
    /\ ~v.fsm[s].exited /\ ~v.fsm[s].locReq /\ v.fsm[s].state # "waitPriv"
    /\ v.spare = w.spare /\ v.latest = w.latest /\ v.counter = w.counter
    /\ v.sent = w.sent /\ v.owed = w.owed /\ v.asked = w.asked /\ v.granted = w.granted
    /\ SameBuf(v, w)
    /\ n[s] # "closed" /\ m[s] = "open" /\ \A t \in Session \ {s} : m[t] = n[t]

\* An ordinary session gets a fresh one, the first emergency the spare one.
LEMMA FreshKeeps ==
    ASSUME NEW v, NEW w, NEW s \in Session, NEW D, NEW n, NEW m,
           Sound(w, D, n), NewFsm(v, w, s, n, m),
           v.fsm[s].state = "idle", ~v.fsm[s].counted,
           \A t \in Session \ {s} : v.fsm[t] = w.fsm[t],
           v.agps = w.agps,
           s \in Emergency => \A e \in Emergency : ~Lives(w, e)
    PROVE  Sound(v, D, m)
<1>1. w \in Worlds /\ Shared(w, D) /\ Local(w, s)
  BY DEF Sound, Base
<1>2. \A t \in Session \ {s} : Lives(v, t) <=> Lives(w, t)
  BY DEF Lives
<1>3. ~w.fsm[s].counted
  BY <1>1 DEF Local, NewFsm
<1>4. Counted(v) = Counted(w)
  BY <1>3 DEF Counted
<1>5. WaitsForPrivacy(v) = WaitsForPrivacy(w)
  BY DEF WaitsForPrivacy, NewFsm, Lives
<1>6. ASSUME NEW t \in Session PROVE Local(v, t)
  <2>1. CASE t = s
    <3>1. Consented(v, s)
      BY <1>1 DEF Local, Consented, NewFsm
    <3>2. Replied(v, s)
      BY <1>1 DEF Local, Replied, NewFsm
    <3>3. Tidied(v, s)
      BY <1>1 DEF Local, Tidied, NewFsm, Lives
    <3> QED
      BY <1>1, <2>1, <3>1, <3>2, <3>3 DEF Local, NewFsm
  <2>2. CASE t # s
    <3>1. Touches(v, w, {s})
      BY DEF Touches, NewFsm
    <3>2. t \in Session \ {s} /\ Local(w, t)
      BY <2>2 DEF Sound, Base
    <3> QED
      BY <3>1, <3>2, TouchesKeeps
  <2> QED
    BY <2>1, <2>2
<1>7. Shared(v, D)
  <2>1. \A a, b \in Emergency : Lives(v, a) /\ Lives(v, b) => a = b
    BY <1>1, <1>2, AgpsAssumption DEF Shared
  <2>2. \A t \in Session : v.fsm[t].state = "waitLocUpdate" => w.fsm[t].state = "waitLocUpdate"
    OBVIOUS
  <2>3. Lives(v, s)
    BY DEF NewFsm
  <2> QED
    BY <1>1, <1>4, <2>1, <2>2, <2>3 DEF Shared, NewFsm
<1>8. Base(v, D, m)
  BY <1>2, <1>6, <1>7 DEF Sound, Base, NewFsm
<1>9. Privacy(v, WaitsForPrivacy(v), m)
  <2> DEFINE P == WaitsForPrivacy(w)
             b == w.buf
             K == w.known
  <2>1. BufferOK(b, P, K, Later(w, n), Quiet(w))
    BY DEF Sound, Privacy
  <2>2. \A i \in 1..Len(b) : b[i].state = "completed" => b[i].session \in Quiet(w)
    BY <2>1 DEF BufferOK, Silenced
  <2>3. \A i \in 1..Len(b) : b[i].session \notin Later(w, n)
    BY <2>1 DEF BufferOK, Absent
  <2>4. s \in Quiet(w) => s \in Later(w, n)
    BY DEF Quiet, Later, NewFsm
  <2>5. Quiet(w) \ {s} \subseteq Quiet(v)
    BY <1>2 DEF Quiet
  <2>6. Later(v, m) \subseteq Later(w, n)
    BY <1>2 DEF Later, NewFsm
  <2> HIDE DEF P, b, K
  <2>7. BufferOK(b, P, K, Later(w, n), Quiet(v))
    BY <2>1, <2>2, <2>3, <2>4, <2>5 DEF BufferOK, Silenced
  <2>8. BufferOK(b, P, K, Later(v, m), Quiet(v))
    BY <2>6, <2>7, BufferWeakens
  <2>9. ASSUME OneEmergency, NEW t \in K PROVE Lives(v, t)
    <3>1. Lives(w, t) /\ t \in Session
      BY <1>1, <2>9 DEF Sound, Privacy, K, Worlds
    <3> QED
      BY <1>2, <3>1 DEF NewFsm
  <2> QED
    BY <1>5, <2>8, <2>9 DEF Privacy, NewFsm, SameBuf, P, b, K
<1>10. TimerOK(v)
  <2>1. TimerOK(w) /\ v.timer = w.timer /\ v.buf = w.buf
    BY DEF Sound, NewFsm, SameBuf
  <2> QED
    BY <2>1, Zenon DEF TimerOK
<1> QED
  BY <1>5, <1>8, <1>9, <1>10 DEF Sound, NewFsm, SameBuf

\* An emergency takes over the state machine of another, and its AGPS request.
LEMMA TakeoverKeeps ==
    ASSUME NEW v, NEW w, NEW s \in Emergency, NEW o \in Emergency, NEW D, NEW n, NEW m,
           Sound(w, D, n), NewFsm(v, w, s, n, m), Lives(w, o), w.sent = {},
           v.fsm[s].state = w.fsm[o].state,
           v.fsm[o] = NoFsm, \A t \in Session \ {s, o} : v.fsm[t] = w.fsm[t],
           v.agps = [w.agps EXCEPT !.req[s] = w.agps.req[o],
                                   !.method[s] = w.agps.method[o],
                                   !.req[o] = "none", !.method[o] = {}]
    PROVE  Sound(v, D, m)
<1>1. w \in Worlds /\ Shared(w, D) /\ s \in Session /\ o \in Session
  BY AgpsAssumption DEF Sound, Base
<1>2. o # s /\ ~OneEmergency
  BY DEF NewFsm, OneEmergency
<1>3. s \in External /\ o \in External
  BY <1>1, PrivLocAssumption DEF External
<1>4. NoFsm.state = "none" /\ ~NoFsm.counted
  BY DEF NoFsm
<1>5. /\ v.agps.req[s] = w.agps.req[o] /\ v.agps.method[s] = w.agps.method[o]
      /\ v.agps.req[o] = "none"
      /\ \A t \in Session \ {s, o} :
            v.agps.req[t] = w.agps.req[t] /\ v.agps.method[t] = w.agps.method[t]
      /\ v.agps.mode = w.agps.mode /\ v.agps.running = w.agps.running
  BY <1>1, <1>2 DEF Worlds, AgpsState
<1>6. ~Lives(v, o) /\ \A t \in Session \ {s, o} : Lives(v, t) <=> Lives(w, t)
  BY <1>4 DEF Lives
<1>7. v.sent = {}
  BY DEF NewFsm
<1>8. w.fsm[s].state = "none" /\ w.fsm[o].state # "waitPriv"
  BY <1>1 DEF NewFsm, Lives, Sound, WaitsForPrivacy
<1>9. WaitsForPrivacy(v) = WaitsForPrivacy(w)
  BY <1>1, <1>4, <1>8 DEF WaitsForPrivacy, NewFsm
<1>10. ASSUME NEW t \in Session PROVE Local(v, t)
  <2>1. CASE t = s
    <3>1. Local(w, o)
      BY <1>1 DEF Sound, Base
    <3>2. Consented(v, t) /\ Replied(v, t) /\ Tidied(v, t)
      BY <1>2, <2>1 DEF Consented, Replied, Tidied
    <3> QED
      BY <1>3, <1>5, <1>7, <2>1, <3>1, <3>2 DEF Local, NewFsm
  <2>2. CASE t = o
    <3>1. Consented(v, t) /\ Replied(v, t) /\ Tidied(v, t)
      BY <1>2, <2>2 DEF Consented, Replied, Tidied
    <3> QED
      BY <1>4, <1>7, <2>2, <3>1 DEF Local
  <2>3. CASE t \notin {s, o}
    <3>1. Touches(v, w, {s, o})
      BY <1>5 DEF Touches, NewFsm
    <3>2. t \in Session \ {s, o} /\ Local(w, t)
      BY <2>3 DEF Sound, Base
    <3> QED
      BY <3>1, <3>2, TouchesKeeps
  <2> QED
    BY <2>1, <2>2, <2>3
<1>11. Shared(v, D)
  <2>1. \A a, b \in Emergency : Lives(v, a) /\ Lives(v, b) => a = b
    <3>1. \A a \in Emergency \ {s} : ~Lives(v, a)
      BY <1>1, <1>6, AgpsAssumption DEF Shared
    <3> QED
      BY <3>1
  <2>2. \A t \in Session : v.agps.req[t] = "active" => v.agps.running
    BY <1>1, <1>5 DEF Shared
  <2>3. \A t \in Session :
          v.fsm[t].state = "waitLocUpdate" /\ (D \subseteq {t} \/ t \in Emergency)
              => Serves(v.agps.mode, v.agps.method[t])
    <3> SUFFICES ASSUME NEW t \in Session, v.fsm[t].state = "waitLocUpdate",
                        D \subseteq {t} \/ t \in Emergency
                 PROVE  Serves(v.agps.mode, v.agps.method[t])
      OBVIOUS
    <3>1. CASE t = s
      BY <1>1, <1>5, <3>1 DEF Shared
    <3>2. CASE t # s
      BY <1>1, <1>4, <1>5, <3>2 DEF Shared
    <3> QED
      BY <3>1, <3>2
  <2> QED
    BY <1>1, <1>2, <2>1, <2>2, <2>3 DEF Shared, NewFsm
<1>12. Base(v, D, m)
  BY <1>1, <1>6, <1>10, <1>11 DEF Sound, Base, NewFsm
<1>13. Privacy(v, WaitsForPrivacy(v), m)
  <2> DEFINE P == WaitsForPrivacy(w)
             b == w.buf
             K == w.known
  <2>1. BufferOK(b, P, K, Later(w, n), Quiet(w))
    BY DEF Sound, Privacy
  <2>2. Quiet(w) \subseteq Quiet(v) /\ Later(v, m) \subseteq Later(w, n)
    BY <1>6 DEF Quiet, Later, NewFsm
  <2> HIDE DEF P, b, K
  <2>3. BufferOK(b, P, K, Later(v, m), Quiet(v))
    BY <2>1, <2>2, BufferWeakens
  <2> QED
    BY <1>2, <1>9, <2>3 DEF Privacy, NewFsm, SameBuf, P, b, K
<1>14. TimerOK(v)
  <2>1. TimerOK(w) /\ v.timer = w.timer /\ v.buf = w.buf
    BY DEF Sound, NewFsm, SameBuf
  <2> QED
    BY <2>1, Zenon DEF TimerOK
<1> QED
  BY <1>9, <1>12, <1>13, <1>14 DEF Sound, NewFsm, SameBuf

\* The network sends a message that may open s: n and m are its book before and
\* after.
Opening(w, s, D, n, m) ==
    /\ Sound(w, D, n) /\ w.sent = {}
    /\ n[s] # "closed" /\ m[s] = "open" /\ \A t \in Session \ {s} : m[t] = n[t]

\* The state machine a message is for: an emergency gets one whatever the others
\* have.
LEMMA LookupKeeps ==
    ASSUME NEW w, NEW s \in Session, NEW D, NEW n, NEW m, Opening(w, s, D, n, m)
    PROVE  LET v == LookupFsm(w, s) IN
           /\ Sound(v, D, m)
           /\ v.sent = {} /\ v.owed = w.owed /\ v.asked = w.asked /\ v.buf = w.buf
           /\ ~Lives(w, s) /\ Lives(v, s) =>
                 /\ ~v.fsm[s].exited /\ ~v.fsm[s].locReq
                 /\ s \notin Emergency => \A i \in 1..Len(v.buf) : v.buf[i].session # s
<1> USE DEF Opening
<1> DEFINE v == LookupFsm(w, s)
           old == {e \in Emergency : w.fsm[e].state # "none"}
           o == CHOOSE e \in old : TRUE
<1>1. w \in Worlds /\ Shared(w, D) /\ (s \in Live(w) <=> Lives(w, s))
  BY DEF Sound, Base, Live, Lives
<1>2. Sound(w, D, m)
  <2>1. /\ \A t \in Session : m[t] = "unused" => n[t] = "unused"
        /\ \A t \in Session : n[t] = "closed" => m[t] = "closed"
    OBVIOUS
  <2> QED
    BY <2>1, SoundWeakens
<1>3. CASE v = w
  BY <1>2, <1>3
<1>4. ASSUME NewFsm(v, w, s, n, m), Sound(v, D, m)
      PROVE  /\ v.sent = {} /\ v.owed = w.owed /\ v.asked = w.asked /\ v.buf = w.buf
             /\ ~Lives(w, s) /\ Lives(v, s) =>
                 /\ ~v.fsm[s].exited /\ ~v.fsm[s].locReq
                 /\ s \notin Emergency => \A i \in 1..Len(v.buf) : v.buf[i].session # s
  <2> HIDE DEF v
  <2>1. /\ ~v.fsm[s].exited /\ ~v.fsm[s].locReq /\ v.buf = w.buf /\ ~Lives(w, s)
        /\ v.sent = w.sent /\ v.owed = w.owed /\ v.asked = w.asked
    BY <1>4 DEF NewFsm, SameBuf
  <2>2. s \notin Emergency => s \in Later(w, n)
    BY <2>1 DEF Later
  <2>3. Absent(w.buf, Later(w, n))
    BY DEF Sound, Privacy, BufferOK
  <2> QED
    BY <2>1, <2>2, <2>3 DEF Absent
<1>5. ASSUME NEW f \in Fsms, v = Put(w, s, f), ~Lives(w, s),
             f.state = "idle", ~f.exited, ~f.locReq, ~f.counted,
             s \in Emergency => \A e \in Emergency : ~Lives(w, e)
      PROVE  NewFsm(v, w, s, n, m) /\ Sound(v, D, m)
  <2> HIDE DEF v
  <2>1. /\ v \in Worlds
        /\ v.fsm[s] = f /\ \A t \in Session \ {s} : v.fsm[t] = w.fsm[t]
        /\ Kept(v, w) /\ SameBuf(v, w)
        /\ v.agps = w.agps /\ v.sent = w.sent /\ v.owed = w.owed
    BY <1>1, <1>5, PutGives
  <2>2. NewFsm(v, w, s, n, m)
    BY <1>5, <2>1 DEF NewFsm, Kept, Lives
  <2> QED
    BY <1>5, <2>1, <2>2, FreshKeeps
<1>6. CASE ~Lives(w, s) /\ s \notin Emergency
  <2>1. Fresh \in Fsms /\ Fresh.state = "idle" /\ ~Fresh.exited /\ ~Fresh.locReq /\ ~Fresh.counted
    BY DEF Fresh, NoFsm, Fsms, FsmState, Mode
  <2>2. v = w \/ v = [w EXCEPT !.fsm[s] = Fresh]
    BY <1>1, <1>6, Zenon DEF LookupFsm, GetNewFsm
  <2>3. [w EXCEPT !.fsm[s] = Fresh] = Put(w, s, Fresh)
    BY Zenon DEF Put
  <2> HIDE DEF v
  <2>4. CASE v = w
    BY <1>2, <2>4 DEF v
  <2>5. CASE v = Put(w, s, Fresh)
    <3>1. NewFsm(v, w, s, n, m) /\ Sound(v, D, m)
      BY <1>5, <1>6, <2>1, <2>5
    <3> QED
      BY <1>4, <3>1 DEF v
  <2> QED
    BY <2>2, <2>3, <2>4, <2>5
<1>7. CASE ~Lives(w, s) /\ s \in Emergency /\ old = {}
  <2> DEFINE f == ResetFsm(w.spare)
  <2>1. w.spare \in Fsms /\ w.spare.state = "idle" /\ ~w.spare.counted
    BY <1>1 DEF Worlds, Shared
  <2>2. f \in Fsms /\ f.state = "idle" /\ ~f.exited /\ ~f.locReq /\ ~f.counted
    BY <2>1, ResetGives
  <2>3. v = [w EXCEPT !.fsm[s] = f]
    BY <1>1, <1>7, Zenon DEF LookupFsm, GetNewFsm, ResetFsm
  <2> HIDE DEF f
  <2>4. v = Put(w, s, f)
    BY <2>3, Zenon DEF Put
  <2>5. \A e \in Emergency : ~Lives(w, e)
    BY <1>7 DEF Lives
  <2> HIDE DEF v
  <2>6. NewFsm(v, w, s, n, m) /\ Sound(v, D, m)
    BY <1>5, <1>7, <2>2, <2>4, <2>5
  <2> QED
    BY <1>4, <2>6 DEF v
<1>8. CASE ~Lives(w, s) /\ s \in Emergency /\ old # {}
  <2>1. o \in old
    BY <1>8
  <2>0. v = [w EXCEPT !.fsm[o] = NoFsm,
                      !.fsm[s] = ResetFsm(w.fsm[o]),
                      !.agps.req[s] = w.agps.req[o],
                      !.agps.method[s] = w.agps.method[o],
                      !.agps.req[o] = "none",
                      !.agps.method[o] = {}]
    <3>1. v = GetNewFsm(w, s)
      BY <1>1, <1>8 DEF LookupFsm
    <3>2. s \in Emergency /\ old # {}
      BY <1>8
    <3> HIDE DEF v
    <3> QED
      BY <3>1, <3>2, Zenon DEF GetNewFsm, ResetFsm
  <2>2. o \in Emergency /\ Lives(w, o) /\ o # s /\ o \in Session
    BY <1>8, <2>1, AgpsAssumption DEF Lives
  <2> HIDE DEF o
  <2> DEFINE f == ResetFsm(w.fsm[o])
             F == [w.fsm EXCEPT ![o] = NoFsm, ![s] = f]
             a == [w.agps EXCEPT !.req[s] = w.agps.req[o],
                                 !.method[s] = w.agps.method[o],
                                 !.req[o] = "none", !.method[o] = {}]
             u == [w EXCEPT !.fsm = F, !.agps = a]
  <2> HIDE DEF v
  <2>3. v = u
    <3> DEFINE A == w.agps.req[o]
               B == w.agps.method[o]
               w1 == [w EXCEPT !.fsm[o] = NoFsm, !.fsm[s] = f]
               w2 == [w1 EXCEPT !.agps.req[s] = A, !.agps.method[s] = B]
               a2 == [w.agps EXCEPT !.req[s] = A, !.method[s] = B]
               w3 == [w2 EXCEPT !.agps.req[o] = "none", !.agps.method[o] = {}]
               a3 == [a2 EXCEPT !.req[o] = "none", !.method[o] = {}]
    <3>1. v = w3
      BY <2>0
    <3>2. a = a3
      OBVIOUS
    <3> HIDE DEF A, B, f, v, a
    <3>3. w1 = [w EXCEPT !.fsm = F]
      BY <1>1 DEF Worlds
    <3> HIDE DEF F, w1
    <3>4. w2 = [w EXCEPT !.fsm = F, !.agps = a2]
      BY <1>1, <3>3 DEF Worlds, AgpsState
    <3>6. A \in RequestState /\ B \in GpsMode \union {{}}
      BY <1>1, <2>2 DEF Worlds, AgpsState, A, B
    <3>7. a2 \in AgpsState
      BY <1>1, <3>6 DEF Worlds, AgpsState
    <3> HIDE DEF w2, a2
    <3>5. w3 = [w EXCEPT !.fsm = F, !.agps = a3]
      BY <1>1, <3>4, <3>7 DEF Worlds, AgpsState
    <3> HIDE DEF w3, a3
    <3> QED
      BY <3>1, <3>2, <3>5
  <2>4. /\ f \in Fsms /\ f.state = w.fsm[o].state /\ ~f.locReq /\ ~f.exited
    BY <1>1, <2>2, ResetGives DEF Worlds
  <2>5. NoFsm \in Fsms
    BY DEF NoFsm, Fsms, FsmState, Mode
  <2> HIDE DEF f
  <2>6. /\ F \in [Session -> Fsms] /\ F[s] = f /\ F[o] = NoFsm
        /\ \A t \in Session \ {s, o} : F[t] = w.fsm[t]
    BY <1>1, <2>2, <2>4, <2>5 DEF Worlds
  <2>7. a \in AgpsState
    BY <1>1, <2>2 DEF Worlds, AgpsState, RequestState
  <2> HIDE DEF F, a
  <2>8. /\ u \in Worlds /\ u.fsm = F /\ u.agps = a
        /\ u.spare = w.spare /\ u.latest = w.latest /\ u.counter = w.counter
        /\ u.sent = w.sent /\ u.owed = w.owed /\ u.asked = w.asked /\ u.granted = w.granted
        /\ SameBuf(u, w)
    BY <1>1, <2>6, <2>7 DEF Worlds, SameBuf
  <2> HIDE DEF u
  <2>9. w.fsm[o].state \notin {"none", "waitPriv"}
    BY <2>2 DEF Lives, Sound, WaitsForPrivacy
  <2>10. NewFsm(u, w, s, n, m)
    BY <1>8, <2>4, <2>6, <2>8, <2>9 DEF NewFsm, Lives
  <2>11. u.agps = [w.agps EXCEPT !.req[s] = w.agps.req[o],
                                !.method[s] = w.agps.method[o],
                                !.req[o] = "none", !.method[o] = {}]
    BY <2>8 DEF a
  <2>12. /\ u.fsm[s].state = w.fsm[o].state /\ u.fsm[o] = NoFsm
         /\ \A t \in Session \ {s, o} : u.fsm[t] = w.fsm[t]
    BY <2>4, <2>6, <2>8
  <2>13. Sound(u, D, m)
    BY <1>8, <2>2, <2>10, <2>11, <2>12, TakeoverKeeps
  <2>14. NewFsm(v, w, s, n, m) /\ Sound(v, D, m)
    BY <2>3, <2>10, <2>13
  <2> QED
    BY <1>4, <2>14 DEF v
<1> QED
  BY <1>1, <1>3, <1>6, <1>7, <1>8 DEF LookupFsm

\* A session is about to ask for privacy: its responses are owed.
LEMMA AskKeeps ==
    ASSUME NEW w, NEW s \in External, NEW D, NEW n, Sound(w, D, n), w.sent = {},
           NEW f \in Fsms, w.fsm[s].state = "idle", ~w.fsm[s].exited,
           f.state = "waitPriv", ~f.exited, f.counted = w.fsm[s].counted,
           OneEmergency =>
               IF Type[s] = "MT" THEN ~f.locReq /\ w.asked[s] > 0
               ELSE f.locReq /\ w.owed[s] > 0,
           s \in Emergency /\ f.locReq => s \in D
    PROVE  LET v == Put(w, s, f) IN
           Asking(v, s, D, n) /\ v.buf = w.buf
<1> DEFINE v == Put(w, s, f)
<1>1. w \in Worlds /\ Base(w, D, n) /\ Local(w, s) /\ s \in Session
  BY DEF Sound, Base, External
<1>2. /\ v \in Worlds
      /\ v.fsm[s] = f /\ \A t \in Session \ {s} : v.fsm[t] = w.fsm[t]
      /\ Kept(v, w) /\ SameBuf(v, w)
      /\ v.agps = w.agps /\ v.sent = w.sent /\ v.owed = w.owed
  BY <1>1, PutGives
<1> HIDE DEF v
<1>3. Touches(v, w, {s}) /\ Lives(w, s) /\ Lives(v, s)
  BY <1>2 DEF Touches, Kept, Lives
<1>4. Local(v, s)
  <2>1. Consented(v, s)
    BY <1>2 DEF Consented
  <2>2. Replied(v, s)
    <3>1. Replied(w, s) /\ w.owed[s] \in Int /\ w.asked[s] \in Int
      BY <1>1 DEF Local, Worlds
    <3>2. Type[s] \in {"MT", "NI"}
      BY DEF External
    <3> QED
      BY <1>2, <3>1, <3>2 DEF Replied, Kept
  <2>3. Tidied(v, s)
    BY <1>1, <1>2, <1>3 DEF Local, Tidied
  <2> QED
    BY <1>2, <1>3, <2>1, <2>2, <2>3 DEF Local
<1>5. Base(v, D, n)
  <2>1. Almost(w, s, D, n)
    BY <1>1, AlmostAndLocal
  <2> QED
    BY <1>1, <1>2, <1>3, <1>4, <2>1, AsideKeeps DEF Kept
<1>6. /\ \A t \in Session : Lives(v, t) <=> Lives(w, t)
      /\ Later(v, n) = Later(w, n) /\ Quiet(v) = Quiet(w)
      /\ WaitsForPrivacy(v) = WaitsForPrivacy(w) \union {s}
      /\ s \notin WaitsForPrivacy(w)
  BY <1>1, <1>2, <1>3 DEF Lives, Later, Quiet, WaitsForPrivacy
<1>7. Privacy(v, WaitsForPrivacy(v) \ {s}, n)
  <2>1. Privacy(w, WaitsForPrivacy(w), n)
    BY DEF Sound
  <2>2. WaitsForPrivacy(v) \ {s} = WaitsForPrivacy(w)
    BY <1>6
  <2>3. w.known \subseteq Session /\ v.known = w.known /\ v.buf = w.buf
    BY <1>1, <1>2 DEF Worlds, SameBuf
  <2> QED
    BY <1>6, <2>1, <2>2, <2>3 DEF Privacy
<1>8. TimerOK(v)
  <2>1. TimerOK(w) /\ v.timer = w.timer /\ v.buf = w.buf
    BY <1>2 DEF Sound, SameBuf
  <2> QED
    BY <2>1, Zenon DEF TimerOK
<1>9. WaitsForPrivacy(v) \intersect Emergency \subseteq {s}
  BY <1>6 DEF Sound
<1>10. v.sent = {} /\ v.fsm[s] = f /\ v.buf = w.buf /\ NewAt(v.buf) = {}
  BY <1>2 DEF Sound, SameBuf
<1> QED
  BY <1>5, <1>7, <1>8, <1>9, <1>10 DEF v, Asking

\* A session is located, or answered at once.
LEMMA EnterSound ==
    ASSUME NEW w, NEW s \in Session, NEW D, NEW n, NEW method \in Mode,
           NEW complete \in BOOLEAN, NEW cached \in BOOLEAN,
           Sound(w, D, n), Ready(w, s, D)
    PROVE  Sound(EnterWaitLocUpdate(w, s, method, complete, cached), D, n)
<1> DEFINE v == EnterWaitLocUpdate(w, s, method, complete, cached)
<1>1. w \in Worlds /\ Almost(w, s, D, n)
  BY AlmostAndLocal DEF Sound, Base
<1>2. Entered(v, w, s)
  BY <1>1, EnterGives
<1> HIDE DEF v
<1>3. Base(v, D, n) /\ Called(v, w, s)
  BY <1>1, <1>2, EnteredKeeps
<1>4. Sound(v, D, n)
  BY <1>3, CalledSound
<1> QED
  BY <1>4 DEF v

\* Other contents of a state machine, of which no property speaks.
LEMMA AlikePut ==
    ASSUME NEW w, NEW s \in Session, NEW D, NEW n, NEW f \in Fsms, Sound(w, D, n),
           f.state = w.fsm[s].state, f.locReq = w.fsm[s].locReq, f.exited = w.fsm[s].exited,
           f.counted = w.fsm[s].counted, f.cancelled = w.fsm[s].cancelled
    PROVE  LET v == Put(w, s, f) IN
           /\ Sound(v, D, n)
           /\ v.fsm[s] = f /\ v.sent = w.sent /\ v.owed = w.owed /\ v.buf = w.buf
<1> DEFINE v == Put(w, s, f)
<1>1. w \in Worlds /\ \A t \in Session : w.owed[t] \in Int /\ w.asked[t] \in Int
  BY DEF Sound, Base, Worlds
<1>2. /\ v \in Worlds
      /\ v.fsm[s] = f /\ \A t \in Session \ {s} : v.fsm[t] = w.fsm[t]
      /\ Kept(v, w) /\ SameBuf(v, w)
      /\ v.agps = w.agps /\ v.sent = w.sent /\ v.owed = w.owed
  BY <1>1, PutGives
<1> HIDE DEF v
<1>3. Alike(v, w)
  <2>1. ASSUME NEW t \in Session
        PROVE  /\ v.fsm[t].state = w.fsm[t].state /\ v.fsm[t].locReq = w.fsm[t].locReq
               /\ v.fsm[t].exited = w.fsm[t].exited /\ v.fsm[t].counted = w.fsm[t].counted
               /\ v.fsm[t].cancelled = w.fsm[t].cancelled
               /\ v.owed[t] >= w.owed[t] /\ v.asked[t] >= w.asked[t]
    <3>1. v.owed[t] = w.owed[t] /\ v.asked[t] = w.asked[t]
      BY <1>2 DEF Kept
    <3>2. v.fsm[t] = w.fsm[t] \/ (t = s /\ v.fsm[t] = f)
      BY <1>2
    <3> QED
      BY <1>1, <3>1, <3>2
  <2> QED
    BY <1>2, <2>1 DEF Alike, Kept
<1>4. Sound(v, D, n)
  BY <1>2, <1>3, AlikeSound
<1> QED
  BY <1>2, <1>4 DEF v, SameBuf

\* The last contents count.
LEMMA PutTwice ==
    ASSUME NEW w \in Worlds, NEW s \in Session, NEW f \in Fsms, NEW g \in Fsms
    PROVE  Put(Put(w, s, f), s, g) = Put(w, s, g)
<1> DEFINE a == [w.fsm EXCEPT ![s] = f]
           b == [w.fsm EXCEPT ![s] = g]
<1>1. [a EXCEPT ![s] = g] = b
  BY DEF Worlds
<1>2. Put(w, s, f) = [w EXCEPT !.fsm = a] /\ Put(w, s, g) = [w EXCEPT !.fsm = b]
  BY DEF Put
<1> HIDE DEF a, b
<1> QED
  BY <1>1, <1>2 DEF Put, Worlds

\* A request for a position to a session that is Idle.
LEMMA IdleNetKeeps ==
    ASSUME NEW w, NEW s \in Session, NEW D, NEW n, NEW method \in Mode,
           NEW complete \in BOOLEAN, NEW cached \in BOOLEAN,
           NEW admin \in {"on", "alwaysVerify", "off", "offButNotify"},
           Sound(w, D, n), w.sent = {}, w.fsm[s].state = "idle",
           OneEmergency => w.owed[s] > 0,
           s \in Emergency => s \in D
    PROVE  Sound(IdleNetLocRequest(w, s, method, complete, admin, cached), D, n)
<1> DEFINE v == IdleNetLocRequest(w, s, method, complete, admin, cached)
           h == w.fsm[s]
<1>1. w \in Worlds /\ h \in Fsms /\ Local(w, s) /\ Type[s] \in {"MT", "NI", "SELF", "X3P", "NL"}
  BY PrivLocAssumption DEF Sound, Base, Worlds
<1>2. CASE h.exited \/ Type[s] = "MT"
  <2>1. v = SendNetLocResponse(w, s, "denied")
    BY <1>2 DEF IdleNetLocRequest
  <2> HIDE DEF v
  <2> QED
    BY <2>1, ResponseSound DEF v
<1>3. CASE ~h.exited /\ Type[s] = "NI"
  <2> DEFINE verify == admin = "alwaysVerify" /\ s \notin Emergency
             advice == IF verify THEN "verify" ELSE "notify"
             action == IF verify THEN "reject" ELSE "allow"
             f == [h EXCEPT !.locReq = TRUE, !.method = method, !.complete = complete,
                            !.state = "waitPriv"]
             u == Put(w, s, f)
             u0 == [w EXCEPT !.fsm[s].locReq = TRUE, !.fsm[s].method = method,
                             !.fsm[s].complete = complete, !.fsm[s].state = "waitPriv"]
  <2>1. v = ProcessNetworkLocationRequest(u0, s, advice, action, admin, cached)
    BY <1>3 DEF IdleNetLocRequest
  <2>2. u0 = u
    <3> DEFINE f1 == [h EXCEPT !.locReq = TRUE, !.method = method]
               w1 == [w EXCEPT !.fsm[s].locReq = TRUE, !.fsm[s].method = method]
               w2 == [w1 EXCEPT !.fsm[s].complete = complete, !.fsm[s].state = "waitPriv"]
    <3>1. u0 = w2
      OBVIOUS
    <3>2. f = [f1 EXCEPT !.complete = complete, !.state = "waitPriv"]
      OBVIOUS
    <3>3. w1 = Put(w, s, f1)
      BY <1>1 DEF Put, Worlds, Fsms
    <3>4. f1 \in Fsms
      BY <1>1 DEF Fsms
    <3> DEFINE g == [f1 EXCEPT !.complete = complete, !.state = "waitPriv"]
    <3>6. g \in Fsms
      BY <3>4 DEF Fsms, FsmState
    <3> HIDE DEF w1, f1
    <3>7. w1 \in Worlds /\ w1.fsm[s] = f1
      BY <1>1, <3>3, <3>4, PutGives
    <3>8. w2 = Put(w1, s, g)
      BY <3>4, <3>7 DEF Put, Worlds, Fsms
    <3> HIDE DEF g, w2
    <3>9. Put(w1, s, g) = Put(w, s, g)
      BY <1>1, <3>3, <3>4, <3>6, PutTwice
    <3>5. w2 = Put(w, s, f)
      BY <3>2, <3>8, <3>9 DEF g
    <3> HIDE DEF f, u0
    <3> QED
      BY <3>1, <3>5
  <2>3. /\ f \in Fsms /\ f.state = "waitPriv" /\ ~f.exited /\ f.counted = h.counted /\ f.locReq
    BY <1>1, <1>3 DEF Fsms, FsmState
  <2> HIDE DEF f
  <2>4. s \in External
    BY <1>3 DEF External
  <2>5. Asking(u, s, D, n)
    BY <1>3, <2>3, <2>4, AskKeeps
  <2>6. MayAsk(u, s, advice, action, admin)
    BY DEF MayAsk
  <2>7. advice \in {"verify", "notify", "silent", "stealth"} /\ action \in {"allow", "reject"}
    OBVIOUS
  <2> HIDE DEF u, advice, action, u0, v
  <2>8. Sound(ProcessNetworkLocationRequest(u, s, advice, action, admin, cached), D, n)
    BY <2>5, <2>6, <2>7, ProcessKeeps
  <2> QED
    BY <2>1, <2>2, <2>8 DEF v
<1>4. CASE ~h.exited /\ Type[s] \notin {"MT", "NI"}
  <2>1. v = EnterWaitLocUpdate(w, s, method, complete, cached)
    BY <1>4 DEF IdleNetLocRequest
  <2>2. s \notin External /\ s \notin Emergency
    BY <1>4, PrivLocAssumption DEF External
  <2>3. Ready(w, s, D)
    BY <1>1, <1>4, <2>2 DEF Ready, Lives, Local, Tidied
  <2> HIDE DEF v
  <2> QED
    BY <2>1, <2>3, EnterSound DEF v
<1> QED
  BY <1>1, <1>2, <1>3, <1>4

\* A request for a position to a session that has a state machine.
LEMMA FsmNetKeeps ==
    ASSUME NEW w, NEW s \in Session, NEW D, NEW n, NEW method \in Mode,
           NEW complete \in BOOLEAN, NEW cached \in BOOLEAN,
           NEW admin \in {"on", "alwaysVerify", "off", "offButNotify"},
           Sound(w, D, n), w.sent = {}, Lives(w, s),
           OneEmergency => w.owed[s] > 0,
           s \in Emergency => s \in D
    PROVE  Sound(FsmNetLocRequest(w, s, method, complete, admin, cached), D, n)
<1> DEFINE v == FsmNetLocRequest(w, s, method, complete, admin, cached)
           f == w.fsm[s]
           tap == method = {"ta"} /\ ~(f.state = "idle" /\ f.exited)
           g == [f EXCEPT !.tap = f.tap \/ tap]
           x0 == [w EXCEPT !.fsm[s].tap = @ \/ tap]
           x == Put(w, s, g)
<1>1. w \in Worlds /\ f \in Fsms
  BY DEF Sound, Base, Worlds
<1>2. tap \in BOOLEAN /\ f.tap \in BOOLEAN
  BY <1>1 DEF Fsms
<1> HIDE DEF tap
<1>3. /\ g \in Fsms
      /\ g.state = f.state /\ g.locReq = f.locReq /\ g.exited = f.exited
      /\ g.counted = f.counted /\ g.cancelled = f.cancelled
  BY <1>1, <1>2 DEF Fsms
<1>4. x0 = x
  BY <1>1 DEF Put, Worlds, Fsms
<1> HIDE DEF g
<1>5. /\ Sound(x, D, n)
      /\ x.fsm[s] = g /\ x.sent = {} /\ x.owed = w.owed /\ x.buf = w.buf
  BY <1>3, AlikePut
<1>6. /\ f.state = "idle" => v = IdleNetLocRequest(x, s, method, complete, admin, cached)
      /\ f.state = "waitPriv" =>
            v = [x EXCEPT !.fsm[s].method = method, !.fsm[s].complete = complete,
                          !.fsm[s].locReq = TRUE]
      /\ f.state = "waitLocUpdate" => v = EnterWaitLocUpdate(x, s, method, complete, cached)
      /\ f.state = "waitLocReq" =>
            v = IF f.cancelled THEN SendNetLocResponse(x, s, "cancelled")
                ELSE EnterWaitLocUpdate(x, s, method, complete, cached)
  <2>1. x0 = x
    BY <1>4
  <2> HIDE DEF x
  <2> QED
    BY <2>1 DEF FsmNetLocRequest, tap
<1> HIDE DEF v, x0, x
<1>7. /\ x \in Worlds /\ Local(x, s) /\ x.fsm[s] \in Fsms
      /\ Type[s] \in {"MT", "NI", "SELF", "X3P", "NL"}
  BY <1>5, PrivLocAssumption DEF Sound, Base, Worlds
<1>8. OneEmergency => x.owed[s] > 0
  BY <1>5
<1>9. CASE f.state = "idle"
  BY <1>3, <1>5, <1>6, <1>8, <1>9, IdleNetKeeps DEF v
<1>10. CASE f.state = "waitPriv"
  <2> DEFINE h == [g EXCEPT !.method = method, !.complete = complete, !.locReq = TRUE]
             u == Put(x, s, h)
  <2>1. h \in Fsms /\ h.state = "waitPriv" /\ h.exited = g.exited /\ h.counted = g.counted /\ h.locReq
    BY <1>3, <1>10 DEF Fsms
  <2>2. v = u
    <3>1. v = [x EXCEPT !.fsm[s].method = method, !.fsm[s].complete = complete,
                        !.fsm[s].locReq = TRUE]
      BY <1>6, <1>10
    <3> DEFINE h1 == [g EXCEPT !.method = method, !.complete = complete]
               w1 == [x EXCEPT !.fsm[s].method = method, !.fsm[s].complete = complete]
               h2 == [h1 EXCEPT !.locReq = TRUE]
               w2 == [w1 EXCEPT !.fsm[s].locReq = TRUE]
    <3>2. v = w2 /\ h = h2
      BY <3>1
    <3>3. h1 \in Fsms /\ h2 \in Fsms
      BY <1>3 DEF Fsms
    <3>4. w1 = Put(x, s, h1)
      <4>1. w1 = Put(x, s, [x.fsm[s] EXCEPT !.method = method, !.complete = complete])
        BY <1>7 DEF Put, Worlds
      <4> QED
        BY <1>5, <4>1
    <3> HIDE DEF w1, h1
    <3>5. w1 \in Worlds /\ w1.fsm[s] = h1
      BY <1>7, <3>3, <3>4, PutGives
    <3>6. w2 = Put(w1, s, h2)
      BY <3>3, <3>5 DEF Put, Worlds, Fsms
    <3> HIDE DEF w2, h2, h
    <3>7. Put(w1, s, h2) = Put(x, s, h2)
      BY <1>7, <3>3, <3>4, PutTwice
    <3> QED
      BY <3>2, <3>6, <3>7
  <2> HIDE DEF h
  <2>3. /\ u \in Worlds
        /\ u.fsm[s] = h /\ \A t \in Session \ {s} : u.fsm[t] = x.fsm[t]
        /\ Kept(u, x) /\ SameBuf(u, x)
        /\ u.agps = x.agps /\ u.sent = x.sent /\ u.owed = x.owed
    BY <1>7, <2>1, PutGives
  <2> HIDE DEF u
  <2>4. Touches(u, x, {s})
    BY <2>3 DEF Touches, Kept
  <2>5. Local(u, s)
    <3>1. Consented(u, s)
      BY <1>5, <1>7, <2>1, <2>3 DEF Local, Consented
    <3>2. Replied(u, s)
      <4>1. Replied(x, s) /\ x.owed[s] \in Int /\ x.asked[s] \in Int
        BY <1>7 DEF Local, Worlds
      <4> QED
        BY <1>3, <1>5, <1>8, <1>10, <2>1, <2>3, <4>1 DEF Replied, Kept
    <3>3. Tidied(u, s)
      BY <1>3, <1>5, <1>7, <1>10, <2>1, <2>3 DEF Local, Tidied, Lives
    <3> QED
      BY <1>3, <1>5, <1>7, <1>10, <2>1, <2>3, <3>1, <3>2, <3>3 DEF Local, Lives
  <2>6. Sound(u, D, n)
    BY <1>3, <1>5, <1>10, <2>1, <2>3, <2>4, <2>5, AsideSound DEF Kept
  <2> QED
    BY <2>2, <2>6 DEF v
<1>11. CASE f.state = "waitLocUpdate"
  <2>1. Ready(x, s, D)
    BY <1>3, <1>5, <1>7, <1>8, <1>11 DEF Ready, Lives, Local, Consented, Replied, Tidied
  <2> QED
    BY <1>5, <1>6, <1>11, <2>1, EnterSound DEF v
<1>12. CASE f.state = "waitLocReq"
  <2>1. CASE f.cancelled
    BY <1>3, <1>5, <1>6, <1>8, <1>12, <2>1, ResponseSound DEF v
  <2>2. CASE ~f.cancelled
    <3>1. Ready(x, s, D)
      BY <1>3, <1>5, <1>7, <1>8, <1>12, <2>2 DEF Ready, Lives, Local, Consented, Replied, Tidied
    <3> QED
      BY <1>5, <1>6, <1>12, <2>2, <3>1, EnterSound DEF v
  <2> QED
    BY <2>1, <2>2
<1> QED
  BY <1>1, <1>9, <1>10, <1>11, <1>12 DEF Lives, Fsms, FsmState

\* The sessions in S are answered and wait for the next request.
LEMMA ExitWaitSound ==
    ASSUME NEW w, NEW D, NEW n, NEW S \in SUBSET Session, NEW what,
           Sound(w, D, n), w.sent = {},
           \A s \in S : w.fsm[s].state = "waitLocUpdate" /\ what[s] \in Place \union {"error"}
    PROVE  Sound(ExitWaitLocUpdate(w, S, what), D, n)
<1> DEFINE v == ExitWaitLocUpdate(w, S, what)
<1>1. w \in Worlds /\ w.agps \in AgpsState /\ Shared(w, D)
  BY DEF Sound, Base, Worlds
<1>2. \A s \in S : what[s] \in Responses /\ what[s] # "refused"
  BY DEF Responses, Place
<1>3. /\ v \in Worlds
      /\ \A s \in S : /\ v.fsm[s] = [w.fsm[s] EXCEPT !.state = "waitLocReq", !.cancelled = FALSE]
                      /\ v.owed[s] = w.owed[s] - 1
      /\ \A s \in Session \ S : v.fsm[s] = w.fsm[s] /\ v.owed[s] = w.owed[s]
      /\ v.agps = HoldPositioning(w.agps, S)
      /\ v.sent = w.sent \union {<<s, what[s]>> : s \in S}
      /\ Kept(v, w) /\ SameBuf(v, w)
  BY <1>1, <1>2, ExitWaitGives
<1>4. /\ v.agps.mode = w.agps.mode /\ v.agps.running = w.agps.running
      /\ v.agps.method = w.agps.method
      /\ \A t \in S : v.agps.req[t] = IF w.agps.req[t] = "none" THEN "none" ELSE "hold"
      /\ \A t \in Session \ S : v.agps.req[t] = w.agps.req[t]
  <2> DEFINE a == w.agps
             b == HoldPositioning(a, S)
  <2>1. a \in AgpsState
    BY <1>1
  <2> HIDE DEF a
  <2>2. /\ b.mode = a.mode /\ b.running = a.running /\ b.method = a.method
        /\ \A t \in S : b.req[t] = IF a.req[t] = "none" THEN "none" ELSE "hold"
        /\ \A t \in Session \ S : b.req[t] = a.req[t]
    BY <2>1, HoldGives
  <2>3. v.agps = b
    BY <1>3 DEF a
  <2> HIDE DEF v, b
  <2> QED
    BY <2>2, <2>3 DEF a
<1> HIDE DEF v
<1>5. ASSUME NEW s \in S
      PROVE  /\ v.fsm[s].state = "waitLocReq" /\ ~v.fsm[s].cancelled
             /\ v.fsm[s].counted = w.fsm[s].counted /\ v.fsm[s].exited = w.fsm[s].exited
             /\ w.fsm[s].state = "waitLocUpdate"
             /\ \A x : <<s, x>> \in v.sent <=> x = what[s]
  <2>1. w.fsm[s] \in Fsms
    BY <1>1 DEF Worlds
  <2>2. v.fsm[s] = [w.fsm[s] EXCEPT !.state = "waitLocReq", !.cancelled = FALSE]
    BY <1>3
  <2>3. \A x : <<s, x>> \in v.sent <=> x = what[s]
    <3>1. v.sent = {<<t, what[t]>> : t \in S}
      BY <1>3
    <3>2. <<s, what[s]>> \in v.sent
      BY <3>1
    <3>3. ASSUME NEW x, <<s, x>> \in v.sent
          PROVE  x = what[s]
      <4>1. PICK t \in S : <<s, x>> = <<t, what[t]>>
        BY <3>1, <3>3
      <4> QED
        BY <4>1
    <3> QED
      BY <3>2, <3>3
  <2> QED
    BY <2>1, <2>2, <2>3 DEF Fsms
<1>6. \A t \in Session \ S : \A x : <<t, x>> \notin v.sent
  BY <1>3
<1>7. /\ \A t \in Session : Lives(v, t) <=> Lives(w, t)
      /\ \A t \in Session : v.fsm[t].exited = w.fsm[t].exited /\ v.fsm[t].counted = w.fsm[t].counted
      /\ \A t \in Session : v.fsm[t].state = "waitPriv" <=> w.fsm[t].state = "waitPriv"
  BY <1>3, <1>5 DEF Lives
<1>8. /\ WaitsForPrivacy(v) = WaitsForPrivacy(w)
      /\ Later(v, n) = Later(w, n) /\ Quiet(v) = Quiet(w) /\ Counted(v) = Counted(w)
  BY <1>7 DEF WaitsForPrivacy, Later, Quiet, Counted
<1>9. ASSUME NEW t \in Session PROVE Local(v, t)
  <2>1. Local(w, t)
    BY DEF Sound, Base
  <2>2. CASE t \in S
    <3>1. Consented(v, t)
      BY <1>3, <1>5, <2>1, <2>2 DEF Local, Consented, Kept
    <3>2. Replied(v, t)
      <4>1. Replied(w, t) /\ w.owed[t] \in Int
        BY <1>1, <2>1 DEF Local, Worlds
      <4>2. /\ v.fsm[t].state = "waitLocReq" /\ w.fsm[t].state = "waitLocUpdate"
            /\ v.owed[t] = w.owed[t] - 1 /\ v.asked[t] = w.asked[t]
        BY <1>3, <1>5, <2>2 DEF Kept
      <4> QED
        BY <4>1, <4>2 DEF Replied
    <3>3. Tidied(v, t)
      BY <1>4, <1>5, <1>7, <2>1, <2>2 DEF Local, Tidied
    <3> QED
      BY <1>2, <1>5, <1>7, <2>1, <2>2, <3>1, <3>2, <3>3 DEF Local
  <2>3. CASE t \notin S
    <3>1. Touches(v, w, S)
      BY <1>3, <1>4, <1>6 DEF Touches, Kept
    <3>2. t \in Session \ S
      BY <2>3
    <3> QED
      BY <2>1, <3>1, <3>2, TouchesKeeps
  <2> QED
    BY <2>2, <2>3
<1>10. Shared(v, D)
  <2>1. \A t \in Session : v.agps.req[t] = "active" => w.agps.req[t] = "active"
    BY <1>4
  <2>2. \A t \in Session : v.fsm[t].state = "waitLocUpdate" => w.fsm[t].state = "waitLocUpdate"
    BY <1>3, <1>5
  <2>3. \A a, b \in Emergency : Lives(v, a) /\ Lives(v, b) => a = b
    BY <1>1, <1>7, AgpsAssumption DEF Shared
  <2>4. (\A t \in Session : ~Lives(v, t)) => \A t \in Session : ~Lives(w, t)
    BY <1>7
  <2>5. v.spare = w.spare /\ v.latest = w.latest /\ v.counter = w.counter
    BY <1>3 DEF Kept
  <2>6. \A t \in Session :
          v.fsm[t].state = "waitLocUpdate" /\ (D \subseteq {t} \/ t \in Emergency)
              => Serves(v.agps.mode, v.agps.method[t])
    BY <1>1, <1>4, <2>2 DEF Shared
  <2>7. /\ \A t \in Session : v.agps.req[t] = "active" => v.agps.running
        /\ OneEmergency /\ NoneReplaced /\ (\A t \in Session : ~Lives(v, t)) => ~v.agps.running
    BY <1>1, <1>4, <2>1, <2>4 DEF Shared
  <2> QED
    BY <1>1, <1>8, <2>3, <2>5, <2>6, <2>7 DEF Shared
<1>11. Base(v, D, n)
  BY <1>3, <1>7, <1>9, <1>10 DEF Sound, Base
<1>12. Privacy(v, WaitsForPrivacy(v), n)
  <2>1. Privacy(w, WaitsForPrivacy(w), n) /\ w.known \subseteq Session
    BY <1>1 DEF Sound, Worlds
  <2> QED
    BY <1>3, <1>7, <1>8, <2>1 DEF Privacy, SameBuf
<1>13. TimerOK(v)
  <2>1. TimerOK(w) /\ v.timer = w.timer /\ v.buf = w.buf
    BY <1>3 DEF Sound, SameBuf
  <2> QED
    BY <2>1, Zenon DEF TimerOK
<1>14. Sound(v, D, n)
  BY <1>3, <1>8, <1>11, <1>12, <1>13 DEF Sound, SameBuf
<1> QED
  BY <1>14 DEF v

\* The world a session that had a state machine leaves behind.
Ended(w, s) ==
    LET x == ExitSessionComplete(w, s)
        f == w.fsm[s]
        idle == [f EXCEPT !.state = "idle", !.counted = FALSE]
    IN  [x EXCEPT
           !.fsm[s] = NoFsm,
           !.spare = IF s \in Emergency THEN idle ELSE @,
           !.counter = IF LocationManagement /\ f.counted /\ @ > 0 THEN @ - 1 ELSE @,
           !.latest = [t \in DOMAIN @ |-> IF t = Type[s] THEN NoSession ELSE @[t]],
           !.granted = @ \ {s}]

\* Where OnSessionComplete leaves the session.
LEMMA EndedGives ==
    ASSUME NEW w \in Worlds, NEW s \in Session
    PROVE  LET v == Ended(w, s) IN
           /\ v \in Worlds
           /\ v.fsm[s] = NoFsm /\ \A t \in Session \ {s} : v.fsm[t] = w.fsm[t]
           /\ v.spare = w.spare \/ (v.spare.state = "idle" /\ ~v.spare.counted)
           /\ v.counter = IF LocationManagement /\ w.fsm[s].counted /\ w.counter > 0
                        THEN w.counter - 1 ELSE w.counter
           /\ \A t \in {"SELF", "X3P"} : v.latest[t] = NoSession \/ v.latest[t] = w.latest[t]
           /\ v.granted = w.granted \ {s}
           /\ v.agps = StopPositioning(w.agps, s)
           /\ Drops(v, w, s)
           /\ v.sent = w.sent /\ v.owed = w.owed /\ v.asked = w.asked
<1> DEFINE v == Ended(w, s)
           x == ExitSessionComplete(w, s)
           f == w.fsm[s]
           idle == [f EXCEPT !.state = "idle", !.counted = FALSE]
           F == [w.fsm EXCEPT ![s] = NoFsm]
           sp == IF s \in Emergency THEN idle ELSE w.spare
           c == IF LocationManagement /\ f.counted /\ w.counter > 0 THEN w.counter - 1 ELSE w.counter
           l == [t \in {"SELF", "X3P"} |-> IF t = Type[s] THEN NoSession ELSE w.latest[t]]
           g == w.granted \ {s}
           u == [x EXCEPT !.fsm = F, !.spare = sp, !.counter = c, !.latest = l, !.granted = g]
<1>1. /\ x \in Worlds
      /\ x.agps = StopPositioning(w.agps, s)
      /\ Drops(x, w, s)
      /\ Kept(x, w) /\ x.fsm = w.fsm /\ x.sent = w.sent /\ x.owed = w.owed
  BY ExitCompleteGives
<1> HIDE DEF x
<1>2. NoFsm \in Fsms /\ f \in Fsms
  BY DEF NoFsm, Fsms, FsmState, Mode, Worlds
<1>3. idle \in Fsms /\ idle.state = "idle" /\ ~idle.counted
  BY <1>2 DEF Fsms, FsmState
<1> HIDE DEF idle
<1>4. /\ F \in [Session -> Fsms] /\ F[s] = NoFsm /\ \A t \in Session \ {s} : F[t] = w.fsm[t]
      /\ sp \in Fsms /\ (sp = w.spare \/ (sp.state = "idle" /\ ~sp.counted))
      /\ c \in Nat /\ g \in SUBSET Session
      /\ l \in [{"SELF", "X3P"} -> Session \union {NoSession}]
      /\ \A t \in {"SELF", "X3P"} : l[t] = NoSession \/ l[t] = w.latest[t]
  BY <1>2, <1>3 DEF Worlds
<1>5. v = u
  <2>1. v = [x EXCEPT
           !.fsm[s] = NoFsm,
           !.spare = IF s \in Emergency THEN idle ELSE @,
           !.counter = IF LocationManagement /\ f.counted /\ @ > 0 THEN @ - 1 ELSE @,
           !.latest = [t \in DOMAIN @ |-> IF t = Type[s] THEN NoSession ELSE @[t]],
           !.granted = @ \ {s}]
    BY DEF Ended, x, idle
  <2>2. DOMAIN x.latest = {"SELF", "X3P"}
    BY <1>1 DEF Worlds
  <2>3. /\ x.spare = w.spare /\ x.counter = w.counter /\ x.latest = w.latest
        /\ x.granted = w.granted /\ x.fsm = w.fsm
    BY <1>1 DEF Kept
  <2>4. /\ [x.fsm EXCEPT ![s] = NoFsm] = F
        /\ (IF s \in Emergency THEN idle ELSE x.spare) = sp
        /\ (IF LocationManagement /\ f.counted /\ x.counter > 0 THEN x.counter - 1 ELSE x.counter) = c
        /\ [t \in DOMAIN x.latest |-> IF t = Type[s] THEN NoSession ELSE x.latest[t]] = l
        /\ x.granted \ {s} = g
    BY <2>2, <2>3
  <2> HIDE DEF F, sp, c, l, g, v
  <2> QED
    BY <2>1, <2>4
<1> HIDE DEF F, sp, c, l, g, v
<1>6. /\ u \in Worlds /\ u.fsm = F /\ u.spare = sp /\ u.counter = c /\ u.latest = l /\ u.granted = g
      /\ u.agps = x.agps /\ u.sent = x.sent /\ u.owed = x.owed /\ u.asked = x.asked
      /\ u.buf = x.buf /\ u.timer = x.timer /\ u.known = x.known
  BY <1>1, <1>4 DEF Worlds
<1> HIDE DEF u
<1>7. Drops(u, w, s)
  BY <1>1, <1>6 DEF Drops, SameBuf
<1> QED
  BY <1>1, <1>4, <1>5, <1>6, <1>7 DEF c, g, v, Kept

\* The end of a session: nothing of it is left.
LEMMA EndedSound ==
    ASSUME NEW w, NEW s \in Session, NEW D, NEW n, NEW m, Sound(w, D, n), w.sent = {},
           m[s] = "closed", \A t \in Session \ {s} : m[t] = n[t]
    PROVE  Sound(Ended(w, s), D, m)
<1> DEFINE v == Ended(w, s)
<1>1. w \in Worlds /\ w.agps \in AgpsState /\ Shared(w, D) /\ Local(w, s)
  BY DEF Sound, Base, Worlds
<1>2. /\ v \in Worlds
      /\ v.fsm[s] = NoFsm /\ \A t \in Session \ {s} : v.fsm[t] = w.fsm[t]
      /\ v.spare = w.spare \/ (v.spare.state = "idle" /\ ~v.spare.counted)
      /\ v.counter = IF LocationManagement /\ w.fsm[s].counted /\ w.counter > 0
                        THEN w.counter - 1 ELSE w.counter
      /\ \A t \in {"SELF", "X3P"} : v.latest[t] = NoSession \/ v.latest[t] = w.latest[t]
      /\ v.granted = w.granted \ {s}
      /\ v.agps = StopPositioning(w.agps, s)
      /\ Drops(v, w, s)
      /\ v.sent = w.sent /\ v.owed = w.owed /\ v.asked = w.asked
  BY <1>1, EndedGives
<1>3. /\ v.agps.req[s] = "none"
      /\ \A t \in Session \ {s} :
            v.agps.req[t] = w.agps.req[t] /\ v.agps.method[t] = w.agps.method[t]
      /\ \A t \in Session \ {s} :
            w.agps.req[t] = "active" => v.agps.mode = w.agps.mode /\ v.agps.running
      /\ (\A t \in Session \ {s} : w.agps.req[t] = "none") => ~v.agps.running
  <2> DEFINE a == w.agps
             b == StopPositioning(a, s)
  <2>1. a \in AgpsState
    BY <1>1
  <2> HIDE DEF a
  <2>2. /\ b.req[s] = "none"
        /\ \A t \in Session \ {s} : b.req[t] = a.req[t] /\ b.method[t] = a.method[t]
        /\ \A t \in Session \ {s} : a.req[t] = "active" => b.mode = a.mode /\ b.running
        /\ (\A t \in Session \ {s} : a.req[t] = "none") => ~b.running
    BY <2>1, StopGives
  <2>3. v.agps = b
    BY <1>2 DEF a
  <2> HIDE DEF v, b
  <2> QED
    BY <2>2, <2>3 DEF a
<1> HIDE DEF v
<1>4. NoFsm.state = "none" /\ ~NoFsm.counted
  BY DEF NoFsm
<1>5. ~Lives(v, s) /\ \A t \in Session \ {s} : Lives(v, t) <=> Lives(w, t)
  BY <1>2, <1>4 DEF Lives
<1>6. WaitsForPrivacy(v) = WaitsForPrivacy(w) \ {s}
  BY <1>2, <1>4 DEF WaitsForPrivacy
<1>7. ASSUME NEW t \in Session PROVE Local(v, t)
  <2>1. CASE t = s
    <3>1. Consented(v, t)
      BY <1>2, <1>4, <2>1 DEF Consented
    <3>2. Replied(v, t)
      BY <1>1, <1>2, <1>4, <2>1 DEF Local, Replied
    <3>3. Tidied(v, t)
      BY <1>2, <1>3, <1>4, <2>1 DEF Tidied
    <3> QED
      BY <1>1, <1>2, <1>4, <2>1, <3>1, <3>2, <3>3 DEF Local
  <2>2. CASE t # s
    <3>1. Touches(v, w, {s})
      BY <1>2, <1>3 DEF Touches
    <3>2. t \in Session \ {s} /\ Local(w, t)
      BY <2>2 DEF Sound, Base
    <3> QED
      BY <3>1, <3>2, TouchesKeeps
  <2> QED
    BY <2>1, <2>2
<1>8. OneEmergency /\ LocationManagement => v.counter = Cardinality(Counted(v))
  <2> SUFFICES ASSUME OneEmergency, LocationManagement
               PROVE  v.counter = Cardinality(Counted(v))
    OBVIOUS
  <2>1. w.counter = Cardinality(Counted(w))
    BY <1>1 DEF Shared
  <2>2. \A t \in Session \ {s} : v.fsm[t].counted <=> w.fsm[t].counted
    BY <1>2
  <2>3. Cardinality(Counted(v)) \in Nat
    BY CountedGives
  <2>4. /\ Cardinality(Counted(w)) \in Nat
        /\ (v.fsm[s].counted <=> w.fsm[s].counted) => Counted(v) = Counted(w)
        /\ ~v.fsm[s].counted /\ w.fsm[s].counted =>
                 Cardinality(Counted(v)) = Cardinality(Counted(w)) - 1
    BY <2>2, CountedGives
  <2>5. CASE w.fsm[s].counted
    BY <1>2, <1>4, <2>1, <2>3, <2>4, <2>5
  <2>6. CASE ~w.fsm[s].counted
    BY <1>2, <1>4, <2>1, <2>4, <2>6
  <2> QED
    BY <2>5, <2>6
<1>9. Shared(v, D)
  <2>1. \A a, b \in Emergency : Lives(v, a) /\ Lives(v, b) => a = b
    BY <1>1, <1>5, AgpsAssumption DEF Shared
  <2>2. v.spare.state = "idle" /\ ~v.spare.counted
    BY <1>1, <1>2 DEF Shared
  <2>3. \A t \in {"SELF", "X3P"} : v.latest[t] # NoSession => Type[v.latest[t]] = t
    BY <1>1, <1>2 DEF Shared
  <2>4. \A t \in Session : v.agps.req[t] = "active" => v.agps.running
    BY <1>3
  <2>5. ASSUME OneEmergency, NoneReplaced, \A t \in Session : ~Lives(v, t)
        PROVE  ~v.agps.running
    <3>1. ASSUME NEW t \in Session \ {s} PROVE w.agps.req[t] = "none"
      <4>1. Tidied(w, t) /\ ~Lives(w, t)
        BY <1>5, <2>5 DEF Sound, Base, Local
      <4> QED
        BY <2>5, <4>1 DEF Tidied
    <3> QED
      BY <1>3, <3>1
  <2>6. ASSUME NEW t \in Session, v.fsm[t].state = "waitLocUpdate", D \subseteq {t} \/ t \in Emergency
        PROVE  Serves(v.agps.mode, v.agps.method[t])
    <3>1. t \in Session \ {s} /\ w.fsm[t].state = "waitLocUpdate"
      BY <1>2, <1>4, <2>6
    <3>2. w.agps.req[t] = "active"
      BY <3>1 DEF Sound, Base, Local
    <3> QED
      BY <1>1, <1>3, <2>6, <3>1, <3>2 DEF Shared
  <2> QED
    BY <1>8, <2>1, <2>2, <2>3, <2>4, <2>5, <2>6 DEF Shared
<1>10. Base(v, D, m)
  BY <1>2, <1>5, <1>7, <1>9 DEF Sound, Base
<1>11. Privacy(v, WaitsForPrivacy(v), m) /\ NewAt(v.buf) = {} /\ TimerOK(v)
  <2> DEFINE P == WaitsForPrivacy(w)
  <2>1. BufferOK(w.buf, P, w.known, Later(w, n), Quiet(w)) /\ NewAt(w.buf) = {} /\ TimerOK(w)
    BY DEF Sound, Privacy
  <2> HIDE DEF P
  <2>2. /\ BufferOK(v.buf, P \ {s}, v.known, Later(w, n), Quiet(w))
        /\ v.known \subseteq w.known
        /\ OneEmergency => s \notin v.known
        /\ NewAt(v.buf) = {} /\ TimerOK(v)
    BY <1>2, <2>1, DropsKeeps
  <2>3. Quiet(w) \subseteq Quiet(v)
    BY <1>2, <1>5 DEF Quiet
  <2>4. Later(v, m) \subseteq Later(w, n)
    BY <1>5 DEF Later
  <2>5. BufferOK(v.buf, P \ {s}, v.known, Later(v, m), Quiet(v))
    BY <2>2, <2>3, <2>4, BufferWeakens
  <2>6. ASSUME OneEmergency, NEW t \in v.known PROVE Lives(v, t)
    <3>1. Lives(w, t) /\ t \in Session /\ t # s
      BY <1>1, <2>2, <2>6 DEF Sound, Privacy, Worlds
    <3> QED
      BY <1>5, <3>1
  <2> QED
    BY <1>6, <2>2, <2>5, <2>6 DEF Privacy, P
<1>12. Sound(v, D, m)
  BY <1>6, <1>10, <1>11 DEF Sound
<1> QED
  BY <1>12 DEF v

\* A world between two events but for the response timer.
Settled(w, D, n) ==
    /\ Base(w, D, n)
    /\ Privacy(w, WaitsForPrivacy(w), n)
    /\ NewAt(w.buf) = {}
    /\ WaitsForPrivacy(w) \intersect Emergency = {}

\* Between two events the timer runs for what waits, too.
LEMMA SoundIsSettled ==
    ASSUME NEW w, NEW D, NEW n
    PROVE  Sound(w, D, n) <=> Settled(w, D, n) /\ TimerOK(w)
BY DEF Sound, Settled

\* What a call leaves in the buffer of the sessions P that wait.
Leaves(v, w, s, P, n) ==
    /\ Privacy(v, P \ {s}, n)
    /\ WaitsForPrivacy(v) = WaitsForPrivacy(w) \ {s}

\* CalledKeeps for the session that waited.
LEMMA CalledLeaves ==
    ASSUME NEW v, NEW w \in Worlds, NEW s \in Session, Called(v, w, s),
           NEW P, NEW n, Privacy(w, P, n)
    PROVE  Leaves(v, w, s, P, n)
<1>1. /\ Privacy(v, P \ {s}, n)
      /\ NewAt(w.buf) = {} => NewAt(v.buf) = {}
      /\ TimerOK(w) => TimerOK(v)
      /\ WaitsForPrivacy(v) = WaitsForPrivacy(w) \ {s}
  BY CalledKeeps
<1> QED
  BY <1>1 DEF Leaves

\* An answer to the request at i, by the controller or by the timer.  What the
\* timer is left in: a session that ends takes its first request and sets the
\* timer for the rest.
LEMMA AnswerKeeps ==
    ASSUME NEW w, NEW s \in Session, NEW D, NEW n, NEW i \in 1..Len(w.buf),
           NEW answer \in {"accepted", "rejected"}, NEW cached \in BOOLEAN,
           Settled(w, D, n), w.sent = {},
           w.buf[i].session = s, w.buf[i].state = "waiting"
    PROVE  LET v == SetState(w, OnRespond(w, s, answer, cached), i, "responded") IN
           /\ v \in Worlds /\ Settled(v, D, n)
           /\ \/ v.timer = w.timer
              \/ TimerOK(v)
              \/ answer = "accepted" /\ ~ \A j \in 1..i - 1 : w.buf[j].session # s
<1> DEFINE u == OnRespond(w, s, answer, cached)
           v == SetState(w, u, i, "responded")
           P == WaitsForPrivacy(w) \ {s}
           Q == WaitsForPrivacy(w)
<1>1. w \in Worlds /\ Base(w, D, n) /\ Privacy(w, Q, n) /\ NewAt(w.buf) = {} /\ Q \intersect Emergency = {}
  BY DEF Settled, Base
<1>2. Entries(w.buf)
  BY <1>1 DEF Privacy, BufferOK
<1>3. s \notin Emergency
  BY <1>2 DEF Entries
<1>4. /\ Base(u, D, n)
      /\ w.fsm[s].state # "waitPriv" => u = w
      /\ w.fsm[s].state = "waitPriv" => Called(u, w, s) /\ u.fsm[s].exited
      /\ answer = "rejected" => SameBuf(u, w)
  <2>1. Base(w, D, n) /\ (s \in Emergency /\ w.fsm[s].locReq => s \in D)
    BY <1>1, <1>3
  <2>2. LET r == OnRespond(w, s, answer, cached) IN
        /\ Base(r, D, n)
        /\ w.fsm[s].state # "waitPriv" => r = w
        /\ w.fsm[s].state = "waitPriv" => Called(r, w, s) /\ r.fsm[s].exited
        /\ answer = "rejected" => SameBuf(r, w)
    <3> HIDE DEF P, Q
    <3> QED
      BY <2>1, RespondKeeps
  <2> QED
    BY <2>2
<1> HIDE DEF u
<1>5. /\ Privacy(u, P, n) /\ WaitsForPrivacy(u) = P
      /\ SameBuf(u, w) \/ Drops(u, w, s)
      /\ u \in Worlds
  <2>1. CASE w.fsm[s].state = "waitPriv"
    <3> HIDE DEF Q
    <3>0. w \in Worlds /\ Called(u, w, s) /\ Privacy(w, Q, n)
      BY <1>1, <1>4, <2>1
    <3>1. /\ Privacy(u, Q \ {s}, n) /\ WaitsForPrivacy(u) = WaitsForPrivacy(w) \ {s}
      <4>1. Leaves(u, w, s, Q, n)
        BY <3>0, CalledLeaves
      <4> QED
        BY <4>1 DEF Leaves
    <3>2. SameBuf(u, w) \/ Drops(u, w, s)
      BY <1>4, <2>1 DEF Called
    <3> QED
      BY <1>4, <3>1, <3>2 DEF Q, Base
  <2>2. CASE w.fsm[s].state # "waitPriv"
    <3>1. u = w /\ P = Q
      BY <1>4, <2>2 DEF WaitsForPrivacy
    <3> HIDE DEF P, Q
    <3> QED
      BY <1>1, <3>1 DEF SameBuf, Q
  <2> QED
    BY <2>1, <2>2
<1>6. s \notin P /\ P \intersect Emergency = {}
  BY <1>1
<1> HIDE DEF P, Q
<1>7. MaySet(w, u, s, i, "responded", P, n)
  BY <1>1, <1>2, <1>3, <1>5, <1>6 DEF MaySet
<1>8. /\ v \in Worlds /\ SameSessions(v, u) /\ Privacy(v, P, n) /\ NewAt(v.buf) = {}
      /\ v.timer = u.timer
      /\ Drops(u, w, s) /\ w.buf[i].state = "waiting"
            /\ (\A j \in 1..i - 1 : w.buf[j].session # s) => v = u
  <2>1. LET r == SetState(w, u, i, "responded") IN
        /\ r \in Worlds /\ SameSessions(r, u) /\ Privacy(r, P, n) /\ NewAt(r.buf) = {}
        /\ r.timer = u.timer
        /\ Drops(u, w, s) /\ w.buf[i].state = "waiting"
              /\ (\A j \in 1..i - 1 : w.buf[j].session # s) => r = u
    <3> HIDE DEF v
    <3>1. SetTo(SetState(w, u, i, "responded"), w, u, s, i, P, n)
      BY <1>7, SetStateKeeps
    <3> QED
      BY <3>1, Zenon DEF SetTo
  <2> QED
    BY <2>1
<1> HIDE DEF v
<1>9. Settled(v, D, n)
  <2>1. Base(v, D, n)
    BY <1>4, <1>8, SameSessionsKeeps
  <2>2. WaitsForPrivacy(v) = P
    BY <1>5, <1>8, SameSessionsGives
  <2> QED
    BY <1>6, <1>8, <2>1, <2>2 DEF Settled
<1>10. CASE SameBuf(u, w)
  BY <1>8, <1>9, <1>10 DEF SameBuf, u, v
<1>11. CASE Drops(u, w, s) /\ ~SameBuf(u, w)
  <2>1. u.timer = Waits(u.buf)
    BY <1>11 DEF Drops
  <2>2. TimerOK(u)
    BY <2>1, Zenon DEF TimerOK
  <2>3. answer = "accepted"
    BY <1>4, <1>11
  <2>4. (\A j \in 1..i - 1 : w.buf[j].session # s) => TimerOK(v)
    BY <1>8, <1>11, <2>2
  <2> QED
    BY <1>8, <1>9, <2>3, <2>4 DEF u, v
<1> QED
  BY <1>5, <1>10, <1>11

-----------------------------------------------------------------------------
(***************************************************************************)
(* The events.                                                             *)
(***************************************************************************)

\* The world with the responses of the last step, and the emergencies that
\* have asked for a position.
Now ==
    [fsm |-> fsm, spare |-> spare, latest |-> latest, agps |-> agps,
     buf |-> buf, timer |-> timer, alwaysVerify |-> alwaysVerify,
     server |-> server, counter |-> counter, sent |-> sent, owed |-> owed,
     asked |-> asked, granted |-> granted, known |-> known,
     trusted |-> trusted]

Started == {e \in Emergency : budget[e] # MaxRequests[e]}

Book ==
    /\ net \in [Session -> {"unused", "open", "closed"}]
    /\ budget \in [Session -> Nat]
    /\ \A s \in Session : budget[s] <= MaxRequests[s]

Inv == Sound(Now, Started, net) /\ Book

\* What a step starts from is in order: nothing of it is sent yet.
LEMMA WorldIsSound ==
    ASSUME Inv
    PROVE  /\ Sound(World, Started, net) /\ World.sent = {}
           /\ World \in Worlds
<1>1. Sound(Now, Started, net)
  BY DEF Inv
<1>2. /\ World.fsm = Now.fsm /\ World.spare = Now.spare /\ World.latest = Now.latest
      /\ World.agps = Now.agps /\ World.buf = Now.buf /\ World.timer = Now.timer
      /\ World.counter = Now.counter /\ World.owed = Now.owed /\ World.asked = Now.asked
      /\ World.granted = Now.granted /\ World.known = Now.known
  BY DEF World, Now
<1>3. World.sent = {}
  BY DEF World
<1>4. World \in Worlds
  <2>1. Now \in Worlds
    BY <1>1 DEF Sound, Base
  <2> QED
    BY <2>1 DEF World, Now, Worlds
<1> DEFINE w == World
           x == Now
<1> HIDE DEF w, x
<1>5. /\ w.fsm = x.fsm /\ w.spare = x.spare /\ w.latest = x.latest
      /\ w.agps = x.agps /\ w.buf = x.buf /\ w.timer = x.timer
      /\ w.counter = x.counter /\ w.owed = x.owed /\ w.asked = x.asked
      /\ w.granted = x.granted /\ w.known = x.known
      /\ w.sent = {} /\ w \in Worlds
      /\ Sound(x, Started, net)
  BY <1>1, <1>2, <1>3, <1>4 DEF w, x
<1>6. ASSUME NEW s \in Session
      PROVE  Local(w, s)
  <2>1. Local(x, s)
    BY <1>5 DEF Sound, Base
  <2>2. Consented(w, s)
    BY <1>5, <2>1 DEF Local, Consented
  <2>3. Replied(w, s) /\ Tidied(w, s)
    BY <1>5, <2>1 DEF Local, Replied, Tidied, Lives
  <2> QED
    BY <1>5, <2>1, <2>2, <2>3 DEF Local, Lives
<1>7. Shared(w, Started)
  <2>1. Shared(x, Started) /\ Counted(w) = Counted(x)
    BY <1>5 DEF Sound, Base, Counted
  <2> QED
    BY <1>5, <2>1 DEF Shared, Lives
<1>8. Base(w, Started, net)
  BY <1>5, <1>6, <1>7 DEF Sound, Base, Lives
<1>9. /\ Later(w, net) = Later(x, net) /\ Quiet(w) = Quiet(x)
      /\ WaitsForPrivacy(w) = WaitsForPrivacy(x)
  BY <1>5 DEF Later, Quiet, WaitsForPrivacy, Lives
<1>10. Privacy(w, WaitsForPrivacy(w), net)
  BY <1>5, <1>9 DEF Sound, Privacy, Lives
<1>11. TimerOK(w)
  BY <1>5, Zenon DEF Sound, TimerOK
<1>12. Sound(w, Started, net)
  BY <1>5, <1>8, <1>9, <1>10, <1>11 DEF Sound
<1> QED
  BY <1>3, <1>4, <1>12 DEF w

\* A step that ends in a world in order.
LEMMA BecomeKeeps ==
    ASSUME NEW STATE v, Become(v), Sound(v, Started', net'), Book'
    PROVE  Inv'
<1>1. /\ fsm' = v.fsm /\ spare' = v.spare /\ latest' = v.latest /\ agps' = v.agps
      /\ buf' = v.buf /\ timer' = v.timer /\ alwaysVerify' = v.alwaysVerify
      /\ server' = v.server /\ counter' = v.counter /\ sent' = v.sent /\ owed' = v.owed
      /\ asked' = v.asked /\ granted' = v.granted /\ known' = v.known
      /\ trusted' = v.trusted
  BY DEF Become
<1>2. v = [fsm |-> v.fsm, spare |-> v.spare, latest |-> v.latest, agps |-> v.agps,
           buf |-> v.buf, timer |-> v.timer, alwaysVerify |-> v.alwaysVerify,
           server |-> v.server, counter |-> v.counter, sent |-> v.sent, owed |-> v.owed,
           asked |-> v.asked, granted |-> v.granted, known |-> v.known,
           trusted |-> v.trusted]
  BY DEF Sound, Base, Worlds
<1>3. v = Now'
  BY <1>1, <1>2 DEF Now
<1>4. Sound(Now', Started', net')
  BY <1>3
<1> QED
  BY <1>4 DEF Inv

\* The network waits for one more answer of s.
LEMMA AskedKeeps ==
    ASSUME NEW w, NEW s \in Session, NEW D, NEW n, Sound(w, D, n)
    PROVE  LET v == [w EXCEPT !.asked[s] = @ + 1] IN
           /\ Sound(v, D, n) /\ v.sent = w.sent /\ v.fsm = w.fsm
           /\ OneEmergency /\ Type[s] = "MT" => v.asked[s] > 0
<1> DEFINE a == [w.asked EXCEPT ![s] = @ + 1]
           v == [w EXCEPT !.asked[s] = @ + 1]
<1>1. w \in Worlds /\ Local(w, s)
  BY DEF Sound, Base
<1>2. a \in [Session -> Int] /\ a[s] = w.asked[s] + 1 /\ \A t \in Session : a[t] >= w.asked[t]
  BY <1>1 DEF Worlds
<1>3. v = [w EXCEPT !.asked = a]
  BY <1>1 DEF Worlds
<1> HIDE DEF a, v
<1>4. /\ v \in Worlds /\ v.asked = a
      /\ v.fsm = w.fsm /\ v.spare = w.spare /\ v.latest = w.latest /\ v.agps = w.agps
      /\ v.sent = w.sent /\ v.counter = w.counter /\ v.granted = w.granted
      /\ v.owed = w.owed /\ v.buf = w.buf /\ v.timer = w.timer /\ v.known = w.known
  BY <1>1, <1>2, <1>3 DEF Worlds
<1>5. \A t \in Session : v.owed[t] >= w.owed[t]
  BY <1>1, <1>4 DEF Worlds
<1>6. Alike(v, w)
  BY <1>2, <1>4, <1>5 DEF Alike, SameBuf
<1>7. Sound(v, D, n)
  BY <1>4, <1>6, AlikeSound
<1>8. OneEmergency /\ Type[s] = "MT" => w.asked[s] >= 0
  BY <1>1 DEF Local, Replied
<1>9. w.asked[s] \in Int
  BY <1>1 DEF Worlds
<1> QED
  BY <1>2, <1>4, <1>7, <1>8, <1>9 DEF v

\* The network waits for one more response of s.
LEMMA OwedKeeps ==
    ASSUME NEW w, NEW s \in Session, NEW D, NEW n, Sound(w, D, n)
    PROVE  LET v == [w EXCEPT !.owed[s] = @ + 1] IN
           /\ Sound(v, D, n) /\ v.sent = w.sent /\ v.fsm = w.fsm
           /\ OneEmergency =>
                 v.owed[s] > IF w.fsm[s].state = "waitLocUpdate" THEN 1 ELSE 0
<1> DEFINE a == [w.owed EXCEPT ![s] = @ + 1]
           v == [w EXCEPT !.owed[s] = @ + 1]
<1>1. w \in Worlds /\ Local(w, s)
  BY DEF Sound, Base
<1>2. a \in [Session -> Int] /\ a[s] = w.owed[s] + 1 /\ \A t \in Session : a[t] >= w.owed[t]
  BY <1>1 DEF Worlds
<1>3. v = [w EXCEPT !.owed = a]
  BY <1>1 DEF Worlds
<1> HIDE DEF a, v
<1>4. /\ v \in Worlds /\ v.owed = a
      /\ v.fsm = w.fsm /\ v.spare = w.spare /\ v.latest = w.latest /\ v.agps = w.agps
      /\ v.sent = w.sent /\ v.counter = w.counter /\ v.granted = w.granted
      /\ v.asked = w.asked /\ v.buf = w.buf /\ v.timer = w.timer /\ v.known = w.known
  BY <1>1, <1>2, <1>3 DEF Worlds
<1>5. \A t \in Session : v.asked[t] >= w.asked[t]
  BY <1>1, <1>4 DEF Worlds
<1>6. Alike(v, w)
  BY <1>2, <1>4, <1>5 DEF Alike, SameBuf
<1>7. Sound(v, D, n)
  BY <1>4, <1>6, AlikeSound
<1>8. OneEmergency =>
        w.owed[s] >= 0 /\ (w.fsm[s].state = "waitLocUpdate" => w.owed[s] > 0)
  BY <1>1 DEF Local, Replied
<1>9. w.owed[s] \in Int
  BY <1>1 DEF Worlds
<1>10. OneEmergency =>
         v.owed[s] > IF w.fsm[s].state = "waitLocUpdate" THEN 1 ELSE 0
  BY <1>2, <1>4, <1>8, <1>9
<1> QED
  BY <1>4, <1>7, <1>10 DEF v

\* The network opens a session and asks for privacy.
LEMMA MtlrRequestKeeps ==
    ASSUME Inv, NEW s \in Session,
           NEW advice \in {"verify", "notify", "silent", "stealth"},
           NEW action \in {"allow", "reject"},
           NEW admin \in {"on", "alwaysVerify", "off", "offButNotify"},
           NEW silent \in BOOLEAN,
           MTLRRequest(s, advice, action, admin, silent)
    PROVE  Inv'
<1> DEFINE w0 == [World EXCEPT !.asked[s] = @ + 1]
           w == LookupFsm(w0, s)
           f == [w.fsm[s] EXCEPT !.silent = silent, !.state = "waitPriv"]
           x == [w EXCEPT !.fsm[s].silent = silent, !.fsm[s].state = "waitPriv"]
           p == ProcessNetworkLocationRequest(x, s, advice, action, admin, FALSE)
           state == w.fsm[s].state
           v == CASE state = "none" -> SendMTLRResponse(w, s)
                  [] state = "idle" -> p
                  [] state \in {"waitPriv", "waitLocUpdate", "waitLocReq"} -> w
<1>1. /\ Type[s] = "MT" /\ net[s] = "unused" /\ net' = [net EXCEPT ![s] = "open"]
      /\ budget' = budget /\ Become(v)
  BY Zenon DEF MTLRRequest
<1>2. Book /\ Book' /\ Started' = Started
  BY <1>1 DEF Inv, Book, Started
<1>3. /\ net[s] # "closed" /\ net'[s] = "open"
      /\ \A t \in Session \ {s} : net'[t] = net[t]
  BY <1>1, <1>2 DEF Book
<1>4. Sound(World, Started, net) /\ World.sent = {} /\ ~Lives(World, s)
  BY <1>1, WorldIsSound DEF Sound, Base
<1>5. /\ Sound(w0, Started, net) /\ w0.sent = {} /\ ~Lives(w0, s)
      /\ OneEmergency => w0.asked[s] > 0
  <2>1. LET y == [World EXCEPT !.asked[s] = @ + 1] IN
        /\ Sound(y, Started, net) /\ y.sent = World.sent /\ y.fsm = World.fsm
        /\ OneEmergency /\ Type[s] = "MT" => y.asked[s] > 0
    BY <1>4, AskedKeeps
  <2> QED
    BY <1>1, <1>4, <2>1 DEF Lives
<1> HIDE DEF w0
<1>6. /\ Sound(w, Started, net') /\ w.sent = {} /\ w.asked = w0.asked
      /\ ~Lives(w0, s) /\ Lives(w, s) =>
            /\ ~w.fsm[s].exited /\ ~w.fsm[s].locReq
            /\ s \notin Emergency => \A i \in 1..Len(w.buf) : w.buf[i].session # s
  <2>1. LET y == LookupFsm(w0, s) IN
        /\ Sound(y, Started, net')
        /\ y.sent = {} /\ y.owed = w0.owed /\ y.asked = w0.asked /\ y.buf = w0.buf
        /\ ~Lives(w0, s) /\ Lives(y, s) =>
              /\ ~y.fsm[s].exited /\ ~y.fsm[s].locReq
              /\ s \notin Emergency => \A i \in 1..Len(y.buf) : y.buf[i].session # s
    <3> HIDE DEF w
    <3>1. Opening(w0, s, Started, net, net')
      BY <1>3, <1>5 DEF Opening
    <3> QED
      BY <3>1, LookupKeeps
  <2> QED
    BY <2>1
<1> HIDE DEF w
<1>7. /\ w \in Worlds /\ w.fsm[s] \in Fsms
      /\ OneEmergency => w.asked[s] > 0
  BY <1>5, <1>6 DEF Sound, Base, Worlds
<1>8. CASE state = "none"
  <2>1. ~Lives(w, s)
    BY <1>8 DEF Lives
  <2>2. Sound(SendMTLRResponse(w, s), Started, net')
    BY <1>6, <1>7, <2>1, MtlrSound
  <2>3. v = SendMTLRResponse(w, s)
    BY <1>8
  <2> QED
    BY <1>1, <1>2, <2>2, <2>3, BecomeKeeps
<1>9. CASE state = "idle"
  <2>1. Lives(w, s)
    BY <1>9 DEF Lives
  <2>2. w \in Worlds /\ w.fsm[s] \in Fsms
    BY <1>6 DEF Sound, Base, Worlds
  <2>3. /\ f \in Fsms /\ f.state = "waitPriv" /\ f.exited = w.fsm[s].exited
        /\ f.counted = w.fsm[s].counted /\ f.locReq = w.fsm[s].locReq
    BY <2>2 DEF Fsms, FsmState
  <2>4. x = Put(w, s, f)
    BY <2>2 DEF Put, Worlds
  <2> HIDE DEF f, x
  <2>5. s \in External
    BY <1>1 DEF External
  <2>6. Asking(x, s, Started, net') /\ x.buf = w.buf
    <3>1. LET y == Put(w, s, f) IN Asking(y, s, Started, net') /\ y.buf = w.buf
      BY <1>1, <1>5, <1>6, <1>7, <1>9, <2>1, <2>3, <2>5, AskKeeps
    <3> QED
      BY <2>4, <3>1
  <2>7. MayAsk(x, s, advice, action, admin)
    BY <1>5, <1>6, <2>1, <2>6 DEF MayAsk
  <2>8. Sound(p, Started, net')
    <3>1. \A c \in BOOLEAN :
            Sound(ProcessNetworkLocationRequest(x, s, advice, action, admin, c), Started, net')
      BY <2>6, <2>7, ProcessKeeps
    <3> QED
      BY <3>1
  <2>9. v = p
    BY <1>9
  <2> HIDE DEF p
  <2> QED
    BY <1>1, <1>2, <2>8, <2>9, BecomeKeeps
<1>10. CASE state \in {"waitPriv", "waitLocUpdate", "waitLocReq"}
  <2>1. v = w
    BY <1>10
  <2> QED
    BY <1>1, <1>2, <1>6, <2>1, BecomeKeeps
<1>11. state \in FsmState
  BY <1>7 DEF Fsms
<1> QED
  BY <1>8, <1>9, <1>10, <1>11 DEF FsmState

\* A self location or X3P session becomes the one of its type.
LEMMA LatestKeeps ==
    ASSUME NEW w, NEW s \in Session, NEW D, NEW n, Sound(w, D, n),
           Type[s] \in {"SELF", "X3P"}
    PROVE  LET v == [w EXCEPT !.latest[Type[s]] = s] IN
           Sound(v, D, n) /\ v.sent = w.sent /\ v.fsm = w.fsm /\ v.owed = w.owed
<1> DEFINE a == [w.latest EXCEPT ![Type[s]] = s]
           v == [w EXCEPT !.latest[Type[s]] = s]
<1>1. w \in Worlds /\ Shared(w, D)
  BY DEF Sound, Base
<1>2. /\ a \in [{"SELF", "X3P"} -> Session \union {NoSession}] /\ a[Type[s]] = s
      /\ \A t \in {"SELF", "X3P"} : t # Type[s] => a[t] = w.latest[t]
  BY <1>1 DEF Worlds
<1>3. v = [w EXCEPT !.latest = a]
  BY <1>1 DEF Worlds
<1> HIDE DEF a, v
<1>4. /\ v \in Worlds /\ v.latest = a
      /\ v.fsm = w.fsm /\ v.spare = w.spare /\ v.agps = w.agps
      /\ v.sent = w.sent /\ v.counter = w.counter /\ v.granted = w.granted
      /\ v.asked = w.asked /\ v.owed = w.owed
      /\ v.buf = w.buf /\ v.timer = w.timer /\ v.known = w.known
  BY <1>1, <1>2, <1>3 DEF Worlds
<1>5. \A t \in Session : Local(v, t) <=> Local(w, t)
  BY <1>4 DEF Local, Consented, Replied, Tidied, Lives
<1>6. \A t \in {"SELF", "X3P"} : v.latest[t] # NoSession => Type[v.latest[t]] = t
  BY <1>1, <1>2, <1>4 DEF Shared
<1>7. Counted(v) = Counted(w)
  BY <1>4 DEF Counted
<1>8. Shared(v, D)
  BY <1>1, <1>4, <1>6, <1>7 DEF Shared, Lives
<1>9. Base(v, D, n)
  BY <1>4, <1>5, <1>8 DEF Sound, Base, Lives
<1>10. /\ Later(v, n) = Later(w, n) /\ Quiet(v) = Quiet(w)
       /\ WaitsForPrivacy(v) = WaitsForPrivacy(w)
  BY <1>4 DEF Later, Quiet, WaitsForPrivacy, Lives
<1>11. Privacy(v, WaitsForPrivacy(v), n)
  BY <1>4, <1>10 DEF Sound, Privacy, Lives
<1>12. TimerOK(v)
  BY <1>4, Zenon DEF Sound, TimerOK
<1>13. Sound(v, D, n)
  BY <1>4, <1>9, <1>10, <1>11, <1>12 DEF Sound
<1> QED
  BY <1>4, <1>13 DEF v

\* A request for a position, which may open a session.
LEMMA NetLocRequestKeeps ==
    ASSUME Inv, NEW s \in Session, NEW method \in Mode,
           NEW complete \in BOOLEAN, NEW cached \in BOOLEAN,
           NEW admin \in {"on", "alwaysVerify", "off", "offButNotify"},
           NetLocRequest(s, method, complete, admin, cached)
    PROVE  Inv'
<1> DEFINE w == [World EXCEPT !.owed[s] = @ + 1]
           r == ReplaceSession(w, s)
           x == LookupFsm(r, s)
           y == IF Type[s] \in {"SELF", "X3P"} THEN [x EXCEPT !.latest[Type[s]] = s] ELSE x
           reference == Type[s] = "NL" /\ method # {"ta"}
           v == IF reference THEN SendNetLocResponse(w, s, "reference")
                ELSE IF s \notin Live(x) THEN x
                ELSE FsmNetLocRequest(y, s, method, complete, admin, cached)
<1>1. /\ net[s] = "open" \/ (net[s] = "unused" /\ Type[s] # "MT")
      /\ budget[s] > 0 /\ net' = [net EXCEPT ![s] = "open"]
      /\ budget' = [budget EXCEPT ![s] = @ - 1] /\ Become(v)
  BY Zenon DEF NetLocRequest
<1>2. Book /\ MaxRequests \in [Session -> Nat] /\ Emergency \subseteq Session
  BY PrivLocAssumption, AgpsAssumption DEF Inv
<1>3. Book'
  BY <1>1, <1>2 DEF Book
<1>4. Started \subseteq Started' /\ (s \in Emergency => s \in Started')
  BY <1>1, <1>2 DEF Book, Started
<1>5. /\ net[s] # "closed" /\ net'[s] = "open"
      /\ \A t \in Session \ {s} : net'[t] = net[t]
  BY <1>1, <1>2 DEF Book
<1> DEFINE D == Started'
           m == net'
<1>6. Sound(World, D, net) /\ World.sent = {}
  <2>1. Sound(World, Started, net) /\ World.sent = {}
    BY WorldIsSound
  <2> HIDE DEF D
  <2>2. Started \subseteq D
    BY <1>4 DEF D
  <2>3. Sound(World, D, net)
    BY <2>1, <2>2, SoundWeakens
  <2> QED
    BY <2>1, <2>3
<1>7. /\ Sound(w, D, net) /\ w.sent = {}
      /\ OneEmergency =>
            w.owed[s] > IF w.fsm[s].state = "waitLocUpdate" THEN 1 ELSE 0
  <2> DEFINE u == [World EXCEPT !.owed[s] = @ + 1]
  <2>1. /\ Sound(u, D, net) /\ u.sent = World.sent /\ u.fsm = World.fsm
        /\ OneEmergency =>
              u.owed[s] > IF World.fsm[s].state = "waitLocUpdate" THEN 1 ELSE 0
    <3> HIDE DEF D
    <3> QED
      BY <1>6, OwedKeeps
  <2>2. w = u
    OBVIOUS
  <2> HIDE DEF u, w, D
  <2> QED
    BY <1>6, <2>1, <2>2
<1> HIDE DEF w, D, m
<1>8. s \in Emergency => s \in D
  BY <1>4 DEF D
<1>9. w \in Worlds /\ w.owed[s] \in Int
  BY <1>7 DEF Sound, Base, Worlds
<1>10. CASE reference
  <2>1. w.fsm[s].state # "waitPriv"
    <3>1. Local(w, s)
      BY <1>7 DEF Sound, Base
    <3> QED
      BY <1>10, <3>1 DEF Local, External
  <2>2. OneEmergency =>
          w.owed[s] > IF w.fsm[s].state \in {"waitPriv", "waitLocUpdate"} THEN 1 ELSE 0
    BY <1>7, <2>1
  <2>3. Sound(SendNetLocResponse(w, s, "reference"), D, net)
    BY <1>7, <2>2, ResponseSound
  <2>4. v = SendNetLocResponse(w, s, "reference")
    BY <1>10
  <2> HIDE DEF v
  <2>5. /\ \A t \in Session : m[t] = "unused" => net[t] = "unused"
        /\ \A t \in Session : net[t] = "closed" => m[t] = "closed"
    BY <1>5 DEF m
  <2>6. Sound(v, D, m)
    BY <2>3, <2>4, <2>5, SoundWeakens
  <2> QED
    BY <1>1, <1>3, <2>6, BecomeKeeps DEF D, m
<1>11. CASE ~reference
  <2>1. Sound(r, D, net) /\ r.owed = w.owed /\ r.sent = {}
    <3>1. LET z == ReplaceSession(w, s) IN
          /\ Sound(z, D, net)
          /\ z.fsm[s] = w.fsm[s] \/ ~Lives(z, s)
          /\ z.owed = w.owed /\ z.asked = w.asked /\ z.sent = w.sent /\ z.buf = w.buf
      <4> HIDE DEF r
      <4> QED
        BY <1>7, ReplaceKeeps
    <3> QED
      BY <1>7, <3>1
  <2> HIDE DEF r
  <2>2. Sound(x, D, m) /\ x.owed = w.owed /\ x.sent = {}
    <3>1. LET z == LookupFsm(r, s) IN
          /\ Sound(z, D, m)
          /\ z.sent = {} /\ z.owed = r.owed /\ z.asked = r.asked /\ z.buf = r.buf
          /\ ~Lives(r, s) /\ Lives(z, s) =>
                /\ ~z.fsm[s].exited /\ ~z.fsm[s].locReq
                /\ s \notin Emergency => \A i \in 1..Len(z.buf) : z.buf[i].session # s
      <4> HIDE DEF x
      <4>1. Opening(r, s, D, net, m)
        BY <1>5, <2>1 DEF Opening, m
      <4> QED
        BY <4>1, LookupKeeps
    <3> QED
      BY <2>1, <3>1
  <2> HIDE DEF x
  <2>3. Sound(y, D, m) /\ y.owed = w.owed /\ y.sent = {} /\ y.fsm = x.fsm
    <3>1. CASE Type[s] \in {"SELF", "X3P"}
      <4>1. LET z == [x EXCEPT !.latest[Type[s]] = s] IN
            Sound(z, D, m) /\ z.sent = x.sent /\ z.fsm = x.fsm /\ z.owed = x.owed
        <5> HIDE DEF y
        <5> QED
          BY <2>2, <3>1, LatestKeeps
      <4> QED
        BY <2>2, <3>1, <4>1
    <3>2. CASE Type[s] \notin {"SELF", "X3P"}
      BY <2>2, <3>2
    <3> QED
      BY <3>1, <3>2
  <2> HIDE DEF y
  <2>4. CASE s \notin Live(x)
    <3>1. v = x
      BY <1>11, <2>4
    <3> HIDE DEF v
    <3>2. Sound(v, D, m)
      BY <2>2, <3>1
    <3> QED
      BY <1>1, <1>3, <3>2, BecomeKeeps DEF D, m
  <2>5. CASE s \in Live(x)
    <3>1. v = FsmNetLocRequest(y, s, method, complete, admin, cached)
      BY <1>11, <2>5
    <3> HIDE DEF v
    <3>2. Lives(y, s)
      BY <2>3, <2>5 DEF Lives, Live
    <3>3. OneEmergency => y.owed[s] > 0
      BY <1>7, <1>9, <2>3
    <3>4. Sound(FsmNetLocRequest(y, s, method, complete, admin, cached), D, m)
      BY <1>8, <2>3, <3>2, <3>3, FsmNetKeeps
    <3>5. Sound(v, D, m)
      BY <3>1, <3>4
    <3> QED
      BY <1>1, <1>3, <3>5, BecomeKeeps DEF D, m
  <2> QED
    BY <2>4, <2>5
<1> QED
  BY <1>10, <1>11

\* The timer is started again for what waits.
LEMMA RestartSound ==
    ASSUME NEW w \in Worlds, NEW D, NEW n, Settled(w, D, n)
    PROVE  Sound(RestartTimer(w), D, n)
<1> DEFINE v == RestartTimer(w)
<1>1. /\ v \in Worlds /\ SameSessions(v, w)
      /\ v.buf = w.buf /\ v.known = w.known /\ TimerOK(v)
  BY RestartGives
<1> HIDE DEF v
<1>2. Base(v, D, n)
  BY <1>1, SameSessionsKeeps DEF Settled
<1>3. /\ WaitsForPrivacy(v) = WaitsForPrivacy(w)
      /\ Later(v, n) = Later(w, n) /\ Quiet(v) = Quiet(w)
      /\ \A t : Lives(v, t) <=> Lives(w, t)
  BY <1>1, SameSessionsGives
<1>4. Sound(v, D, n)
  BY <1>1, <1>2, <1>3 DEF Settled, Sound, Privacy
<1> QED
  BY <1>4 DEF v

\* A session the network completes leaves nothing behind.
LEMMA SessionCompleteKeeps ==
    ASSUME Inv, NEW s \in Session, SessionComplete(s)
    PROVE  Inv'
<1> DEFINE v == IF s \notin Live(World) THEN World ELSE Ended(World, s)
<1>1. net[s] = "open" /\ net' = [net EXCEPT ![s] = "closed"] /\ budget' = budget
  BY DEF SessionComplete
<1>2. Become(v)
  <2>1. fsm[s] = World.fsm[s]
    BY DEF World
  <2> QED
    BY <2>1, Zenon DEF SessionComplete, Ended
<1>3. Book /\ Book' /\ Started' = Started
  BY <1>1 DEF Inv, Book, Started
<1> DEFINE m == net'
           w == World
<1>4. Sound(w, Started, net) /\ w.sent = {}
  BY WorldIsSound
<1>5. m[s] = "closed" /\ \A t \in Session \ {s} : m[t] = net[t]
  BY <1>1, <1>3 DEF Book
<1> HIDE DEF m, w
<1>6. Sound(v, Started, m)
  <2>1. CASE s \notin Live(w)
    <3>1. /\ \A t \in Session : m[t] = "unused" => net[t] = "unused"
          /\ \A t \in Session : net[t] = "closed" => m[t] = "closed"
      BY <1>5
    <3>2. Sound(w, Started, m)
      BY <1>4, <3>1, SoundWeakens
    <3> QED
      BY <2>1, <3>2 DEF w
  <2>2. CASE s \in Live(w)
    <3>1. Sound(Ended(w, s), Started, m)
      BY <1>4, <1>5, EndedSound
    <3> QED
      BY <2>2, <3>1 DEF w
  <2> QED
    BY <2>1, <2>2
<1> HIDE DEF v
<1> QED
  BY <1>2, <1>3, <1>6, BecomeKeeps DEF m

\* The controller answers.
LEMMA ControllerRespondsKeeps ==
    ASSUME Inv, NEW s \in Session, NEW answer \in {"accepted", "rejected"},
           NEW cached \in BOOLEAN, ControllerResponds(s, answer, cached)
    PROVE  Inv'
<1> DEFINE i == Find(buf, s)
           x == SetState(World, OnRespond(World, s, answer, cached), i, "responded")
           v == IF buf[i].state = "waiting" THEN RestartTimer(x) ELSE RestartTimer(World)
<1>1. i # 0 /\ net' = net /\ budget' = budget /\ Become(v)
  BY Zenon DEF ControllerResponds, Same
<1>2. Book /\ Book' /\ Started' = Started
  BY <1>1 DEF Inv, Book, Started
<1> DEFINE w == World
<1>3. /\ Sound(w, Started, net) /\ w.sent = {} /\ w \in Worlds
      /\ Settled(w, Started, net)
  BY WorldIsSound, SoundIsSettled
<1>4. w.buf = buf /\ buf \in Seq(PrivacyRequest)
  <2>1. w.buf = buf
    BY DEF World
  <2> QED
    BY <1>3, <2>1 DEF Worlds
<1>5. i \in 1..Len(buf) /\ buf[i].session = s
  BY <1>1, <1>4, FindGives
<1> HIDE DEF w, i
<1>6. Sound(v, Started, net)
  <2>1. CASE buf[i].state = "waiting"
    <3> DEFINE y == SetState(w, OnRespond(w, s, answer, cached), i, "responded")
    <3>1. y \in Worlds /\ Settled(y, Started, net)
      BY <1>3, <1>4, <1>5, <2>1, AnswerKeeps
    <3> HIDE DEF y
    <3>2. Sound(RestartTimer(y), Started, net)
      BY <3>1, RestartSound
    <3> QED
      BY <2>1, <3>2 DEF y, w
  <2>2. CASE buf[i].state # "waiting"
    <3>1. Sound(RestartTimer(w), Started, net)
      BY <1>3, RestartSound
    <3> QED
      BY <2>2, <3>1 DEF w
  <2> QED
    BY <2>1, <2>2
<1> HIDE DEF v
<1> QED
  BY <1>1, <1>2, <1>6, BecomeKeeps

\* The controller cancels.
LEMMA ControllerCancelsKeeps ==
    ASSUME Inv, NEW s \in Session, ControllerCancels(s)
    PROVE  Inv'
<1> DEFINE w == RestartTimer(World)
           v == OnCancel(w, s)
<1>1. /\ net' = net /\ budget' = budget /\ Become(v)
  BY Zenon DEF ControllerCancels, Same
<1>2. Book /\ Book' /\ Started' = Started
  BY <1>1 DEF Inv, Book, Started
<1>3. /\ Sound(World, Started, net) /\ World.sent = {} /\ World \in Worlds
      /\ Settled(World, Started, net) /\ World.fsm = fsm
  BY WorldIsSound, SoundIsSettled DEF World
<1>4. Sound(w, Started, net) /\ w.sent = {} /\ w.fsm = fsm
  <2>1. Sound(w, Started, net)
    BY <1>3, RestartSound
  <2>2. SameSessions(w, World)
    BY <1>3, RestartGives
  <2> HIDE DEF w
  <2> QED
    BY <1>3, <2>1, <2>2 DEF SameSessions
<1> HIDE DEF w
<1>5. /\ Base(v, Started, net)
      /\ v = w \/ (Called(v, w, s) /\ SameBuf(v, w))
  <2>1. Base(w, Started, net)
    BY <1>4 DEF Sound
  <2>2. LET y == OnCancel(w, s) IN
        Base(y, Started, net) /\ (y = w \/ (Called(y, w, s) /\ SameBuf(y, w)))
    BY <1>4, <2>1, CancelKeeps
  <2> QED
    BY <2>2
<1> HIDE DEF v
<1>6. Sound(v, Started, net)
  <2>1. CASE v = w
    BY <1>4, <2>1
  <2>2. CASE Called(v, w, s)
    BY <1>4, <1>5, <2>2, CalledSound
  <2> QED
    BY <1>5, <2>1, <2>2
<1> QED
  BY <1>1, <1>2, <1>6, BecomeKeeps

\* The response timer gives the answer for the first request that waits, and
\* runs on for the next.
LEMMA ResponseTimerKeeps ==
    ASSUME Inv, NEW cached \in BOOLEAN, ResponseTimer(cached)
    PROVE  Inv'
<1> DEFINE i == SelectInSeq(buf, LAMBDA r : r.state = "waiting")
           s == buf[i].session
           accept == TimeoutAccepts(alwaysVerify, buf[i].action)
           a == Answer(accept)
           T == IF accept /\ buf[i].verify /\ fsm[s].state = "waitPriv"
                THEN World.trusted \union {s} ELSE World.trusted
           w == [World EXCEPT !.timer = FALSE,
                              !.trusted = IF accept /\ buf[i].verify /\ fsm[s].state = "waitPriv"
                                          THEN @ \union {s} ELSE @]
           x == SetState(w, OnRespond(w, s, a, cached), i, "responded")
           v == IF i = 0 THEN [World EXCEPT !.timer = FALSE]
                ELSE IF x.timer THEN x ELSE RestartTimer(x)
<1>0. net' = net /\ budget' = budget
  BY DEF ResponseTimer, Same
<1>1. timer /\ net' = net /\ budget' = budget /\ Become(v)
  BY Zenon DEF ResponseTimer, Same
<1>2. Book /\ Book' /\ Started' = Started
  BY <1>0 DEF Inv, Book, Started
<1>3. /\ Sound(World, Started, net) /\ World.sent = {} /\ World \in Worlds
      /\ Settled(World, Started, net) /\ World.buf = buf
      /\ World.timer = timer
  BY WorldIsSound, SoundIsSettled DEF World
<1>4. buf \in Seq(PrivacyRequest)
  BY <1>3 DEF Worlds
<1>5. i \in 1..Len(buf) /\ buf[i].state = "waiting"
  <2>1. \/ i = 0 /\ ~Waits(buf)
        \/ i \in 1..Len(buf) /\ buf[i].state = "waiting"
    BY <1>4, WaitingGives
  <2>2. Waits(buf)
    <3>1. World.timer <=> Waits(World.buf)
      BY <1>3 DEF Sound, TimerOK
    <3> QED
      BY <1>1, <1>3, <3>1, Zenon
  <2> HIDE DEF i
  <2> QED
    BY <2>1, <2>2
<1> HIDE DEF i
<1>6. i # 0
  BY <1>4, <1>5
<1>7. Entries(buf)
  BY <1>3 DEF Sound, Privacy, BufferOK
<1>8. s \in Session /\ buf[i].action \in {"allow", "reject"}
  <2>1. s \in External
    BY <1>5, <1>7 DEF Entries
  <2>2. buf[i] \in PrivacyRequest
    BY <1>4, <1>5
  <2> QED
    BY <2>1, <2>2 DEF External, PrivacyRequest
<1>9. a \in {"accepted", "rejected"} /\ (a = "accepted" => buf[i].action = "allow")
  BY <1>8 DEF Answer, TimeoutAccepts
<1>10. T \in SUBSET Session
  BY <1>3, <1>8 DEF Worlds
<1> HIDE DEF s, a
<1>11. w = [World EXCEPT !.timer = FALSE, !.trusted = T]
  BY <1>3 DEF Worlds
<1> HIDE DEF T, w
<1> DEFINE u == World
<1>12. u \in Worlds /\ Settled(u, Started, net) /\ u.sent = {} /\ u.buf = buf
       /\ w = [u EXCEPT !.timer = FALSE, !.trusted = T]
  BY <1>3, <1>11
<1> HIDE DEF u
<1>13. /\ w \in Worlds /\ SameSessions(w, u) /\ w.buf = u.buf /\ w.known = u.known
       /\ w.timer = FALSE /\ w.sent = {}
  BY <1>10, <1>12 DEF Worlds, SameSessions
<1>14. Settled(w, Started, net)
  <2>1. /\ WaitsForPrivacy(w) = WaitsForPrivacy(u)
        /\ Later(w, net) = Later(u, net) /\ Quiet(w) = Quiet(u)
        /\ \A t : Lives(w, t) <=> Lives(u, t)
    BY <1>13, SameSessionsGives
  <2>2. Base(w, Started, net)
    BY <1>12, <1>13, SameSessionsKeeps DEF Settled
  <2> QED
    BY <1>12, <1>13, <2>1, <2>2 DEF Settled, Privacy
<1>15. /\ x \in Worlds /\ Settled(x, Started, net)
       /\ x.timer = w.timer \/ TimerOK(x)
  <2>1. LET y == SetState(w, OnRespond(w, s, a, cached), i, "responded") IN
        /\ y \in Worlds /\ Settled(y, Started, net)
        /\ \/ y.timer = w.timer
           \/ TimerOK(y)
           \/ a = "accepted" /\ ~ \A j \in 1..i - 1 : w.buf[j].session # s
    <3> HIDE DEF x
    <3>1. /\ s \in Session /\ a \in {"accepted", "rejected"}
          /\ w.buf[i].session = s /\ w.buf[i].state = "waiting"
          /\ i \in 1..Len(w.buf)
      BY <1>5, <1>8, <1>9, <1>12, <1>13 DEF s
    <3> QED
      BY <1>13, <1>14, <3>1, AnswerKeeps
  <2>2. a = "accepted" => \A j \in 1..i - 1 : w.buf[j].session # s
    <3>1. buf[i].action = "reject" \/ \A j \in 1..i - 1 : buf[j].session # s
      BY <1>5, <1>7 DEF Entries, s
    <3>2. w.buf = buf
      BY <1>12, <1>13
    <3> QED
      BY <1>9, <3>1, <3>2
  <2> HIDE DEF x
  <2> QED
    BY <2>1, <2>2 DEF x
<1> HIDE DEF x
<1>16. Sound(v, Started, net)
  <2>1. CASE x.timer
    <3>1. Sound(x, Started, net)
      BY <1>13, <1>15, <2>1, SoundIsSettled
    <3> QED
      BY <1>6, <2>1, <3>1
  <2>2. CASE ~x.timer
    <3>1. Sound(RestartTimer(x), Started, net)
      BY <1>15, RestartSound
    <3> QED
      BY <1>6, <2>2, <3>1
  <2> QED
    BY <2>1, <2>2
<1> HIDE DEF v
<1> QED
  BY <1>1, <1>2, <1>16, BecomeKeeps

\* The controller comes and goes: when it goes it knows nothing.
LEMMA ServerKeeps ==
    ASSUME NEW w, NEW D, NEW n, NEW v \in Worlds, Sound(w, D, n),
           SameSessions(v, w), v.buf = w.buf, v.timer = w.timer, v.known \subseteq w.known
    PROVE  Sound(v, D, n)
<1>1. Base(v, D, n)
  BY SameSessionsKeeps DEF Sound
<1>2. /\ WaitsForPrivacy(v) = WaitsForPrivacy(w)
      /\ Later(v, n) = Later(w, n) /\ Quiet(v) = Quiet(w)
      /\ \A t : Lives(v, t) <=> Lives(w, t)
  BY SameSessionsGives
<1>3. /\ BufferOK(w.buf, WaitsForPrivacy(w), w.known, Later(w, n), Quiet(w))
      /\ OneEmergency => \A s \in w.known : Lives(w, s)
  BY DEF Sound, Privacy
<1>4. BufferOK(w.buf, WaitsForPrivacy(w), v.known, Later(w, n), Quiet(w))
  BY <1>3, BufferWeakens
<1>5. Privacy(v, WaitsForPrivacy(v), n)
  BY <1>2, <1>3, <1>4 DEF Privacy
<1>6. TimerOK(v)
  BY Zenon DEF Sound, TimerOK
<1> QED
  BY <1>1, <1>2, <1>5, <1>6 DEF Sound

\* The controller opens its subsession, or closes it.
LEMMA ServerConnectsKeeps ==
    ASSUME Inv, ServerConnects \/ ServerDisconnects
    PROVE  Inv'
<1>1. /\ Sound(World, Started, net) /\ World \in Worlds
  BY WorldIsSound
<1>2. /\ net' = net /\ budget' = budget
      /\ \/ Become([World EXCEPT !.server = TRUE])
         \/ Become([World EXCEPT !.server = FALSE, !.known = {}])
  BY Zenon DEF ServerConnects, ServerDisconnects, Same
<1>3. Book /\ Book' /\ Started' = Started
  BY <1>2 DEF Inv, Book, Started
<1> DEFINE w == World
           v1 == [w EXCEPT !.server = TRUE]
           v2 == [w EXCEPT !.server = FALSE, !.known = {}]
<1>4. w \in Worlds /\ Sound(w, Started, net) /\ (Become(v1) \/ Become(v2))
  BY <1>1, <1>2
<1> HIDE DEF w
<1>5. /\ v1 \in Worlds /\ SameSessions(v1, w) /\ v1.buf = w.buf /\ v1.timer = w.timer
      /\ v1.known = w.known
  BY <1>4 DEF Worlds, SameSessions
<1>6. /\ v2 \in Worlds /\ SameSessions(v2, w) /\ v2.buf = w.buf /\ v2.timer = w.timer
      /\ v2.known = {}
  BY <1>4 DEF Worlds, SameSessions
<1> HIDE DEF v1, v2
<1>7. Sound(v1, Started, net) /\ Sound(v2, Started, net)
  <2>1. Sound(v1, Started, net)
    BY <1>4, <1>5, ServerKeeps
  <2>2. Sound(v2, Started, net)
    BY <1>4, <1>6, ServerKeeps
  <2> QED
    BY <2>1, <2>2
<1>8. CASE Become(v1)
  BY <1>3, <1>2, <1>7, <1>8, BecomeKeeps
<1>9. CASE Become(v2)
  BY <1>3, <1>2, <1>7, <1>9, BecomeKeeps
<1> QED
  BY <1>4, <1>8, <1>9

\* The sessions that wait for a position note what came, and those in S are
\* answered.
LEMMA UpdateKeeps ==
    ASSUME Inv, NEW g \in [Session -> Fsms], NEW S \in SUBSET Locating, NEW what,
           \A t \in Session :
              /\ g[t].state = fsm[t].state /\ g[t].locReq = fsm[t].locReq
              /\ g[t].exited = fsm[t].exited /\ g[t].counted = fsm[t].counted
              /\ g[t].cancelled = fsm[t].cancelled,
           \A s \in S : what[s] \in Place \union {"error"}
    PROVE  Sound(ExitWaitLocUpdate([World EXCEPT !.fsm = g], S, what), Started, net)
<1> DEFINE w == World
           v == [w EXCEPT !.fsm = g]
<1>1. Sound(w, Started, net) /\ w.sent = {} /\ w \in Worlds /\ w.fsm = fsm
  BY WorldIsSound DEF World
<1> HIDE DEF w
<1>2. /\ v \in Worlds /\ v.fsm = g /\ v.spare = w.spare /\ v.latest = w.latest
      /\ v.agps = w.agps /\ v.sent = w.sent /\ v.counter = w.counter
      /\ v.granted = w.granted /\ v.owed = w.owed /\ v.asked = w.asked
      /\ v.buf = w.buf /\ v.timer = w.timer /\ v.known = w.known
  BY <1>1 DEF Worlds
<1> HIDE DEF v
<1>3. \A t \in Session : v.owed[t] >= w.owed[t] /\ v.asked[t] >= w.asked[t]
  BY <1>1, <1>2 DEF Worlds
<1>4. Alike(v, w)
  BY <1>1, <1>2, <1>3 DEF Alike, SameBuf
<1>5. Sound(v, Started, net) /\ v.sent = {}
  BY <1>1, <1>2, <1>4, AlikeSound
<1>6. S \in SUBSET Session /\ \A s \in S : v.fsm[s].state = "waitLocUpdate"
  BY <1>2 DEF Locating
<1>7. Sound(ExitWaitLocUpdate(v, S, what), Started, net)
  BY <1>5, <1>6, ExitWaitSound
<1> QED
  BY <1>7 DEF v, w

\* The state machines are state machines.
LEMMA FsmIsFsms ==
    ASSUME Inv
    PROVE  fsm \in [Session -> Fsms]
<1>1. World \in Worlds /\ World.fsm = fsm
  BY WorldIsSound DEF World
<1> QED
  BY <1>1 DEF Worlds

\* A session is given up.
LEMMA LocationTimerKeeps ==
    ASSUME Inv, NEW s \in Session, LocationTimer(s)
    PROVE  Inv'
<1> DEFINE what == [t \in {s} |-> IF fsm[s].meas THEN "measurement"
                                  ELSE IF fsm[s].fix THEN "qualityLoss" ELSE "error"]
           v == ExitWaitLocUpdate(World, {s}, what)
<1>1. s \in Locating /\ net' = net /\ budget' = budget /\ Become(v)
  BY Zenon DEF LocationTimer, Same
<1>2. Book /\ Book' /\ Started' = Started
  BY <1>1 DEF Inv, Book, Started
<1>3. [World EXCEPT !.fsm = fsm] = World
  BY DEF World
<1>4. \A t \in {s} : what[t] \in Place \union {"error"}
  BY DEF Place
<1> HIDE DEF what
<1>5. Sound(v, Started, net)
  <2>1. {s} \in SUBSET Locating /\ fsm \in [Session -> Fsms]
    BY <1>1, FsmIsFsms
  <2>2. Sound(ExitWaitLocUpdate([World EXCEPT !.fsm = fsm], {s}, what), Started, net)
    BY <1>4, <2>1, UpdateKeeps
  <2> QED
    BY <1>3, <2>2
<1> HIDE DEF v
<1> QED
  BY <1>1, <1>2, <1>5, BecomeKeeps

\* A position comes.
LEMMA PositionUpdateKeeps ==
    ASSUME Inv, NEW reason \in {"none", "error", "early"}, NEW accurate \in SUBSET Locating,
           PositionUpdate(reason, accurate)
    PROVE  Inv'
<1> DEFINE met == IF reason = "none" THEN {s \in accurate : ~fsm[s].tap} ELSE Locating
           what == [s \in met |-> IF reason # "error" THEN "position"
                                  ELSE IF fsm[s].meas THEN "measurement" ELSE "error"]
           g == [s \in Session |->
                   IF s \in Locating THEN [fsm[s] EXCEPT !.fix = TRUE] ELSE fsm[s]]
           v == ExitWaitLocUpdate([World EXCEPT !.fsm = g], met, what)
<1>1. net' = net /\ budget' = budget /\ Become(v)
  BY Zenon DEF PositionUpdate, Same
<1>2. Book /\ Book' /\ Started' = Started
  BY <1>1 DEF Inv, Book, Started
<1>3. fsm \in [Session -> Fsms]
  BY FsmIsFsms
<1>4. /\ g \in [Session -> Fsms]
      /\ \A t \in Session :
              /\ g[t].state = fsm[t].state /\ g[t].locReq = fsm[t].locReq
              /\ g[t].exited = fsm[t].exited /\ g[t].counted = fsm[t].counted
              /\ g[t].cancelled = fsm[t].cancelled
  BY <1>3 DEF Fsms
<1>5. met \in SUBSET Locating
  OBVIOUS
<1>6. \A s \in met : what[s] \in Place \union {"error"}
  BY DEF Place
<1> HIDE DEF g, met, what
<1>7. Sound(v, Started, net)
  BY <1>4, <1>5, <1>6, UpdateKeeps
<1> HIDE DEF v
<1> QED
  BY <1>1, <1>2, <1>7, BecomeKeeps

\* Measurements come.
LEMMA MeasurementUpdateKeeps ==
    ASSUME Inv, NEW possible \in BOOLEAN, MeasurementUpdate(possible)
    PROVE  Inv'
<1> DEFINE assisted == {s \in Locating : "ta" \in fsm[s].method}
           S == IF possible THEN assisted ELSE {}
           what == [s \in assisted |-> "measurement"]
           g == [s \in Session |->
                   IF s \in assisted THEN [fsm[s] EXCEPT !.meas = TRUE] ELSE fsm[s]]
           v == ExitWaitLocUpdate([World EXCEPT !.fsm = g], S, what)
<1>1. net' = net /\ budget' = budget /\ Become(v)
  BY Zenon DEF MeasurementUpdate, Same
<1>2. Book /\ Book' /\ Started' = Started
  BY <1>1 DEF Inv, Book, Started
<1>3. fsm \in [Session -> Fsms]
  BY FsmIsFsms
<1>4. /\ g \in [Session -> Fsms]
      /\ \A t \in Session :
              /\ g[t].state = fsm[t].state /\ g[t].locReq = fsm[t].locReq
              /\ g[t].exited = fsm[t].exited /\ g[t].counted = fsm[t].counted
              /\ g[t].cancelled = fsm[t].cancelled
  BY <1>3 DEF Fsms
<1>5. S \in SUBSET Locating
  OBVIOUS
<1>6. \A s \in S : what[s] \in Place \union {"error"}
  BY DEF Place
<1> HIDE DEF g, S, what
<1>7. Sound(v, Started, net)
  BY <1>4, <1>5, <1>6, UpdateKeeps
<1> HIDE DEF v
<1> QED
  BY <1>1, <1>2, <1>7, BecomeKeeps

\* Nothing has happened yet.
LEMMA InitIsSound ==
    ASSUME Init
    PROVE  Inv
<1> DEFINE w == Now
<1>0. Emergency \subseteq Session /\ IsFiniteSet(Session) /\ MaxRequests \in [Session -> Nat]
  BY AgpsAssumption, PrivLocAssumption
<1>1. /\ w.fsm = [s \in Session |-> NoFsm] /\ w.spare = Fresh
      /\ w.latest = [t \in {"SELF", "X3P"} |-> NoSession] /\ w.agps = NoRequests
      /\ w.buf = <<>> /\ w.timer = FALSE /\ w.counter = 0 /\ w.sent = {}
      /\ w.owed = [s \in Session |-> 0] /\ w.asked = [s \in Session |-> 0]
      /\ w.granted = {} /\ w.known = {}
  BY DEF Init, Now
<1>2. NoFsm \in Fsms /\ Fresh \in Fsms /\ NoFsm.state = "none" /\ ~NoFsm.counted
      /\ Fresh.state = "idle" /\ ~Fresh.counted
  BY DEF NoFsm, Fresh, Fsms, FsmState, Mode
<1>3. NoRequests \in AgpsState
  BY DEF NoRequests, AgpsState, RequestState
<1>4. w \in Worlds
  <2>1. <<>> \in Seq(PrivacyRequest) /\ ServerStays \in BOOLEAN
    BY PrivLocAssumption
  <2>2. fsm \in [Session -> Fsms]
    BY <1>2 DEF Init
  <2>3. /\ spare \in Fsms /\ latest \in [{"SELF", "X3P"} -> Session \union {NoSession}]
        /\ agps \in AgpsState
    BY <1>2, <1>3 DEF Init
  <2>4. /\ buf \in Seq(PrivacyRequest) /\ timer \in BOOLEAN /\ alwaysVerify \in BOOLEAN
        /\ server \in BOOLEAN /\ counter \in Nat /\ sent \in SUBSET (Session \X Responses)
    BY <2>1 DEF Init
  <2>5. /\ owed \in [Session -> Int] /\ asked \in [Session -> Int]
        /\ granted \in SUBSET Session /\ known \in SUBSET Session
        /\ trusted \in SUBSET Session
    BY DEF Init
  <2> QED
    BY <2>2, <2>3, <2>4, <2>5 DEF Now, Worlds
<1> HIDE DEF w
<1>5. \A s \in Session : w.fsm[s].state = "none" /\ ~w.fsm[s].counted /\ ~Lives(w, s)
  BY <1>1, <1>2 DEF Lives
<1>6. \A s \in Session : w.agps.req[s] = "none" /\ w.agps.method[s] = {}
  BY <1>1 DEF NoRequests
<1>7. ASSUME NEW s \in Session
      PROVE  Local(w, s)
  <2>1. w.owed[s] = 0 /\ w.asked[s] = 0
    BY <1>1
  <2> QED
    BY <1>1, <1>5, <1>6, <2>1 DEF Local, Consented, Replied, Tidied
<1>8. Shared(w, Started)
  <2>1. Counted(w) = {}
    BY <1>5 DEF Counted
  <2>2. w.counter = Cardinality(Counted(w))
    BY <1>1, <2>1, FS_EmptySet
  <2>3. ~w.agps.running /\ \A t \in {"SELF", "X3P"} : w.latest[t] = NoSession
    BY <1>1 DEF NoRequests
  <2>4. w.spare.state = "idle" /\ ~w.spare.counted
    BY <1>1, <1>2
  <2> QED
    BY <1>0, <1>5, <1>6, <2>2, <2>3, <2>4 DEF Shared
<1>9. Base(w, Started, net)
  BY <1>4, <1>5, <1>7, <1>8 DEF Base
<1>10. Len(w.buf) = 0 /\ w.buf \in Seq(PrivacyRequest) /\ DOMAIN w.buf = {}
  BY <1>1
<1>11. WaitsForPrivacy(w) = {}
  BY <1>5 DEF WaitsForPrivacy
<1>12. Privacy(w, WaitsForPrivacy(w), net)
  BY <1>1, <1>10, <1>11
     DEF Privacy, BufferOK, Entries, Covers, Informed, Absent, Silenced
<1>13. NewAt(w.buf) = {}
  BY <1>10 DEF NewAt
<1>14. TimerOK(w)
  <2>1. ~Waits(w.buf) /\ ~w.timer
    BY <1>1, <1>10 DEF Waits
  <2> QED
    BY <2>1, Zenon DEF TimerOK
<1>15. Sound(w, Started, net)
  BY <1>9, <1>11, <1>12, <1>13, <1>14 DEF Sound
<1>16. Book
  BY <1>0 DEF Init, Book
<1> QED
  BY <1>15, <1>16 DEF Inv, w

\* Every event leaves the handler in order.
LEMMA NextKeeps ==
    ASSUME Inv, [Next]_vars
    PROVE  Inv'
<1>1. /\ Advices \subseteq {"verify", "notify", "silent", "stealth"}
      /\ Admin \subseteq {"on", "alwaysVerify", "off", "offButNotify"}
      /\ Silent \subseteq BOOLEAN /\ Completeness \subseteq BOOLEAN
      /\ \A s \in Session : Methods[s] \subseteq Mode
  BY PrivLocAssumption DEF Completeness, Mode
<1>2. ASSUME NEW s \in Session, NEW advice \in Advices, NEW action \in {"allow", "reject"},
             NEW admin \in Admin, NEW silent \in Silent,
             MTLRRequest(s, advice, action, admin, silent)
      PROVE  Inv'
  <2>1. /\ advice \in {"verify", "notify", "silent", "stealth"}
        /\ admin \in {"on", "alwaysVerify", "off", "offButNotify"}
        /\ silent \in BOOLEAN
    BY <1>1
  <2> QED
    BY <1>2, <2>1, MtlrRequestKeeps
<1>3. ASSUME NEW s \in Session, NEW m \in Methods[s], NEW complete \in Completeness,
             NEW admin \in Admin, NEW cached \in BOOLEAN,
             NetLocRequest(s, m, complete, admin, cached)
      PROVE  Inv'
  <2>1. /\ m \in Mode /\ complete \in BOOLEAN
        /\ admin \in {"on", "alwaysVerify", "off", "offButNotify"}
    BY <1>1
  <2> QED
    BY <1>3, <2>1, NetLocRequestKeeps
<1>4. ASSUME NEW s \in Session, SessionComplete(s)
      PROVE  Inv'
  BY <1>4, SessionCompleteKeeps
<1>5. ASSUME NEW s \in Session, NEW a \in {"accepted", "rejected"}, NEW c \in BOOLEAN,
             ControllerResponds(s, a, c)
      PROVE  Inv'
  BY <1>5, ControllerRespondsKeeps
<1>6. ASSUME NEW s \in Session, ControllerCancels(s)
      PROVE  Inv'
  BY <1>6, ControllerCancelsKeeps
<1>7. ASSUME NEW s \in Session, LocationTimer(s)
      PROVE  Inv'
  BY <1>7, LocationTimerKeeps
<1>8. ASSUME NEW cached \in BOOLEAN, ResponseTimer(cached)
      PROVE  Inv'
  BY <1>8, ResponseTimerKeeps
<1>9. CASE ServerConnects \/ ServerDisconnects
  BY <1>9, ServerConnectsKeeps
<1>10. ASSUME NEW reason \in {"none", "error", "early"}, NEW accurate \in SUBSET Locating,
              PositionUpdate(reason, accurate)
       PROVE  Inv'
  BY <1>10, PositionUpdateKeeps
<1>11. ASSUME NEW possible \in BOOLEAN, MeasurementUpdate(possible)
       PROVE  Inv'
  BY <1>11, MeasurementUpdateKeeps
<1>12. CASE UNCHANGED vars
  <2>1. Now' = Now /\ Started' = Started /\ net' = net
    BY <1>12 DEF vars, Now, Started
  <2>2. Book'
    BY <1>12 DEF vars, Inv, Book
  <2>3. Sound(Now', Started', net')
    BY <2>1 DEF Inv
  <2> QED
    BY <2>2, <2>3 DEF Inv
<1> QED
  BY <1>2, <1>3, <1>4, <1>5, <1>6, <1>7, <1>8, <1>9, <1>10, <1>11, <1>12 DEF Next

\* The invariant the theorems below follow from: between two events, the buffer,
\* every session and what sessions share are in order.
THEOREM HandlerIsSound == Spec => []Inv
<1>1. Init => Inv
  BY InitIsSound
<1>2. Inv /\ [Next]_vars => Inv'
  BY NextKeeps
<1> QED
  BY <1>1, <1>2, PTL DEF Spec

\* What the invariant says of one session and of the sessions together, in the
\* variables.
LEMMA InvGives ==
    ASSUME Inv
    PROVE  /\ Now \in Worlds /\ Shared(Now, Started)
           /\ \A s \in Session : Local(Now, s)
           /\ BufferOK(buf, WaitsForPrivacy(Now), known, Later(Now, net), Quiet(Now))
           /\ OneEmergency => \A s \in known : Lives(Now, s)
           /\ NewAt(buf) = {} /\ TimerOK(Now)
           /\ Now.fsm = fsm /\ Now.spare = spare /\ Now.latest = latest /\ Now.agps = agps
           /\ Now.buf = buf /\ Now.timer = timer /\ Now.alwaysVerify = alwaysVerify
           /\ Now.server = server /\ Now.counter = counter /\ Now.sent = sent
           /\ Now.owed = owed /\ Now.asked = asked /\ Now.granted = granted
           /\ Now.known = known
           /\ \A s : Lives(Now, s) <=> fsm[s].state # "none"
<1>1. /\ Now.fsm = fsm /\ Now.spare = spare /\ Now.latest = latest /\ Now.agps = agps
      /\ Now.buf = buf /\ Now.timer = timer /\ Now.alwaysVerify = alwaysVerify
      /\ Now.server = server /\ Now.counter = counter /\ Now.sent = sent
      /\ Now.owed = owed /\ Now.asked = asked /\ Now.granted = granted
      /\ Now.known = known
  BY DEF Now
<1> QED
  BY <1>1 DEF Inv, Sound, Base, Privacy, Lives

\* The shape of the state: no privacy request is left without the state its
\* handler gives it, and the emergency state machine out of iFsmArray is Idle.
THEOREM TypeCorrect == Spec => []TypeOK
<1>1. Inv => TypeOK
  <2> SUFFICES ASSUME Inv
               PROVE  TypeOK
    OBVIOUS
  <2>1. /\ fsm \in [Session -> Fsms] /\ spare.state = "idle"
        /\ latest \in [{"SELF", "X3P"} -> Session \union {NoSession}]
        /\ agps \in AgpsState /\ buf \in Seq(PrivacyRequest)
        /\ timer \in BOOLEAN /\ alwaysVerify \in BOOLEAN /\ server \in BOOLEAN
        /\ counter \in Nat /\ NewAt(buf) = {}
    BY InvGives DEF Worlds, Shared
  <2>2. \A i \in DOMAIN buf : buf[i].state \in {"waiting", "responded", "completed"}
    <3> DEFINE b == buf
    <3>1. b \in Seq(PrivacyRequest) /\ NewAt(b) = {}
      BY <2>1
    <3> HIDE DEF b
    <3>2. \A i \in 1..Len(b) : b[i] \in PrivacyRequest
      BY <3>1
    <3>3. \A i \in 1..Len(b) : b[i].state \in RequestStates /\ b[i].state # "new"
      BY <3>1, <3>2 DEF PrivacyRequest, NewAt
    <3>4. DOMAIN b = 1..Len(b)
      BY <3>1
    <3> QED
      BY <3>3, <3>4 DEF RequestStates, b
  <2> QED
    BY <2>1, <2>2 DEF TypeOK, Fsms, Mode
<1>2. Spec => []Inv
  BY HandlerIsSound
<1> QED
  BY <1>1, <1>2, PTL

\* The network is told the terminal's place only for a session the privacy
\* handler last accepted.
THEOREM PlaceNeedsConsent == Spec => []Consent
<1>1. Inv => Consent
  <2> SUFFICES ASSUME Inv, NEW s \in External \ Emergency, Located(s)
               PROVE  s \in granted
    BY DEF Consent
  <2>1. s \in Session
    BY DEF External
  <2>2. Consented(Now, s) /\ Now.sent = sent /\ Now.granted = granted
    BY <2>1, InvGives DEF Local
  <2> QED
    BY <2>2 DEF Consented, Located, Place
<1>2. Spec => []Inv
  BY HandlerIsSound
<1> QED
  BY <1>1, <1>2, PTL

\* The timer runs exactly while a request waits, and a session that waits for
\* its answer has such a request.
THEOREM TimeoutIsNeverLost == Spec => []TimerCovers
<1>1. Inv => TimerCovers
  <2> SUFFICES ASSUME Inv
               PROVE  TimerCovers
    OBVIOUS
  <2>1. Now.timer <=> Waits(Now.buf)
    BY InvGives, Zenon DEF TimerOK
  <2>2. Now.timer = timer /\ Now.buf = buf /\ Now.fsm = fsm
    BY DEF Now
  <2>3. timer <=> Waits(buf)
    BY <2>1, <2>2, Zenon
  <2>4. buf \in Seq(PrivacyRequest) /\ Covers(buf, WaitsForPrivacy(Now))
    BY InvGives DEF BufferOK
  <2>5. ASSUME NEW s \in Session, fsm[s].state = "waitPriv"
        PROVE  \E i \in DOMAIN buf : buf[i].session = s /\ buf[i].state = "waiting"
    <3>1. s \in WaitsForPrivacy(Now)
      BY <2>2, <2>5 DEF WaitsForPrivacy
    <3>2. DOMAIN buf = 1..Len(buf)
      BY <2>4
    <3> QED
      BY <2>4, <3>1, <3>2 DEF Covers
  <2> QED
    BY <2>3, <2>5, Zenon DEF TimerCovers
<1>2. Spec => []Inv
  BY HandlerIsSound
<1> QED
  BY <1>1, <1>2, PTL

\* The combined request has the mode of every session that waits for a position,
\* unless an emergency took the GPS.
THEOREM ModeAlwaysServes == Spec => []ModeServes
<1>1. Inv => ModeServes
  <2> SUFFICES ASSUME Inv, NEW s \in Locating,
                      (\A e \in Emergency \ {s} : budget[e] = MaxRequests[e]) \/ s \in Emergency
               PROVE  Serves(agps.mode, agps.method[s])
    BY DEF ModeServes
  <2>1. s \in Session /\ fsm[s].state = "waitLocUpdate"
    BY DEF Locating
  <2>2. Started \subseteq {s} \/ s \in Emergency
    BY DEF Started
  <2> QED
    BY <2>1, <2>2, InvGives DEF Shared
<1>2. Spec => []Inv
  BY HandlerIsSound
<1> QED
  BY <1>1, <1>2, PTL

\* With one emergency no session gets a response too many, whoever cancels and
\* whenever, but for the response to a cancel in Idle.
THEOREM RepliesAlwaysMatch == OneEmergency => (Spec => []RepliesMatch)
<1> SUFFICES ASSUME OneEmergency
             PROVE  Spec => []RepliesMatch
  OBVIOUS
<1>1. Inv => RepliesMatch
  <2> SUFFICES ASSUME Inv, NEW s \in Session
               PROVE  owed[s] >= 0 /\ (Type[s] = "MT" => asked[s] >= 0)
    BY DEF RepliesMatch
  <2>1. Replied(Now, s) /\ Now.owed = owed /\ Now.asked = asked
    BY InvGives DEF Local
  <2> QED
    BY <2>1 DEF Replied
<1>2. Spec => []Inv
  BY HandlerIsSound
<1> QED
  BY <1>1, <1>2, PTL

\* With one emergency the controller knows of no session that has ended.
THEOREM ControllerIsInformed == OneEmergency => (Spec => []ControllerView)
<1> SUFFICES ASSUME OneEmergency
             PROVE  Spec => []ControllerView
  OBVIOUS
<1>1. Inv => ControllerView
  <2> SUFFICES ASSUME Inv
               PROVE  ControllerView
    OBVIOUS
  <2>1. Now \in Worlds /\ Now.known = known /\ \A s \in known : fsm[s].state # "none"
    BY InvGives
  <2>2. known \subseteq Session /\ World.fsm = fsm
    BY <2>1 DEF Worlds, World
  <2> QED
    BY <2>1, <2>2 DEF ControllerView, Live
<1>2. Spec => []Inv
  BY HandlerIsSound
<1> QED
  BY <1>1, <1>2, PTL

\* With one emergency, and no session that replaces another, a session that
\* ended left no location request, and without sessions the GPS is off and, with
\* location management, nobody is shown as being positioned.
THEOREM EverythingIsReleased == OneEmergency /\ NoneReplaced => (Spec => []Released)
<1> SUFFICES ASSUME OneEmergency, NoneReplaced
             PROVE  Spec => []Released
  OBVIOUS
<1>1. Inv => Released
  <2> SUFFICES ASSUME Inv
               PROVE  Released
    OBVIOUS
  <2>1. World.fsm = fsm
    BY DEF World
  <2>2. ASSUME NEW s \in Requests(agps)
        PROVE  s \in Live(World)
    <3>1. s \in Session /\ agps.req[s] # "none"
      BY DEF Requests
    <3>2. Tidied(Now, s) /\ Now.agps = agps /\ (Lives(Now, s) <=> fsm[s].state # "none")
      BY <3>1, InvGives DEF Local
    <3> QED
      BY <2>1, <3>1, <3>2 DEF Tidied, Live
  <2>3. ASSUME Live(World) = {}
        PROVE  ~agps.running /\ (LocationManagement => counter = 0)
    <3>1. \A s \in Session : fsm[s].state = "none"
      BY <2>1, <2>3 DEF Live
    <3>2. \A s \in Session : ~Lives(Now, s)
      BY <3>1, InvGives
    <3>3. Counted(Now) = {}
      BY <3>2, InvGives DEF Counted, Local
    <3>4. /\ LocationManagement => Now.counter = Cardinality(Counted(Now))
          /\ ~Now.agps.running
          /\ Now.counter = counter /\ Now.agps = agps
      BY <3>2, InvGives DEF Shared
    <3> QED
      BY <3>3, <3>4, FS_EmptySet
  <2> QED
    BY <2>2, <2>3 DEF Released
<1>2. Spec => []Inv
  BY HandlerIsSound
<1> QED
  BY <1>1, <1>2, PTL

\* With one emergency, no session that replaces another, and a profile wherever
\* one is needed, a session waits for a position exactly while its location
\* request is active, and then the AGPS manager works.
THEOREM LocatingSessionsAreActive ==
    OneEmergency /\ NoneReplaced /\ QualityKnown => (Spec => []LocatingIsActive)
<1> SUFFICES ASSUME OneEmergency, NoneReplaced, QualityKnown
             PROVE  Spec => []LocatingIsActive
  OBVIOUS
<1>1. Inv => LocatingIsActive
  <2> SUFFICES ASSUME Inv, NEW s \in Session
               PROVE  /\ s \in Locating <=> agps.req[s] = "active"
                      /\ s \in Locating => agps.running
    BY DEF LocatingIsActive
  <2>1. Local(Now, s) /\ Shared(Now, Started) /\ Now.agps = agps /\ Now.fsm = fsm
    BY InvGives
  <2>2. s \in Locating <=> Now.fsm[s].state = "waitLocUpdate"
    BY <2>1 DEF Locating
  <2>3. /\ Now.fsm[s].state = "waitLocUpdate" => Now.agps.req[s] = "active"
        /\ Now.agps.req[s] = "active" => Now.fsm[s].state = "waitLocUpdate"
        /\ Now.agps.req[s] = "active" => Now.agps.running
    BY <2>1 DEF Local, Tidied, Shared
  <2>4. s \in Locating <=> agps.req[s] = "active"
    BY <2>1, <2>2, <2>3
  <2>5. s \in Locating => agps.running
    BY <2>1, <2>2, <2>3
  <2> QED
    BY <2>4, <2>5, Zenon
<1>2. Spec => []Inv
  BY HandlerIsSound
<1> QED
  BY <1>1, <1>2, PTL

\* A device that can do both modes, in turn or at once, never refuses an
\* emergency.
THEOREM EmergencyIsNeverRefused ==
    Device \in {"either", "both"} => (Spec => []EmergencyNeverRefused)
<1> SUFFICES ASSUME Device \in {"either", "both"}
             PROVE  Spec => []EmergencyNeverRefused
  OBVIOUS
<1>1. Inv => EmergencyNeverRefused
  <2> SUFFICES ASSUME Inv, NEW s \in Emergency
               PROVE  <<s, "refused">> \notin sent
    BY DEF EmergencyNeverRefused
  <2>1. s \in Session
    BY AgpsAssumption
  <2>2. Local(Now, s) /\ Now.sent = sent
    BY <2>1, InvGives
  <2> QED
    BY <2>2 DEF Local
<1>2. Spec => []Inv
  BY HandlerIsSound
<1> QED
  BY <1>1, <1>2, PTL

=============================================================================
