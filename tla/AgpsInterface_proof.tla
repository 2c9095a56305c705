------------------------ MODULE AgpsInterface_proof ------------------------
(***************************************************************************)
(* Proofs about the AGPS interface handler, for any number of sessions,    *)
(* any limit and every kind of device.  Four invariants are proved         *)
(* together as Inv: that a mode stays served rests on the combined mode    *)
(* being set while the AGPS manager works.                                 *)
(***************************************************************************)
EXTENDS AgpsInterface, AgpsRequests_proof, FiniteSetTheorems

Inv == TypeOK /\ RunningInvariant /\ ActiveIsServed /\ DeviceAble

-----------------------------------------------------------------------------
\* The operations.

\* Taking a session off the list, or putting its request to another state
\* than active, changes nothing the invariants say while the combined request
\* stays as it is.
LEMMA DeactivateKeepsInv ==
    ASSUME Inv, NEW b \in AgpsState,
           b.mode = agps.mode, b.running = agps.running,
           \A s \in Session : b.req[s] = "active" =>
               agps.req[s] = "active" /\ b.method[s] = agps.method[s],
           agps' = b
    PROVE  Inv'
<1>1. TypeOK'
  BY DEF TypeOK
<1>2. RunningInvariant'
  BY DEF Inv, RunningInvariant, AnyRequest
<1>3. ActiveIsServed'
  BY DEF Inv, ActiveIsServed
<1>4. DeviceAble'
  BY DEF Inv, DeviceAble
<1> QED
  BY <1>1, <1>2, <1>3, <1>4 DEF Inv

\* Before the first request nothing runs.
LEMMA InitInv == Init => Inv
<1> SUFFICES ASSUME Init PROVE Inv
  OBVIOUS
<1>1. TypeOK
  BY DEF Init, NoRequests, TypeOK, AgpsState, RequestState
<1>2. \A s \in Session : agps.req[s] = "none"
  BY DEF Init, NoRequests
<1>3. agps.mode = {} /\ agps.running = FALSE
  BY DEF Init, NoRequests
<1>4. RunningInvariant
  BY <1>2, <1>3 DEF RunningInvariant, AnyRequest
<1>5. ActiveIsServed
  BY <1>2 DEF ActiveIsServed
<1>6. DeviceAble
  BY <1>3 DEF DeviceAble, Hybrid
<1> QED
  BY <1>1, <1>4, <1>5, <1>6 DEF Inv

LEMMA PreStartInv ==
    ASSUME Inv, NEW s \in Session, PreStart(s)
    PROVE  Inv'
<1>1. agps \in AgpsState
  BY DEF Inv, TypeOK
<1>2. CASE MayAdd(agps, s)
  <2>1. agps' = [agps EXCEPT !.req[s] = "idle", !.method[s] = {}]
    BY <1>2 DEF PreStart, PreStartPositioning
  <2>2. /\ agps' \in AgpsState
        /\ agps'.mode = agps.mode /\ agps'.running = agps.running
    BY <1>1, <2>1 DEF AgpsState, RequestState
  <2>3. ASSUME NEW t \in Session, agps'.req[t] = "active"
        PROVE  agps.req[t] = "active" /\ agps'.method[t] = agps.method[t]
    BY <1>1, <2>1, <2>3 DEF AgpsState
  <2> QED
    BY <2>2, <2>3, DeactivateKeepsInv
<1>3. CASE ~MayAdd(agps, s)
  <2>1. agps' = agps
    BY <1>3 DEF PreStart, PreStartPositioning
  <2> QED
    BY <1>1, <2>1, DeactivateKeepsInv
<1> QED
  BY <1>2, <1>3

LEMMA HoldInv ==
    ASSUME Inv, NEW s \in Session, Hold(s)
    PROVE  Inv'
<1>1. agps \in AgpsState
  BY DEF Inv, TypeOK
<1>2. agps' = [agps EXCEPT !.req = [t \in Session |->
                 IF t \in {s} /\ agps.req[t] # "none" THEN "hold" ELSE agps.req[t]]]
  BY DEF Hold, HoldPositioning
<1>3. /\ agps' \in AgpsState
      /\ agps'.mode = agps.mode /\ agps'.running = agps.running
  BY <1>1, <1>2 DEF AgpsState, RequestState
<1>4. ASSUME NEW t \in Session, agps'.req[t] = "active"
      PROVE  agps.req[t] = "active" /\ agps'.method[t] = agps.method[t]
  BY <1>1, <1>2, <1>4 DEF AgpsState
<1> QED
  BY <1>3, <1>4, DeactivateKeepsInv

LEMMA StopInv ==
    ASSUME Inv, NEW s \in Session, Stop(s)
    PROVE  Inv'
<1> DEFINE b == RemoveRequest(agps, s)
<1>1. agps \in AgpsState
  BY DEF Inv, TypeOK
<1>2. /\ b \in AgpsState
      /\ b.mode = agps.mode /\ b.running = agps.running
  BY <1>1, RemoveRequestRemoves
<1>3. ASSUME NEW t \in Session, b.req[t] = "active"
      PROVE  agps.req[t] = "active" /\ b.method[t] = agps.method[t]
  <2>1. b.req = [agps.req EXCEPT ![s] = "none"] /\ b.method = [agps.method EXCEPT ![s] = {}]
    BY <1>1, RemoveRequestRemoves
  <2> QED
    BY <1>1, <1>3, <2>1 DEF AgpsState
<1>4. CASE AnyRequest(b, "active")
  <2>1. agps.running
    BY <1>3, <1>4 DEF AnyRequest, Inv, RunningInvariant
  <2>2. agps' = [b EXCEPT !.running = TRUE]
    BY <1>4 DEF Stop, StopPositioning
  <2>3. agps' = b
    BY <1>2, <2>1, <2>2 DEF AgpsState
  <2> QED
    BY <1>2, <1>3, <2>3, DeactivateKeepsInv
<1>5. CASE ~AnyRequest(b, "active") /\ ~AnyRequest(b, "hold") /\ b.running
  <2>1. agps' = [b EXCEPT !.running = FALSE, !.mode = {}]
    BY <1>5 DEF Stop, StopPositioning
  <2>2. /\ agps' \in AgpsState
        /\ agps'.running = FALSE /\ agps'.mode = {} /\ agps'.req = b.req
    BY <1>2, <2>1 DEF AgpsState
  <2>3. \A t \in Session : agps'.req[t] # "active"
    BY <1>5, <2>2 DEF AnyRequest
  <2>4. RunningInvariant'
    BY <2>2, <2>3 DEF RunningInvariant, AnyRequest
  <2>5. ActiveIsServed'
    BY <2>3 DEF ActiveIsServed
  <2>6. DeviceAble'
    BY <2>2 DEF DeviceAble, Hybrid
  <2> QED
    BY <2>2, <2>4, <2>5, <2>6 DEF Inv, TypeOK
<1>6. CASE ~AnyRequest(b, "active") /\ ~(~AnyRequest(b, "hold") /\ b.running)
  <2>1. agps' = b
    BY <1>6 DEF Stop, StopPositioning
  <2> QED
    BY <1>2, <1>3, <2>1, DeactivateKeepsInv
<1> QED
  BY <1>4, <1>5, <1>6

LEMMA StartInv ==
    ASSUME Inv, NEW s \in Session, NEW m \in GpsMode,
           agps' = StartPositioning(agps, s, m)
    PROVE  Inv'
<1> DEFINE mode == Combined(agps.mode, m, s \in Emergency)
<1>1. agps \in AgpsState /\ agps.mode \in Mode
  BY DEF Inv, TypeOK, AgpsState, Mode
<1>2. CASE mode = {}
  <2>1. agps' = RemoveRequest(agps, s)
    BY <1>2 DEF StartPositioning
  <2>2. /\ agps' \in AgpsState
        /\ agps'.mode = agps.mode /\ agps'.running = agps.running
        /\ agps'.req = [agps.req EXCEPT ![s] = "none"]
        /\ agps'.method = [agps.method EXCEPT ![s] = {}]
    BY <1>1, <2>1, RemoveRequestRemoves
  <2>3. ASSUME NEW t \in Session, agps'.req[t] = "active"
        PROVE  agps.req[t] = "active" /\ agps'.method[t] = agps.method[t]
    BY <1>1, <2>2, <2>3 DEF AgpsState
  <2> QED
    BY <2>2, <2>3, DeactivateKeepsInv
<1>3. CASE mode # {} /\ ~MayAdd(agps, s)
  <2>1. agps' = agps
    BY <1>3 DEF StartPositioning
  <2> QED
    BY <1>1, <2>1, DeactivateKeepsInv
<1>4. CASE mode # {} /\ MayAdd(agps, s)
  <2>1. agps' = [agps EXCEPT !.req[s] = "active", !.method[s] = m,
                             !.mode = mode, !.running = TRUE]
    BY <1>4 DEF StartPositioning
  <2>2. mode \in GpsMode /\ Serves(mode, m)
    BY <1>1, <1>4, CombinedServes
  <2>3. /\ agps' \in AgpsState
        /\ agps'.mode = mode /\ agps'.running = TRUE
        /\ agps'.req = [agps.req EXCEPT ![s] = "active"]
        /\ agps'.method = [agps.method EXCEPT ![s] = m]
    <3>1. /\ agps' = [req |-> agps'.req, method |-> agps'.method,
                      mode |-> agps'.mode, running |-> agps'.running]
          /\ agps'.mode = mode /\ agps'.running = TRUE
          /\ agps'.req = [agps.req EXCEPT ![s] = "active"]
          /\ agps'.method = [agps.method EXCEPT ![s] = m]
      BY <1>1, <2>1 DEF AgpsState
    <3>2. agps'.req \in [Session -> RequestState]
      BY <1>1, <3>1 DEF AgpsState, RequestState
    <3>3. agps'.method \in [Session -> GpsMode \union {{}}]
      BY <1>1, <3>1 DEF AgpsState
    <3>4. agps'.mode \in GpsMode \union {{}}
      BY <2>2, <3>1
    <3> QED
      BY <3>1, <3>2, <3>3, <3>4 DEF AgpsState
  <2>4. RunningInvariant'
    BY <1>4, <2>3 DEF RunningInvariant
  <2>5. ASSUME NEW t \in Session, agps'.req[t] = "active", Emergency \subseteq {t}
        PROVE  Serves(agps'.mode, agps'.method[t])
    <3>1. CASE t = s
      <4>1. agps'.method[t] = m
        BY <1>1, <2>3, <3>1 DEF AgpsState
      <4> QED
        BY <2>2, <2>3, <4>1
    <3>2. CASE t # s
      <4>1. agps.req[t] = "active" /\ agps'.method[t] = agps.method[t]
        BY <1>1, <2>3, <2>5, <3>2 DEF AgpsState
      <4>2. Serves(agps.mode, agps.method[t])
        BY <2>5, <4>1 DEF Inv, ActiveIsServed
      <4>3. agps.method[t] \in GpsMode
        <5>1. agps.method[t] # {}
          BY <4>2 DEF Serves
        <5> QED
          BY <1>1, <5>1 DEF AgpsState
      <4>4. mode = Combined(agps.mode, m, FALSE)
        <5>1. s \notin Emergency
          BY <2>5, <3>2
        <5> QED
          BY <5>1 DEF Combined
      <4>5. Combined(agps.mode, m, FALSE) # {}
        BY <1>4, <4>4
      <4>6. Serves(Combined(agps.mode, m, FALSE), agps.method[t])
        BY <1>1, <4>2, <4>3, <4>5, CombinedKeeps
      <4> QED
        BY <2>3, <4>1, <4>4, <4>6
    <3> QED
      BY <3>1, <3>2
  <2>6. ActiveIsServed'
    BY <2>5 DEF ActiveIsServed
  <2>7. Able(mode)
    <3>1. Able(agps.mode)
      BY DEF Inv, DeviceAble, Able
    <3> QED
      BY <1>1, <1>4, <3>1, CombinedAble
  <2>8. DeviceAble'
    BY <2>3, <2>7 DEF DeviceAble, Able
  <2> QED
    BY <2>3, <2>4, <2>6, <2>8 DEF Inv, TypeOK
<1> QED
  BY <1>2, <1>3, <1>4

\* Every operation of the handler keeps the invariant.
LEMMA NextInv == Inv /\ [Next]_agps => Inv'
<1> SUFFICES ASSUME Inv, [Next]_agps PROVE Inv'
  OBVIOUS
<1>1. CASE UNCHANGED agps
  BY <1>1 DEF Inv, TypeOK, RunningInvariant, ActiveIsServed, DeviceAble
<1>2. ASSUME NEW s \in Session, PreStart(s) PROVE Inv'
  BY <1>2, PreStartInv
<1>3. ASSUME NEW s \in Session, Start(s) PROVE Inv'
  <2>1. PICK m \in GpsMode : agps' = StartPositioning(agps, s, m)
    BY <1>3 DEF Start
  <2> QED
    BY <2>1, StartInv
<1>4. ASSUME NEW s \in Session, Hold(s) PROVE Inv'
  BY <1>4, HoldInv
<1>5. ASSUME NEW s \in Session, Stop(s) PROVE Inv'
  BY <1>5, StopInv
<1> QED
  BY <1>1, <1>2, <1>3, <1>4, <1>5 DEF Next

\* The inductive invariant holds whatever sessions start, hold and stop.
THEOREM Invariant == Spec => []Inv
<1>1. Init => Inv
  BY InitInv
<1>2. Inv /\ [Next]_agps => Inv'
  BY NextInv
<1> QED
  BY <1>1, <1>2, PTL DEF Spec

-----------------------------------------------------------------------------
\* The combined mode is always one the AGPS manager knows.
THEOREM TypeCorrect == Spec => []TypeOK
<1>1. Inv => TypeOK
  BY DEF Inv
<1> QED
  BY <1>1, Invariant, PTL

\* Nobody waits for an AGPS manager that was cancelled, and it is cancelled
\* together with the mode (StopPositioning).
THEOREM RunsWhileNeeded == Spec => []RunningInvariant
<1>1. Inv => RunningInvariant
  BY DEF Inv
<1> QED
  BY <1>1, Invariant, PTL

\* However the requests of other sessions are combined, an emergency keeps
\* the mode it was given, and so does everyone when there is no emergency
\* (CalculateNewCombinedRequestMethod).
THEOREM ActiveStaysServed == Spec => []ActiveIsServed
<1>1. Inv => ActiveIsServed
  BY DEF Inv
<1> QED
  BY <1>1, Invariant, PTL

\* The list grows by one request at a time, and by one of a session that is no
\* emergency only below the limit.
LEMMA MayAddBounded ==
    ASSUME TypeOK, NEW s \in Session, MayAdd(agps, s), ListBounded,
           NEW R \in SUBSET Session, R \subseteq Requests(agps) \union {s}
    PROVE  Cardinality(R \ Emergency) <= MaxSessions + 1
<1> DEFINE Q == Requests(agps)
           Bound == MaxSessions + 1
<1>1. /\ IsFiniteSet(Q) /\ Cardinality(Q) \in Nat
      /\ IsFiniteSet(Q \ Emergency) /\ Cardinality(Q \ Emergency) \in Nat
      /\ IsFiniteSet(R \ Emergency) /\ Cardinality(R \ Emergency) \in Nat
      /\ MaxSessions \in Nat
  <2>1. \A S \in SUBSET Session : IsFiniteSet(S) /\ Cardinality(S) \in Nat
    BY AgpsAssumption, FS_Subset, FS_CardinalityType
  <2>2. Q \in SUBSET Session /\ Q \ Emergency \in SUBSET Session /\ R \ Emergency \in SUBSET Session
    BY DEF Requests
  <2> QED
    BY <2>1, <2>2, AgpsAssumption
<1>2. CASE agps.req[s] # "none" \/ s \in Emergency
  <2>1. R \ Emergency \subseteq Q \ Emergency
    BY <1>2 DEF Requests
  <2>2. Cardinality(R \ Emergency) <= Cardinality(Q \ Emergency)
    BY <1>1, <2>1, FS_Subset
  <2> QED
    BY <1>1, <2>2 DEF ListBounded
<1>3. CASE agps.req[s] = "none" /\ s \notin Emergency
  <2>1. Cardinality(Q) <= MaxSessions
    BY <1>3 DEF MayAdd
  <2>2. s \notin Q /\ IsFiniteSet(Q \union {s}) /\ Cardinality(Q \union {s}) = Cardinality(Q) + 1
    BY <1>1, <1>3, FS_AddElement DEF Requests
  <2>3. R \ Emergency \subseteq Q \union {s}
    OBVIOUS
  <2>4. Cardinality(R \ Emergency) <= Cardinality(Q \union {s})
    BY <2>2, <2>3, FS_Subset
  <2> QED
    BY <1>1, <2>1, <2>2, <2>4
<1> QED
  BY <1>2, <1>3

\* An operation that adds nobody to the list keeps it bounded.
LEMMA ShrinkBounded ==
    ASSUME ListBounded, NEW R \in SUBSET Session, R \subseteq Requests(agps)
    PROVE  Cardinality(R \ Emergency) <= MaxSessions + 1
<1>1. /\ IsFiniteSet(Requests(agps) \ Emergency)
      /\ R \ Emergency \subseteq Requests(agps) \ Emergency
  <2>1. Requests(agps) \ Emergency \in SUBSET Session
    BY DEF Requests
  <2> QED
    BY <2>1, AgpsAssumption, FS_Subset
<1>2. /\ Cardinality(R \ Emergency) <= Cardinality(Requests(agps) \ Emergency)
      /\ Cardinality(Requests(agps) \ Emergency) \in Nat
      /\ Cardinality(R \ Emergency) \in Nat
  BY <1>1, FS_Subset, FS_CardinalityType
<1> QED
  BY <1>2, AgpsAssumption DEF ListBounded

LEMMA ListBoundedStep == TypeOK /\ ListBounded /\ [Next]_agps => ListBounded'
<1> SUFFICES ASSUME TypeOK, ListBounded, [Next]_agps PROVE ListBounded'
  OBVIOUS
<1>0. agps \in AgpsState
  BY DEF TypeOK
<1>a. Requests(agps') \in SUBSET Session
  BY DEF Requests
<1>1. ASSUME Requests(agps') \subseteq Requests(agps) PROVE ListBounded'
  BY <1>1, <1>a, ShrinkBounded DEF ListBounded
<1>2. ASSUME NEW s \in Session, MayAdd(agps, s), Requests(agps') \subseteq Requests(agps) \union {s}
      PROVE  ListBounded'
  BY <1>2, <1>a, MayAddBounded DEF ListBounded
<1>3. CASE UNCHANGED agps
  BY <1>1, <1>3
<1>4. ASSUME NEW s \in Session, PreStart(s) PROVE ListBounded'
  <2>1. CASE MayAdd(agps, s)
    <3>1. agps' = [agps EXCEPT !.req[s] = "idle", !.method[s] = {}]
      BY <1>4, <2>1 DEF PreStart, PreStartPositioning
    <3>2. Requests(agps') \subseteq Requests(agps) \union {s}
      BY <1>0, <3>1 DEF Requests, AgpsState
    <3> QED
      BY <1>2, <2>1, <3>2
  <2>2. CASE ~MayAdd(agps, s)
    BY <1>1, <1>4, <2>2 DEF PreStart, PreStartPositioning
  <2> QED
    BY <2>1, <2>2
<1>5. ASSUME NEW s \in Session, Start(s) PROVE ListBounded'
  <2>1. PICK m \in GpsMode : agps' = StartPositioning(agps, s, m)
    BY <1>5 DEF Start
  <2> DEFINE mode == Combined(agps.mode, m, s \in Emergency)
  <2>2. CASE mode = {}
    <3>1. agps' = RemoveRequest(agps, s)
      BY <2>1, <2>2 DEF StartPositioning
    <3>2. agps'.req = [agps.req EXCEPT ![s] = "none"]
      BY <1>0, <3>1, RemoveRequestRemoves
    <3>3. Requests(agps') \subseteq Requests(agps)
      BY <1>0, <3>2 DEF Requests, AgpsState
    <3> QED
      BY <1>1, <3>3
  <2>3. CASE mode # {} /\ ~MayAdd(agps, s)
    <3>1. agps' = agps
      BY <2>1, <2>3 DEF StartPositioning
    <3> QED
      BY <1>1, <3>1
  <2>4. CASE mode # {} /\ MayAdd(agps, s)
    <3>1. agps' = [agps EXCEPT !.req[s] = "active", !.method[s] = m,
                               !.mode = mode, !.running = TRUE]
      BY <2>1, <2>4 DEF StartPositioning
    <3>2. agps'.req = [agps.req EXCEPT ![s] = "active"]
      BY <1>0, <3>1 DEF AgpsState
    <3>3. Requests(agps') \subseteq Requests(agps) \union {s}
      BY <1>0, <3>2 DEF Requests, AgpsState
    <3> QED
      BY <1>2, <2>4, <3>3
  <2> QED
    BY <2>2, <2>3, <2>4
<1>6. ASSUME NEW s \in Session, Hold(s) PROVE ListBounded'
  <2>1. agps' = [agps EXCEPT !.req = [t \in Session |->
                   IF t \in {s} /\ agps.req[t] # "none" THEN "hold" ELSE agps.req[t]]]
    BY <1>6 DEF Hold, HoldPositioning
  <2>2. Requests(agps') \subseteq Requests(agps)
    BY <1>0, <2>1 DEF Requests, AgpsState
  <2> QED
    BY <1>1, <2>2
<1>7. ASSUME NEW s \in Session, Stop(s) PROVE ListBounded'
  <2> DEFINE b == RemoveRequest(agps, s)
  <2>1. b \in AgpsState /\ b.req = [agps.req EXCEPT ![s] = "none"]
    BY <1>0, RemoveRequestRemoves
  <2>2. \/ agps' = [b EXCEPT !.running = TRUE]
        \/ agps' = [b EXCEPT !.running = FALSE, !.mode = {}]
        \/ agps' = b
    BY <1>7 DEF Stop, StopPositioning
  <2>3. agps'.req = b.req
    BY <2>1, <2>2 DEF AgpsState
  <2>4. Requests(agps') \subseteq Requests(agps)
    BY <1>0, <2>1, <2>3 DEF Requests, AgpsState
  <2> QED
    BY <1>1, <2>4
<1> QED
  BY <1>3, <1>4, <1>5, <1>6, <1>7 DEF Next

\* Sessions that are no emergency take at most one slot more than the limit,
\* whatever order they come and go in (AddOrUpdateRequest).
THEOREM ListStaysBounded == Spec => []ListBounded
<1>1. Init => ListBounded
  <2> SUFFICES ASSUME Init PROVE ListBounded
    OBVIOUS
  <2>1. Requests(agps) \ Emergency = {}
    BY DEF Init, NoRequests, Requests
  <2> QED
    BY <2>1, FS_EmptySet, AgpsAssumption DEF ListBounded
<1>2. TypeOK /\ ListBounded /\ [Next]_agps => ListBounded'
  BY ListBoundedStep
<1> QED
  BY <1>1, <1>2, TypeCorrect, PTL DEF Spec

\* No combination asks the device for more than its capabilities.
THEOREM NeverBeyondDevice == Spec => []DeviceAble
<1>1. Inv => DeviceAble
  BY DEF Inv
<1> QED
  BY <1>1, Invariant, PTL
=============================================================================
