--------------------------- MODULE ProtocolModule ---------------------------
(***************************************************************************)
(* The test protocol module: CProtocolManager, which lets one procedure    *)
(* run at a time, and its four state machines.  LBS is on one side (the    *)
(* sessions of the gateway), the network simulator on the other.           *)
(*                                                                         *)
(* The module is one thread: an action is one call or one event with all   *)
(* it leads to, from world to world; between the two runs of a machine     *)
(* that make a transition anything may be called.                          *)
(*                                                                         *)
(* Left out: positions, qualities, reasons, the assistance data themselves *)
(* (what is kept is whether some are missing and a request is on its way), *)
(* what the network is told when it gets no position, the service mask,    *)
(* sends that fail.                                                        *)
(***************************************************************************)
EXTENDS ProtocolMachines, Sequences

CONSTANTS
    Session,      \* sessions LBS opens
    Kind,         \* the machine that serves each
    Priority,     \* the priority of the X3P ones
    Internal,     \* the session ids the module makes, in order
    Emergencies,  \* whether the network's requests may be emergencies
    Budgets       \* what may come in a behaviour, one of these (bound)

InternalSession == {Internal[i] : i \in DOMAIN Internal}
AllSessions == Session \union InternalSession

\* Bounds: the requests of the network, its measurement controls, its errors
\* and cancels, tracking on or off, requests for assistance data and controls
\* that find some missing.
Budget ==
    [mtlr : Nat, measurement : Nat, trouble : Nat, tracking : Nat, data : Nat,
     sessions : SUBSET Session]

\* The ids the module makes are its own: a counter, under its own uid.
ASSUME ProtocolModuleAssumption ==
    /\ Kind \in [Session -> Originated]
    /\ Priority \in [Session -> {"low", "medium", "high", "none"}]
    /\ Internal \in Seq(InternalSession)
    /\ \A i, j \in DOMAIN Internal : Internal[i] = Internal[j] => i = j
    /\ Session \intersect InternalSession = {}
    /\ NoSession \notin AllSessions
    /\ Emergencies \subseteq BOOLEAN
    /\ Budgets \subseteq Budget
    /\ \A b \in Budgets : b.mtlr + b.measurement <= Len(Internal)

VARIABLES
    mach,       \* the four machines
    op,         \* iCurrentOp
    tracking,   \* iLbsStatus: a client is tracking
    missing,    \* iMissingDataMask is not empty
    expecting,  \* iExpectingResponse
    used,       \* number of iInternalSessionId
    fac,        \* the network has a position of an MO-LR to give a result for
    lbs,        \* what LBS knows of its sessions
    locAsked,   \* location requests LBS has not answered
    privAsked,  \* privacy requests LBS has not answered
    located,    \* sessions LBS gave a position for
    answer,     \* what LBS answered the privacy requests
    induced,    \* sessions the network induced
    leftover,   \* a procedure has ended with entries in the machine's queue
    sent,       \* answers and positions the last step sent to the network
    budget

vars == <<mach, op, tracking, missing, expecting, used, fac, lbs, locAsked,
          privAsked, located, answer, induced, leftover, sent, budget>>

World ==
    [mach |-> mach, op |-> op, tracking |-> tracking, missing |-> missing,
     expecting |-> expecting, used |-> used, fac |-> fac, lbs |-> lbs,
     locAsked |-> locAsked, privAsked |-> privAsked, induced |-> induced,
     leftover |-> leftover, sent |-> {}]

Become(next) ==
    \E w \in {next} :
        /\ mach' = w.mach /\ op' = w.op /\ tracking' = w.tracking
        /\ missing' = w.missing /\ expecting' = w.expecting /\ used' = w.used
        /\ fac' = w.fac /\ lbs' = w.lbs /\ locAsked' = w.locAsked
        /\ privAsked' = w.privAsked /\ induced' = w.induced
        /\ leftover' = w.leftover /\ sent' = w.sent

NoOp == [kind |-> "none", prio |-> "none"]

Init ==
    /\ mach = [k \in Machine |-> NewMachine]
    /\ op = NoOp
    /\ tracking = FALSE /\ missing = FALSE /\ expecting = FALSE
    /\ used = 0 /\ fac = FALSE
    /\ lbs = [s \in Session |-> "new"]
    /\ locAsked = {} /\ privAsked = {} /\ located = {} /\ induced = {}
    /\ answer = [s \in InternalSession |-> "unknown"]
    /\ leftover = FALSE /\ sent = {}
    /\ budget \in Budgets

-----------------------------------------------------------------------------
\* Messages.

Tell(w, s, what) == [w EXCEPT !.sent = @ \union {<<s, what>>}]

SessionCompleteInd(w, s) ==
    IF s \in Session
    THEN [w EXCEPT !.lbs[s] = "completed"] ELSE w

MtLrResp(w, m) ==
    IF m.answer = "accepted" THEN Tell(w, m.session, "accepted") ELSE w

-----------------------------------------------------------------------------
\* Which machine is meant: they are looked at in this order.

Rank == [mtlr |-> 0, molr |-> 1, x3p |-> 2, netloc |-> 3]

First(K) == IF K = {} THEN "none"
            ELSE CHOOSE k \in K : \A j \in K : Rank[k] <= Rank[j]

InState(w, p) == First({k \in Machine : w.mach[k].proto = p})
Active(w) == InState(w, "active")
Queued(w) == First({k \in Machine : w.mach[k].queued})

\* DoAssistanceDataActions: what is missing is asked for, once.
DoAssistanceDataActions(w) ==
    IF ~w.missing \/ w.expecting THEN w
    ELSE LET a == Active(w)
             n == [w EXCEPT !.missing = FALSE, !.expecting = TRUE]
         IN  IF a = "none" THEN n ELSE [n EXCEPT !.mach[a].timers = @ \union {"assist"}]

\* The requests that start a procedure.
StartMtLr(w) ==
    LET s == Internal[w.used + 1]
        m == Initialise(MtLr, w.mach[MtLr], s)
    IN  [w EXCEPT !.used = @ + 1,
                  !.mach[MtLr] = Perform([m EXCEPT !.timers = @ \union {"request"}])]

StartOriginated(w, k, s) ==
    LET n == [w EXCEPT !.mach[k] = Initialise(k, @, s)]
        d == IF k = "molr" THEN DoAssistanceDataActions(n) ELSE n
    IN  [d EXCEPT !.mach[k] = Perform(@)]

Start(w, k, s) == IF k = MtLr THEN StartMtLr(w) ELSE StartOriginated(w, k, s)

\* Mutant: what was queued is forgotten.
ProcedureCompleteIndForgets(w) == [w EXCEPT !.op = NoOp]

\* Mutant: the manager still takes the old procedure for the current one.
ProcedureCompleteIndKeepsOp(w) ==
    LET q == Queued(w) IN
    IF q = "none" THEN [w EXCEPT !.op = NoOp] ELSE Start(w, q, w.mach[q].next)

\* ProcedureCompleteInd: the priority of the queued request is not known.
ProcedureCompleteInd(w) ==
    LET q == Queued(w) IN
    IF q = "none" THEN [w EXCEPT !.op = NoOp]
    ELSE Start([w EXCEPT !.op = [kind |-> q, prio |-> "none"]], q, w.mach[q].next)

-----------------------------------------------------------------------------
\* Conflicts.

\* Row and column of the decision table.
Index(o) ==
    CASE o.kind \in {"molr", "netloc"} -> "molr"
      [] o.kind \in {"mtlr", "nilr"} ->
            IF o.prio = "emergency" THEN "emergency" ELSE "mtlr"
      [] o.kind = "x3p" -> o.prio
      [] OTHER -> "none"

Decision ==
    LET Row(a, b, c, d, e, f) ==
            [molr |-> a, mtlr |-> b, emergency |-> c, low |-> d, medium |-> e,
             high |-> f]
        R == "reject"   Q == "queueNew"   C == "cancel"   S == "queueCurrent"
    IN  [molr      |-> Row(C, R, C, Q, R, C),
         mtlr      |-> Row(Q, R, C, Q, R, C),
         emergency |-> Row(R, R, R, R, R, R),
         low       |-> Row(R, R, C, Q, R, S),
         medium    |-> Row(R, R, C, Q, R, C),
         high      |-> Row(R, R, C, Q, R, R)]

ConflictDecision(current, new) ==
    IF "none" \in {Index(current), Index(new)} THEN "reject"
    ELSE Decision[Index(current)][Index(new)]

\* The world after the conflict is resolved, and what becomes of the new one.
Resolved(w, result) == [world |-> w, result |-> result]

\* The current procedure gives way.
GivesWay(w, a, new, result) ==
    LET source == CASE result = "queueCurrent" -> "silent"
                    [] new.kind \in {"mtlr", "nilr"} -> "network"
                    [] OTHER -> "client"
    IN  IF result \in {"cancel", "queueCurrent"}
        THEN [w EXCEPT !.mach[a] = CancelMachine(@, source)] ELSE w

\* A tracking client counts as an MO-LR between two of them.
ResolveTracking(w, a, new) ==
    LET result == ConflictDecision([kind |-> "molr", prio |-> "none"], new)
        off == [w EXCEPT !.tracking = FALSE]
        s == w.mach["molr"].session
    IN  CASE result \notin {"cancel", "queueCurrent"} -> Resolved(w, result)
          [] result \in {"cancel", "queueCurrent"} /\ a # "none" ->
                Resolved(GivesWay(off, a, new, result), result)
          [] OTHER -> Resolved(IF s = NoSession THEN off ELSE SessionCompleteInd(off, s),
                               "none")

ResolveConflict(w, new) ==
    LET a == Active(w) IN
    CASE a = MtLr /\ w.mach[MtLr].at = "closeWait" ->
            Resolved([w EXCEPT !.mach[MtLr] = CancelMachine(@, "none")], "cancel")
      [] ~(a = MtLr /\ w.mach[MtLr].at = "closeWait") /\ InState(w, "cancelling") # "none" ->
            Resolved(w, "queueNew")
      [] OTHER ->
            IF w.tracking /\ new.kind # "molr" /\ a \in {"none", "molr"}
            THEN ResolveTracking(w, a, new)
            ELSE IF a = "none" THEN Resolved(w, "none")
            ELSE LET result == ConflictDecision(w.op, new)
                 IN  Resolved(GivesWay(w, a, new, result), result)

-----------------------------------------------------------------------------
\* Requests.

\* A request is started, refused, or waits on its machine, in the place of
\* one that may have waited there.
Served(w, new, k, s) ==
    LET r == ResolveConflict(w, new) IN
    CASE r.result = "none" -> [Start(r.world, k, s) EXCEPT !.op = new]
      [] r.result = "reject" ->
            IF k = MtLr THEN r.world ELSE SessionCompleteInd(r.world, s)
      [] OTHER -> [r.world EXCEPT !.mach[k].queued = TRUE, !.mach[k].next = s]

Opens(s) ==
    /\ lbs[s] = "new" /\ s \in budget.sessions
    /\ \A t \in Session : lbs[t] = "open" /\ Kind[t] = Kind[s] =>
          Kind[s] = "x3p" /\ <<Priority[t], Priority[s]>> \in
              {<<"low", "medium">>, <<"low", "high">>, <<"medium", "high">>}

Opened(s) == [World EXCEPT !.lbs[s] = "open"]

\* ProcessDataRequest adds to the missing data what is new in the request and
\* takes from it what is not in the request.  A request for unknown data only
\* adds none, and is reported at once.
DataRequest(w, lacks, invalid) ==
    LET n == [w EXCEPT !.missing = lacks]
    IN  IF invalid THEN DoAssistanceDataActions(n) ELSE n
MayLack(lacks, invalid) == invalid /\ lacks => missing
SpendsData(asks) ==
    /\ asks => budget.data > 0
    /\ budget' = [budget EXCEPT !.data = IF asks THEN @ - 1 ELSE @]

\* A request the module can answer without the network ends at once.
SelfLocationReq(s, lacks, invalid, atOnce) ==
    LET new == [kind |-> "molr", prio |-> "none"]
        w == DataRequest(Opened(s), lacks, invalid)
    IN  /\ Kind[s] = "molr" /\ Opens(s)
        /\ MayLack(lacks, invalid) /\ SpendsData(invalid \/ lacks # missing)
        /\ Become(IF atOnce /\ ResolveConflict(w, new).result = "none"
                  THEN SessionCompleteInd(ResolveConflict(w, new).world, s)
                  ELSE Served(w, new, "molr", s))
        /\ UNCHANGED <<located, answer>>

NetworkBasedLocationReq(s) ==
    /\ Kind[s] = "netloc" /\ Opens(s)
    /\ Become(Served(Opened(s), [kind |-> "netloc", prio |-> "none"], "netloc", s))
    /\ UNCHANGED <<located, answer, budget>>

TransmitLocationReq(s) ==
    /\ Kind[s] = "x3p" /\ Opens(s)
    /\ Become(Served(Opened(s), [kind |-> "x3p", prio |-> Priority[s]], "x3p", s))
    /\ UNCHANGED <<located, answer, budget>>

\* SelfLocationCompleteInd, NetworkBasedLocationCompleteInd and
\* TransmitLocationCompleteInd: heard only by the machine that is active.
CompleteInd(s) ==
    LET w == [World EXCEPT !.lbs[s] = "cancelled"]
        m == mach[Kind[s]]
    IN  /\ lbs[s] = "open"
        /\ Become(IF m.proto = "active" /\ m.session = s
                  THEN [w EXCEPT !.mach[Kind[s]] = CancelMachine(@, "client")] ELSE w)
        /\ UNCHANGED <<located, answer, budget>>

SystemStatusInd(on) ==
    /\ budget.tracking > 0 /\ tracking # on
    /\ Become([World EXCEPT !.tracking = on])
    /\ budget' = [budget EXCEPT !.tracking = @ - 1]
    /\ UNCHANGED <<located, answer>>

\* The active machine is woken whatever the request adds.
AssistanceDataRequested(lacks, invalid) ==
    LET w == DataRequest(World, lacks, invalid)
        a == Active(w)
    IN  /\ MayLack(lacks, invalid) /\ SpendsData(TRUE)
        /\ Become(CASE invalid -> w
                    [] ~invalid /\ a = "none" -> DoAssistanceDataActions(w)
                    [] OTHER -> [w EXCEPT !.mach[a] = AssistanceDataReq(@)])
        /\ UNCHANGED <<located, answer>>

\* LBS answers a location request, with a position if it may.
LocationAnswered(s, reason) ==
    LET a == IF Active(World) = "none" /\ Cancelling(mach[MtLr]) THEN MtLr
             ELSE Active(World)
        w == [World EXCEPT !.locAsked = @ \ {s}]
    IN  /\ s \in locAsked /\ s \notin privAsked
        /\ reason \in IF s \in InternalSession /\ answer[s] = "rejected"
                      THEN {"denied"} ELSE {"ok", "error"}
        /\ located' = IF reason = "ok" THEN located \union {s} ELSE located
        /\ Become(IF a # "none" /\ mach[a].session = s
                  THEN [w EXCEPT !.mach[a] = LocationResp(@, reason)] ELSE w)
        /\ UNCHANGED <<answer, budget>>

PrivacyAnswered(s, a) ==
    LET w == [World EXCEPT !.privAsked = @ \ {s}]
        m == mach[MtLr]
    IN  /\ s \in privAsked
        /\ answer' = [answer EXCEPT ![s] = a]
        /\ Become(IF m.proto = "active" /\ m.session = s
                  THEN [w EXCEPT !.mach[MtLr] = PrivacyResp(@, a)] ELSE w)
        /\ UNCHANGED <<located, budget>>

-----------------------------------------------------------------------------
\* The network.

Of(emergency) == IF emergency THEN "emergency" ELSE "none"

MtLrReq(emergency) ==
    /\ budget.mtlr > 0
    /\ Become(Served(World, [kind |-> MtLr, prio |-> Of(emergency)], MtLr, NoSession))
    /\ budget' = [budget EXCEPT !.mtlr = @ - 1]
    /\ UNCHANGED <<located, answer>>

MtLrCancelInd ==
    /\ budget.trouble > 0 /\ mach[MtLr].proto = "active"
    /\ Become([World EXCEPT !.mach[MtLr] = CancelMachine(@, "network")])
    /\ budget' = [budget EXCEPT !.trouble = @ - 1]
    /\ UNCHANGED <<located, answer>>

\* A measurement control nobody asked for: the network induces a procedure.
Induced(w, emergency) ==
    LET new == [kind |-> "nilr", prio |-> Of(emergency)]
        r == ResolveConflict(w, new)
        s == Internal[w.used + 1]
        m == [Initialise(MtLr, r.world.mach[MtLr], s) EXCEPT
                 !.recvd = TRUE, !.handled = TRUE, !.first = TRUE,
                 !.answer = "accepted", !.at = "privRecvd"]
    IN  IF r.result # "none" THEN r.world
        ELSE [r.world EXCEPT !.used = @ + 1, !.op = new, !.induced = @ \union {s},
                             !.mach[MtLr] = MeasurementControlInd(MtLr, m)]

MeasurementControl(emergency, finds) ==
    LET w == [World EXCEPT !.expecting = FALSE, !.missing = @ \/ finds]
        a == Active(w)
        c == InState(w, "cancelling")
    IN  /\ budget.measurement > 0
        /\ finds => budget.data > 0
        /\ Become(CASE a # "none" /\ ~mach[a].locReq ->
                          [w EXCEPT !.mach[a] = MeasurementControlInd(a, @)]
                    [] a # "none" /\ mach[a].locReq ->
                          [w EXCEPT !.mach[a] = AdditionalAssistDataInd(@)]
                    [] a = "none" /\ c # "none" ->
                          [w EXCEPT !.mach[c] = MeasurementControlInd(c, @)]
                    [] OTHER -> Induced(w, emergency))
        /\ budget' = [budget EXCEPT !.measurement = @ - 1,
                                    !.data = IF finds THEN @ - 1 ELSE @]
        /\ UNCHANGED <<located, answer>>

MeasurementControlError(cancelled) ==
    LET a == Active(World) IN
    /\ budget.trouble > 0 /\ a # "none"
    /\ Become([World EXCEPT !.mach[a] = MeasurementControlErrorInd(a, @, cancelled)])
    /\ budget' = [budget EXCEPT !.trouble = @ - 1]
    /\ UNCHANGED <<located, answer>>

NetworkError ==
    LET a == Active(World)
        w == [World EXCEPT !.fac = FALSE]
    IN  /\ budget.trouble > 0
        /\ Become(IF a = "none" THEN w ELSE [w EXCEPT !.mach[a] = NetworkErrorInd(a, @)])
        /\ budget' = [budget EXCEPT !.trouble = @ - 1]
        /\ UNCHANGED <<located, answer>>

\* The network's result of an MO-LR it was given a position for.
NetworkResult(position) ==
    LET a == Active(World)
        w == [World EXCEPT !.fac = FALSE]
    IN  /\ fac
        /\ Become(IF a \in {"molr", "x3p"}
                  THEN [w EXCEPT !.mach[a] = SessionResult(@, position)] ELSE w)
        /\ UNCHANGED <<located, answer, budget>>

ResetAssistanceData ==
    /\ missing \/ expecting
    /\ Become([World EXCEPT !.missing = FALSE, !.expecting = FALSE])
    /\ UNCHANGED <<located, answer, budget>>

-----------------------------------------------------------------------------
\* The timers.

\* The manager's MeasurementControlTimeout goes to the active machine, which
\* need not be the one whose timer it was.
MeasurementTimeout(w) ==
    LET a == Active(w) IN
    IF a = "none" THEN w ELSE [w EXCEPT !.mach[a] = MeasurementControlTimeout(a, @)]

\* OnTimerEventL of machine k.
Timeout(k, t) ==
    LET w == [World EXCEPT !.mach[k].timers = @ \ {t}]
        With(m) == [w EXCEPT !.mach[k] = m]
        m == w.mach[k]
        late == [m EXCEPT !.reason = "timeout"]
    IN  /\ t \in mach[k].timers
        /\ Become(
             CASE t = "request" /\ k = MtLr ->
                    With(CancelMachine([m EXCEPT !.answer = "unknown"], "clientTimeout"))
               [] t = "measure" \/ (t = "request" /\ k # MtLr) -> MeasurementTimeout(w)
               [] t = "assist" ->
                    MeasurementTimeout(With([IF k = MtLr THEN m ELSE late EXCEPT
                                                !.assist = @ \/ k # "molr"]))
               [] t = "result" -> With(CancelMachine(m, "netTimeout"))
               [] t = "location" -> With(CancelMachine(late, "clientTimeout")))
        /\ UNCHANGED <<located, answer, budget>>

-----------------------------------------------------------------------------
\* RunL.

\* ExitActions of the four state handlers, and the second half of the
\* transition to come.
ExitState(w, k) ==
    LET m == w.mach[k]
        n == IF m.at = "netClose" /\ k # MtLr /\ ~IsNetworkConnectionError(m)
             THEN [w EXCEPT !.fac = FALSE] ELSE w
        d == IF m.at = "clientClose" /\ ~(k = "x3p" /\ m.source = "silent")
             THEN SessionCompleteInd(n, m.session) ELSE n
        still == CASE m.at = "null" -> FALSE
                   [] m.at = "cancelling" -> TRUE
                   [] OTHER -> m.still
    IN  [d EXCEPT !.mach[k].still = still /\ k = "x3p",
                  !.mach[k].stage = "enter", !.mach[k].run = TRUE]

\* Mutant: LBS may take as long as it likes.
AskLocationUntimed(w, k) == [w EXCEPT !.locAsked = @ \union {w.mach[k].session}]

\* ProcessLocationReq, with the timer of the answer.
AskLocation(w, k) ==
    [w EXCEPT !.locAsked = @ \union {w.mach[k].session},
              !.mach[k].timers = @ \union {"location"}]

\* Mutant: a network based location waits for a result, too.
SendPositionTimed(w, k) ==
    [Tell(w, w.mach[k].session, "position") EXCEPT
        !.fac = TRUE, !.mach[k].timers = @ \union {"result"}]

\* A position goes to the network, which has a result of it for the client.
SendPosition(w, k) ==
    LET p == Tell(w, w.mach[k].session, "position") IN
    IF k \in {MtLr, "netloc"} THEN p
    ELSE [p EXCEPT !.fac = TRUE, !.mach[k].timers = @ \union {"result"}]

\* EntryActions of the machines that ask the network.
EnterOriginated(w, k) ==
    LET m == w.mach[k] IN
    CASE m.at = "netStarted" -> [w EXCEPT !.mach[k].timers = @ \union {"request"}]
      [] m.at = "locReq" -> AskLocation(w, k)
      [] m.at = "locSent" /\ LocRespReason(m) = "ok" -> SendPosition(w, k)
      [] OTHER -> w

\* EntryActions of the machine that serves the network.
EnterMtLr(w) ==
    LET m == w.mach[MtLr] IN
    CASE m.at = "privStarted" -> [w EXCEPT !.privAsked = @ \union {m.session}]
      [] m.at \in {"privRecvd", "privAfter"} -> MtLrResp(w, m)
      [] m.at = "locReq" -> AskLocation(w, MtLr)
      [] m.at = "locSent" /\ LocRespReason(m) = "ok" -> SendPosition(w, MtLr)
      [] m.at \in {"closeWait", "closeAfter", "closeWaitLoc"} ->
            SessionCompleteInd(w, m.session)
      [] m.at = "cancelling" /\ ~m.handled -> MtLrResp(w, m)
      [] OTHER -> w

AssistActions(w, k) ==
    IF w.mach[k].assist
    THEN DoAssistanceDataActions([w EXCEPT !.mach[k].assist = FALSE]) ELSE w

\* CheckForQueuedRequest, with DoQueuedRequest: X3P drops the request if it
\* has been cancelled.
CheckQueue(w, k) ==
    LET m == w.mach[k] IN
    IF m.run \/ m.pending = 0 THEN w
    ELSE LET n == [m EXCEPT !.pending = @ - 1] IN
         [w EXCEPT !.mach[k] = IF k = "x3p" /\ m.still THEN n ELSE Perform(n)]

EnterState(w, k) ==
    LET m == Transition(k, [w.mach[k] EXCEPT !.stage = "null"])
        n == [w EXCEPT !.mach[k] = m]
        done == m.proto = "ready"
        c == IF done THEN [ProcedureCompleteInd(n) EXCEPT
                              !.leftover = @ \/ m.pending > 0] ELSE n
        e == IF k = MtLr THEN EnterMtLr(c) ELSE EnterOriginated(c, k)
        a == AssistActions(e, k)
        p == IF Transitory(k, a.mach[k]) THEN [a EXCEPT !.mach[k] = Perform(@)] ELSE a
    IN  CheckQueue(p, k)

\* An idle machine that was only woken for assistance data looks neither at
\* its queue nor at a cancel.
Run(k) ==
    LET w == [World EXCEPT !.mach[k].run = FALSE] IN
    /\ mach[k].run
    /\ Become(CASE mach[k].stage = "exit" -> ExitState(w, k)
                [] mach[k].stage = "enter" -> EnterState(w, k)
                [] mach[k].stage = "null" -> AssistActions(w, k))
    /\ UNCHANGED <<located, answer, budget>>

-----------------------------------------------------------------------------
\* A procedure that ends with entries in its queue is followed by one nobody
\* asked for (see the README): behaviours are followed up to there.
Next ==
    /\ ~leftover
    /\ \/ \E s \in Session :
            \/ \E lacks, invalid, atOnce \in BOOLEAN : SelfLocationReq(s, lacks, invalid, atOnce)
            \/ NetworkBasedLocationReq(s)
            \/ TransmitLocationReq(s)
            \/ CompleteInd(s)
       \/ \E on \in BOOLEAN : SystemStatusInd(on)
       \/ \E lacks, invalid \in BOOLEAN : AssistanceDataRequested(lacks, invalid)
       \/ \E s \in AllSessions, reason \in {"ok", "denied", "error"} :
            LocationAnswered(s, reason)
       \/ \E s \in InternalSession, a \in {"accepted", "rejected"} : PrivacyAnswered(s, a)
       \/ \E emergency \in Emergencies :
            \/ MtLrReq(emergency)
            \/ \E finds \in BOOLEAN : MeasurementControl(emergency, finds)
       \/ MtLrCancelInd
       \/ \E cancelled \in BOOLEAN : MeasurementControlError(cancelled)
       \/ NetworkError
       \/ \E position \in BOOLEAN : NetworkResult(position)
       \/ ResetAssistanceData
       \/ \E k \in Machine : Run(k) \/ \E t \in TimerOf(k) : Timeout(k, t)

Spec == Init /\ [][Next]_vars

\* The scheduler runs an active machine, the timers fire, and LBS answers
\* privacy requests, as PrivLoc shows of it (PrivacyIsDecided): weak fairness
\* of each, with what enables the action in place of ENABLED.
Fairness ==
    /\ []<>(leftover \/ \A k \in Machine : ~mach[k].run)
         \/ []<><<\E k \in Machine : Run(k)>>_vars
    /\ []<>(leftover \/ \A k \in Machine : mach[k].timers = {})
         \/ []<><<\E k \in Machine : \E t \in TimerOf(k) : Timeout(k, t)>>_vars
    /\ []<>(leftover \/ privAsked = {})
         \/ []<><<\E s \in InternalSession, a \in {"accepted", "rejected"} :
                      PrivacyAnswered(s, a)>>_vars

FairSpec == Spec /\ Fairness

-----------------------------------------------------------------------------
\* Properties.

\* Shape of the state.
TypeOK ==
    /\ \A k \in Machine : mach[k] \in MachineState(k, AllSessions)
    /\ op \in [kind : Machine \union {"nilr", "none"},
               prio : {"none", "low", "medium", "high", "emergency"}]
    /\ {tracking, missing, expecting, fac, leftover} \subseteq BOOLEAN
    /\ used \in 0..Len(Internal)
    /\ lbs \in [Session -> {"new", "open", "cancelled", "completed"}]
    /\ answer \in [InternalSession -> Answer]
    /\ located \subseteq AllSessions /\ induced \subseteq InternalSession
    /\ locAsked \subseteq AllSessions /\ privAsked \subseteq InternalSession
    /\ \A m \in sent : m \in AllSessions \X {"position", "accepted"}
    /\ budget \in Budget

Idle == \A k \in Machine : mach[k].proto = "ready"

\* One procedure runs at a time and the manager knows which: what conflicts
\* are resolved against is what runs (iCurrentOp against the states of the
\* machines, which different calls write).
OneProcedure ==
    /\ \A j, k \in Machine : mach[j].proto # "ready" /\ mach[k].proto # "ready" => j = k
    /\ \A k \in Machine : mach[k].proto # "ready" =>
          op.kind \in {k} \union IF k = MtLr THEN {"nilr"} ELSE {}
    /\ Idle => op = NoOp

\* A higher X3P takes the machine from a lower one: LBS repeats the lower.
TakenOver(s) ==
    \E t \in Session \ {s} :
        Kind[s] = "x3p" /\ Kind[t] = "x3p" /\ lbs[t] # "new" /\ Priority[s] # "high"

\* No session LBS waits for is forgotten: it runs or is queued, and what is
\* queued waits for something that runs (except an X3P, which a tracking
\* client holds back even when nothing does).
SessionHeld ==
    /\ \A s \in Session : lbs[s] = "open" =>
          \/ \E k \in Machine : mach[k].proto # "ready" /\ mach[k].session = s
          \/ mach[Kind[s]].queued /\ mach[Kind[s]].next = s
          \/ TakenOver(s)
    /\ \A k \in Machine \ {"x3p"} : mach[k].queued => ~Idle

\* A cancelled request is answered with the answer that is stored: if none has
\* come yet, that of a request before it.
StaleAnswer ==
    /\ Cancelling(mach[MtLr])
    /\ induced # {} \/ \E s \in InternalSession : answer[s] = "accepted"

\* The network is told that a request is accepted only if LBS accepted it, and
\* gets a position only for a session LBS gave one for: no order of privacy
\* answer, measurement control and location response makes a machine take one
\* for the other (they all only move it on).
Consent ==
    \A s \in AllSessions :
        /\ <<s, "accepted">> \in sent => answer[s] = "accepted" \/ StaleAnswer
        /\ <<s, "position">> \in sent => s \in located

\* A machine nothing will move: it sleeps on a cancel or on its queue, waits
\* for a result of an MO-LR the network got no position for, or for a
\* response of LBS without a timer.
Stalled ==
    \E k \in Machine :
        LET m == mach[k] IN
        \/ ~m.run /\ (m.cancel \/ m.pending > 0)
        \/ k = "molr" /\ m.at = "locSent" /\ m.reason # "ok"
        \/ m.at = "closeWaitLoc"

\* Whatever is lost, timers end every procedure, unless a machine stalls in one
\* of the three ways above or a procedure ends with entries in its queue.
ProcedureEnds == []<>(Idle \/ Stalled \/ leftover)
=============================================================================
