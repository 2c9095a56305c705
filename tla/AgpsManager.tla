----------------------------- MODULE AgpsManager -----------------------------
(***************************************************************************)
(* The AGPS manager: CManagerMainLogic with its two request handlers       *)
(* (location server LS, network request handler NRH), its sender to the    *)
(* network gateway, the handler of early completions and the tracking      *)
(* timer.  It merges the two requests into one for the GPS module and      *)
(* runs the self location sessions with the network.                       *)
(*                                                                         *)
(* The manager is one thread: an action is one event with every call it    *)
(* leads to.  As in PrivLoc, calls are operators from world to world.      *)
(*                                                                         *)
(* Left out: positions and their accuracy (an input says which requests    *)
(* an update satisfies), fix times, logging, device status, the clock      *)
(* adjustment, the assistance data cache, the end of the process after a   *)
(* close-down.  The end of a request and the event of its timer are one    *)
(* step.                                                                   *)
(***************************************************************************)
EXTENDS PosMethods, Sequences, SequencesExt

CONSTANTS
    LsAsks,       \* methods LS requests ask for
    NrhAsks,      \* sets of methods NRH requests ask for
    Tracks,       \* values of the tracking flag the LS sends
    PowerModes,   \* power modes the LS and the NRH advise
    CellTimings,  \* whether NRH requests ask for the timing of cell frames
    Budgets       \* what may come in a behaviour, one of these (bound)

Channel == {"LS", "NRH"}

\* TPowerMode, by what it demands.
Power == [unknown |-> 0, close |-> 1, off |-> 2, standby |-> 3, on |-> 4]

\* Bounds: location requests of each channel, self location sessions, messages
\* that change the tracking flag or advise a power mode, requests for assistance
\* data outside a session, close-downs.
Budget ==
    [requests : [Channel -> Nat], sessions : Nat, tracking : Nat, power : Nat,
     assist : Nat, close : Nat]

ASSUME AgpsManagerAssumption ==
    /\ LsAsks \subseteq Supported
    /\ NrhAsks \subseteq NrhMethods
    /\ Tracks \subseteq BOOLEAN
    /\ PowerModes \subseteq {Power.close, Power.off, Power.standby, Power.on}
    /\ CellTimings \subseteq BOOLEAN
    /\ Budgets \subseteq Budget

VARIABLES
    req,         \* the request handler of each channel
    lsReq,       \* iLSReqState
    lsMode,      \* iActiveLSMode
    cancelDue,   \* iIsNrhCancelDue
    method,      \* iCurrentPositioningMethod
    cells,       \* iCurrentGpsTimingOfCellFramesRequested
    netMode,     \* iCurrentNetworkMode
    fallback,    \* iFallbackFromPTAToAutonomousPossible
    notify,      \* iSessionClosureData.iNotify
    session,     \* number of iSessionId
    tracking,    \* iLastTrackingFlagSentToNG, "unknown" with iTrackingStateUnknown
    timer,       \* iTimer, the tracking timer, is running
    power,       \* iPowerModeLS, iPowerModeNRH, the mode the module was told
    closing,     \* iClosingDown
    line,        \* to the gateway: the message being sent, then the queue
    fault,       \* an assertion has failed: the process is gone
    locating,    \* the GPS module has a location request
    gateway,     \* the gateway: last session heard of, the open ones
    owed,        \* the LS still waits for the end of its request
    budget       \* what may still come (bound)

vars == <<req, lsReq, lsMode, cancelDue, method, cells, netMode,
          fallback, notify, session, tracking, timer, power, closing, line, fault,
          locating, gateway, owed, budget>>

World ==
    [req |-> req, lsReq |-> lsReq, lsMode |-> lsMode,
     cancelDue |-> cancelDue, method |-> method, cells |-> cells,
     netMode |-> netMode, fallback |-> fallback, notify |-> notify,
     session |-> session, tracking |-> tracking, timer |-> timer,
     power |-> power, closing |-> closing, line |-> line, fault |-> fault,
     locating |-> locating, gateway |-> gateway, owed |-> owed]

\* Methods and client of an LS request are not read after it has ended.
Kept(r) ==
    IF r["LS"].state # "idle" THEN r
    ELSE [r EXCEPT !["LS"].modes = {}, !["LS"].new = FALSE]

\* The world a step ends in; a step that fails an assertion leaves no other.
Become(w) == \E v \in {IF w.fault THEN [World EXCEPT !.fault = TRUE] ELSE w} :
    /\ req' = Kept(v.req)
    /\ lsReq' = v.lsReq
    /\ lsMode' = v.lsMode
    /\ cancelDue' = v.cancelDue
    /\ method' = v.method
    /\ cells' = v.cells
    /\ netMode' = v.netMode
    /\ fallback' = v.fallback
    /\ notify' = v.notify
    /\ session' = v.session
    /\ tracking' = v.tracking
    /\ timer' = v.timer
    /\ power' = v.power
    /\ closing' = v.closing
    /\ line' = v.line
    /\ fault' = v.fault
    /\ locating' = v.locating
    /\ gateway' = v.gateway
    /\ owed' = v.owed

\* A request: state of its handler, methods it asks for, whether it comes
\* from a new client, whether its target time is still to come, cell timing.
\* The timer of a handler runs exactly while its state is not "idle".
NoRequest ==
    [state |-> "idle", modes |-> {}, new |-> FALSE, future |-> FALSE, cells |-> FALSE]

Init ==
    /\ req = [c \in Channel |-> NoRequest]
    /\ lsReq = "none"
    /\ lsMode = None
    /\ cancelDue = FALSE
    /\ method = None
    /\ cells = FALSE
    /\ netMode = None
    /\ fallback = FALSE
    /\ notify = FALSE
    /\ session = 0
    /\ tracking = "unknown"
    /\ timer = TRUE
    /\ power = [c \in Channel \union {"module"} |-> Power.unknown]
    /\ closing = FALSE
    /\ line = <<>>
    /\ fault = FALSE
    /\ locating = FALSE
    /\ gateway = [heard |-> 0, open |-> {}]
    /\ owed = FALSE
    /\ budget \in Budgets

Active(w, c) == w.req[c].state # "idle"
InSession(w) == w.lsReq \in {"started", "receivedDuringSession"}
Measures(w) == "n" \in w.method

-----------------------------------------------------------------------------
\* CNetworkGatewayHandler: one message is being sent, the others are queued.

\* Messages that can be queued.
KNetworkGatewayHandlerQSize == 4

\* RLbsNetMsgFifo::FindAndRemove takes the first message of a type out.
FindAndRemove(q, type) ==
    LET Found(i) == q[i].type = type /\ \A j \in 1..(i - 1) : q[j].type # type
    IN  IF \E i \in DOMAIN q : Found(i)
        THEN RemoveAt(q, CHOOSE i \in DOMAIN q : Found(i))
        ELSE q

\* Mutant: the cancel of a session that is not announced stays in the queue.
ReplacedOwnType(q, type) == FindAndRemove(q, type)

\* Mutant: a cancel takes the request that waits with it.
ReplacedSession(q, type) ==
    IF type \in {"request", "cancel"}
    THEN FindAndRemove(FindAndRemove(q, "request"), "cancel")
    ELSE FindAndRemove(q, type)

\* What is left of the queue when a message of this type takes its place in it.
Replaced(q, type) ==
    IF type = "request" THEN FindAndRemove(FindAndRemove(q, "request"), "cancel")
    ELSE FindAndRemove(q, type)

\* Mutant: a status advice that waits is kept, the new one is dropped.
QueueMessageOnce(q, type, value) ==
    IF type = "status" /\ \E i \in DOMAIN q : q[i].type = "status" THEN q
    ELSE Append(Replaced(q, type), [type |-> type, value |-> value])

QueueMessage(q, type, value) ==
    Append(Replaced(q, type), [type |-> type, value |-> value])

\* SendOrQueueMessage
Send(w, type, value) ==
    [w EXCEPT !.line =
        IF @ = <<>> THEN <<[type |-> type, value |-> value]>>
        ELSE <<Head(@)>> \o QueueMessage(Tail(@), type, value)]

-----------------------------------------------------------------------------
\* The tracking timer and the request handlers.

RestartTimerIfTracking(w) ==
    [w EXCEPT !.timer = \/ w.tracking = "unknown"
                        \/ w.tracking = "on" /\ ~Active(w, "LS")]

SendSystemStatusAdvice(w, on) ==
    LET new == IF on THEN "on" ELSE "off" IN
    RestartTimerIfTracking(
        [(IF w.tracking = new THEN w ELSE Send(w, "status", new))
            EXCEPT !.tracking = new])

Invalidate(w, c) == [w EXCEPT !.req[c].state = "idle"]

InvalidateBoth(w) == Invalidate(Invalidate(w, "LS"), "NRH")

\* A position with this status is published on the GPS location bus: the LS
\* takes it for the end of its request when that is no longer active.
Publish(w) == [w EXCEPT !.owed = @ /\ Active(w, "LS")]

\* Mutant: the error is not published.
PublishDummyForgotten(w) == w

\* PublishDummyPosition
PublishDummy(w) == Publish(w)

-----------------------------------------------------------------------------
\* Combining the requests.  c and reason: the request that has changed, and
\* how; "none" when there is none.

LsMethod(w) == CHOOSE m \in w.req["LS"].modes : TRUE

\* CalculateActiveLSMode: the contribution of a new LS request.
ActiveLSMode(w, c, reason) ==
    IF ~(c = "LS" /\ reason = "request") THEN w.lsMode
    ELSE IF w.req["LS"].new \/ LsMethod(w) # Autonomous THEN LsMethod(w)
    ELSE IF w.netMode = None THEN Autonomous
    ELSE w.netMode

\* aForceSelfLocate: an old client has changed the method of a session.
ForcesSelfLocate(w, c, reason) ==
    /\ c = "LS" /\ reason = "request"
    /\ ~w.req["LS"].new
    /\ LsMethod(w) \notin {Autonomous, w.lsMode}
    /\ w.netMode # None

\* Mutant: an LS request has the method it asks for.
CalculateForLsFirst(w) ==
    IF Active(w, "LS") THEN LsOnly(w.lsMode)
    ELSE IF w.cancelDue THEN NrhOnly(w.req["NRH"].modes)
    ELSE w.method

CalculatePositioningMethod(w) ==
    IF Active(w, "LS") /\ w.cancelDue THEN LookUp(w.lsMode, w.req["NRH"].modes)
    ELSE IF Active(w, "LS")
    THEN IF w.lsMode = None THEN w.method ELSE LsOnly(w.lsMode)
    ELSE IF w.cancelDue
    THEN IF w.lsMode = None THEN NrhOnly(w.req["NRH"].modes)
         ELSE LookUp(w.lsMode, w.req["NRH"].modes)
    ELSE w.method

\* iIsNrhCancelDue after ConfigureGpsMode
CancelDue(w, c, reason) ==
    IF c # "NRH" \/ reason \notin {"request", "cancel"} THEN w.cancelDue
    ELSE reason = "request"

\* Mutant: the assertions are taken out.
ConfigureUnchecked(w, c, reason) ==
    LET x == [w EXCEPT !.lsMode = ActiveLSMode(w, c, reason),
                       !.cancelDue = CancelDue(w, c, reason)]
    IN [x EXCEPT !.method = CalculatePositioningMethod(x)]

\* ConfigureGpsMode with SetGpsOptions
ConfigureGpsMode(w, c, reason) ==
    LET x == [w EXCEPT !.lsMode = ActiveLSMode(w, c, reason),
                       !.cancelDue = CancelDue(w, c, reason)]
        m == CalculatePositioningMethod(x)
    IN
    IF m = Fault THEN [x EXCEPT !.fault = TRUE]
    ELSE IF m = w.method /\ w.cells = w.req["NRH"].cells THEN x
    ELSE [x EXCEPT !.method = m,
                   !.cells = w.req["NRH"].cells,
                   !.fallback = FALSE,
                   !.lsReq = IF ForcesSelfLocate(w, c, reason) THEN "received" ELSE @]

\* Mutant: a cancel cancels whatever else is going on.
CombineCancelsAlways(w, c, reason) ==
    LET x == IF w.notify /\ Measures(w) THEN Invalidate(w, "LS") ELSE w
        y == ConfigureGpsMode(x, c, reason)
    IN
    IF reason = "cancel" THEN [y EXCEPT !.locating = FALSE]
    ELSE [y EXCEPT !.locating = @ \/ \E d \in Channel : Active(y, d)]

\* CombineLocationRequests
Combine(w, c, reason) ==
    LET x == IF w.notify /\ Measures(w) THEN Invalidate(w, "LS") ELSE w
        y == ConfigureGpsMode(x, c, reason)
    IN
    IF \E d \in Channel : Active(x, d) THEN [y EXCEPT !.locating = TRUE]
    ELSE IF reason = "cancel" /\ x.tracking # "on"
    THEN [y EXCEPT !.locating = FALSE]
    ELSE y

-----------------------------------------------------------------------------
\* Requests.

\* iLSReqState when the LS request is active.
ReceivedState(w) ==
    IF w.req["LS"].new \/ ~InSession(w) THEN "received" ELSE "receivedDuringSession"

\* OnLocationRequestStateChanged
OnLocationRequestStateChanged(w, c, reason) ==
    LET LS == IF Active(w, "LS") THEN [w EXCEPT !.lsReq = ReceivedState(w)]
              ELSE IF InSession(w) THEN Send(w, "cancel", w.session)
              ELSE [w EXCEPT !.lsReq = "none"]
        NRH == [w EXCEPT !.cancelDue = @ /\ reason # "cancel"]
    IN
    IF w.closing THEN w
    ELSE Combine(IF c = "LS" THEN RestartTimerIfTracking(LS) ELSE NRH, c, reason)

\* Mutant: what the other channel asks for is not looked at.
OnPowerModeAdviceAlways(w, c, mode) ==
    IF mode = Power.unknown THEN w
    ELSE [w EXCEPT !.power[c] = mode, !.power["module"] = mode]

\* OnPowerModeAdvice: advice is passed on unless the other channel wants more.
OnPowerModeAdvice(w, c, mode) ==
    IF mode = Power.unknown \/ w.closing THEN w
    ELSE [w EXCEPT !.power[c] = mode,
                   !.power["module"] =
                       IF \E d \in Channel \ {c} : w.power[d] > mode THEN @ ELSE mode]

\* ProcessSystemStatusAdvice.  The tracking flag of the NRH is ignored.
SystemStatusAdvice(w, c, advice) ==
    LET x == OnPowerModeAdvice(w, c, advice.power) IN
    IF c = "LS" THEN SendSystemStatusAdvice(x, advice.track) ELSE x

\* ActivateRequest and what ProcessAnyOutstandingRequestL does with it.  late:
\* the request has ended before it is read.
Activate(w, c, r, late) ==
    LET x == [w EXCEPT !.req[c] = r,
                       !.owed = IF c = "LS" THEN ~late ELSE @]
    IN
    IF late THEN Invalidate(x, c)
    ELSE OnLocationRequestStateChanged(x, c, "request")

\* The channel's own end of its request.
End(w, c, reason) ==
    OnLocationRequestStateChanged(
        [Invalidate(w, c) EXCEPT !.owed = @ /\ c # "LS"], c, reason)

\* What comes with any message of channel c: the tracking flag and perhaps
\* power advice.
Advice(c) ==
    [track : IF c = "LS" THEN Tracks ELSE {FALSE},
     power : PowerModes \union {Power.unknown}]

\* The bounds allow n requests of c with this advice.
Spends(n, c, advice) ==
    LET flags == IF c = "LS" /\ advice.track # (tracking = "on") THEN 1 ELSE 0
        modes == IF advice.power = Power.unknown THEN 0 ELSE 1
    IN
    /\ budget.requests[c] >= n
    /\ budget.tracking >= flags
    /\ budget.power >= modes
    /\ budget' = [budget EXCEPT !.requests[c] = @ - n,
                                !.tracking = @ - flags,
                                !.power = @ - modes]

\* RunL of a request handler: a location request.
LocationRequest(c) ==
    \E advice \in Advice(c),
       ms \in (IF c = "LS" THEN {{m} : m \in LsAsks} ELSE NrhAsks),
       new, future \in (IF c = "LS" THEN BOOLEAN ELSE {FALSE}),
       ct \in (IF c = "NRH" THEN CellTimings ELSE {FALSE}),
       late \in BOOLEAN :
        /\ ~fault
        /\ Spends(1, c, advice)
        /\ late => ~future
        /\ Become(Activate(SystemStatusAdvice(World, c, advice), c,
                    [state |-> "active", modes |-> ms, new |-> new,
                     future |-> future, cells |-> ct], late))

\* RunL of a request handler: a cancel.  A second cancel in a row is ignored;
\* as any status advice between the two changes that (iLastRequestWasCancel),
\* the model takes it for a status advice or a cancel.
LocationCancel(c) ==
    \E advice \in Advice(c) :
        /\ ~fault
        /\ Spends(0, c, advice)
        /\ Become(End(SystemStatusAdvice(World, c, advice), c, "cancel"))

\* RunL of a request handler: a status message.
StatusAdvice(c) ==
    \E advice \in Advice(c) :
        /\ ~fault
        /\ Spends(0, c, advice)
        /\ Become(SystemStatusAdvice(World, c, advice))

\* CLocationRequestHandler::OnTimerEventL, end of a request.
RequestTimeout(c) ==
    /\ ~fault
    /\ req[c].state = "active"
    /\ ~req[c].future
    /\ budget' = budget
    /\ Become(End(World, c, "timeout"))

\* The target time of the LS request comes.
TargetTimeComes ==
    /\ ~fault
    /\ req["LS"].future
    /\ budget' = budget
    /\ Become([World EXCEPT !.req["LS"].future = FALSE])

\* A request that was put off: over says that it has ended meanwhile.
Reactivate(w, over) ==
    IF over THEN End(w, "LS", "timeout")
    ELSE OnLocationRequestStateChanged([w EXCEPT !.req["LS"].state = "active"],
                                       "LS", "request")

\* CLocationRequestHandler::OnTimerEventL, target time of a request put off.
RestartTimeout ==
    /\ ~fault
    /\ req["LS"].state = "restart"
    /\ ~req["LS"].future
    /\ budget' = budget
    /\ \E over \in BOOLEAN : Become(Reactivate(World, over))

\* OnTimerEventL: the LS has stopped issuing requests.
TrackingTimeout ==
    /\ ~fault
    /\ timer
    /\ budget' = budget
    /\ Become(SendSystemStatusAdvice([World EXCEPT !.timer = FALSE], FALSE))

\* EarlyCompletionUpdate, published by the LS.
EarlyCompletion ==
    /\ ~fault
    /\ budget' = budget
    /\ InSession(World) \/ (lsReq \in {"none", "completed"} /\ ~Active(World, "NRH"))
    /\ Become([InvalidateBoth(World) EXCEPT !.locating = FALSE, !.owed = FALSE])

\* OnProcessCloseDown: the module is told to close, the requests are kept.
OnProcessCloseDown ==
    /\ ~fault
    /\ ~closing
    /\ budget.close > 0
    /\ budget' = [budget EXCEPT !.close = @ - 1]
    /\ Become([World EXCEPT !.closing = TRUE, !.locating = FALSE,
                            !.power["module"] = Power.close])

-----------------------------------------------------------------------------
\* The GPS module.

\* RequestAssistanceData.  over: CancelRestartOnTargetTime finds that a
\* request that was put off has ended.
StartSelfLocate(w, over) ==
    LET x == IF w.req["LS"].state # "restart" THEN w
             ELSE IF over THEN End(w, "LS", "timeout")
             ELSE [w EXCEPT !.req["LS"].state = "active"]
        s == w.session + 1
    IN
    Send([x EXCEPT !.session = s, !.netMode = x.method, !.lsReq = "started"], "request", s)

\* RestartOnTargetTime
PutOff(w) ==
    IF Active(w, "LS") THEN [w EXCEPT !.req["LS"].state = "restart"] ELSE w

\* RequestAssistanceData, when it starts a self location session.
RequestInNewSession ==
    /\ ~fault
    /\ locating
    /\ lsReq = "received"
    /\ ~(Active(World, "NRH") /\ req["LS"].future)
    /\ budget.sessions > 0
    /\ budget' = [budget EXCEPT !.sessions = @ - 1]
    /\ \E over \in BOOLEAN :
        /\ over => req["LS"].state = "restart" /\ ~req["LS"].future
        /\ Become(StartSelfLocate(World, over))

\* RequestAssistanceData, when it only asks for the data.
RequestAssistanceData ==
    /\ ~fault
    /\ locating
    /\ lsReq = "received" => Active(World, "NRH") /\ req["LS"].future
    /\ budget.assist > 0
    /\ budget' = [budget EXCEPT !.assist = @ - 1]
    /\ Become(Send(IF lsReq = "received" THEN PutOff(World) ELSE World, "assist", 0))

\* IsUpdateAsExpected: what the update brings against what is asked for.
Expected(w, position, meas) ==
    CASE w.method \in {Autonomous, TB} -> position
      [] w.method = TA -> meas \/ (w.fallback /\ position)
      [] OTHER -> w.method = Dual

\* An update with an error ends both requests.
ErrorUpdate(w, position, meas) ==
    IF position \/ (meas /\ w.method # Dual)
    THEN RestartTimerIfTracking(
           Publish([InvalidateBoth(w) EXCEPT !.lsReq = "none"]))
    ELSE w

\* An accurate position ends the requests in met, and one of the network that
\* can calculate it by itself from the measurements.
AccuratePosition(w, good, met) ==
    LET ends == {c \in Channel : c \in met \/ (c = "NRH" /\ good)}
        x == [w EXCEPT !.req = [c \in Channel |->
                 IF c \in ends THEN [@[c] EXCEPT !.state = "idle"] ELSE @[c]]]
        y == IF ends = {} THEN x ELSE Combine(x, "none", "none")
        z == IF InSession(y) \/ Active(y, "LS") THEN y ELSE [y EXCEPT !.lsReq = "none"]
    IN
    RestartTimerIfTracking(Publish(z))

\* A position with a status above zero; a futile one is kept for the end of
\* the session.
PartialPosition(w, status) ==
    RestartTimerIfTracking(
        Publish([w EXCEPT !.notify = @ \/ (status = "futile" /\ InSession(w))]))

\* UpdateLocation.  meas: measurements from which the network can calculate a
\* position; others change nothing, nor does a position without accuracy.
Update(w, status, position, meas, met) ==
    LET good == meas /\ Measures(w) IN
    IF status = "error" THEN ErrorUpdate(w, position, meas)
    ELSE IF ~Expected(w, position, meas) THEN w
    ELSE IF good /\ ~position THEN Combine(Invalidate(w, "NRH"), "none", "none")
    ELSE IF ~position \/ ~("t" \in w.method \/ w.fallback) THEN w
    ELSE IF status = "ok" THEN AccuratePosition(w, good, met)
    ELSE PartialPosition(w, status)

UpdateLocation ==
    \E status \in {"ok", "futile", "partial", "error"}, position, meas \in BOOLEAN,
       met \in SUBSET {c \in Channel : Active(World, c) /\ ~req[c].future} :
        /\ ~fault
        /\ locating
        /\ met # {} => status = "ok" /\ position
        /\ budget' = budget
        /\ Become(Update(World, status, position, meas, met))

-----------------------------------------------------------------------------
\* The network gateway.

\* RunL of the gateway handler: the gateway has read the message, and the
\* next one is sent.
MessageRead ==
    LET m == Head(line) IN
    /\ ~fault
    /\ line # <<>>
    /\ budget' = budget
    /\ Become([World EXCEPT !.line = Tail(@),
         !.gateway = IF m.type = "request"
                     THEN [heard |-> m.value, open |-> @.open \union {m.value}]
                     ELSE @])

\* The session ends the LS request: it cannot be answered otherwise.
EndsLsRequest(w, reason, admin) ==
    reason = "busy" \/ (reason = "error" /\ w.method = TA /\ admin = "always")

\* The LS still waits for a position of the network.  fresh: there is one
\* since the request.
Reissues(w, fresh) ==
    /\ Measures(w)
    /\ w.lsReq = "receivedDuringSession"
    /\ Active(w, "LS")
    /\ ~w.notify
    /\ ~fresh

\* The end of the session the manager waits for.
OwnSessionComplete(w, fresh) ==
    LET x == IF Reissues(w, fresh)
             THEN Combine([w EXCEPT !.lsReq = "received"], "LS", "request")
             ELSE [w EXCEPT !.lsReq = "completed"]
    IN
    IF x.notify THEN Publish([Invalidate(x, "LS") EXCEPT !.notify = FALSE]) ELSE x

\* OnSessionComplete.  admin: the variety of terminal assisted that is set,
\* read when a session of that method fails.
SessionEnd(v, reason, s, admin, fresh) ==
    LET w == [v EXCEPT !.netMode = None] IN
    IF EndsLsRequest(w, reason, admin)
    THEN LET x == RestartTimerIfTracking([Invalidate(w, "LS") EXCEPT !.lsReq = "none"]) IN
         [Combine(PublishDummy(x), "NRH", "cancel") EXCEPT !.cancelDue = FALSE]
    ELSE IF reason = "error" /\ w.method = TA THEN [w EXCEPT !.fallback = TRUE]
    ELSE IF InSession(w) /\ s = w.session THEN OwnSessionComplete(w, fresh)
    ELSE w

OnSessionComplete ==
    \E s \in gateway.open, reason \in {"ok", "busy", "error"},
       admin \in {"prefer", "always"}, fresh \in BOOLEAN :
        /\ ~fault
        /\ budget' = budget
        /\ admin = "always" => reason = "error" /\ method = TA
        /\ fresh => lsReq = "receivedDuringSession"
        /\ Become(SessionEnd([World EXCEPT !.gateway.open = @ \ {s}],
                             reason, s, admin, fresh))

\* OnAssistanceDataResponse with an error, where terminal assisted is preferred;
\* any other response changes nothing.
OnAssistanceDataError ==
    /\ ~fault
    /\ method = TA
    /\ budget' = budget
    /\ Become([World EXCEPT !.fallback = TRUE])

Next ==
    \/ \E c \in Channel : \/ LocationRequest(c)
                          \/ LocationCancel(c)
                          \/ StatusAdvice(c)
                          \/ RequestTimeout(c)
    \/ TargetTimeComes
    \/ RestartTimeout
    \/ TrackingTimeout
    \/ EarlyCompletion
    \/ OnProcessCloseDown
    \/ RequestInNewSession
    \/ RequestAssistanceData
    \/ UpdateLocation
    \/ MessageRead
    \/ OnSessionComplete
    \/ OnAssistanceDataError

Spec == Init /\ [][Next]_vars

-----------------------------------------------------------------------------
\* Properties.

Method == {None, Autonomous, TB, TA, Dual}

Request ==
    [state : {"idle", "active", "restart"}, modes : SUBSET Supported,
     new : BOOLEAN, future : BOOLEAN, cells : BOOLEAN]

Message ==
    [type : {"request", "cancel", "assist"}, value : Nat]
        \union [type : {"status"}, value : {"on", "off"}]

\* Every variable keeps its type.
TypeOK ==
    /\ req \in [Channel -> Request]
    /\ lsReq \in {"none", "received", "started", "receivedDuringSession", "completed"}
    /\ {lsMode, method, netMode} \subseteq Method
    /\ {cancelDue, cells, fallback, notify, timer} \subseteq BOOLEAN
    /\ {closing, fault, locating, owed} \subseteq BOOLEAN
    /\ session \in Nat
    /\ tracking \in {"unknown", "on", "off"}
    /\ \A i \in DOMAIN line : line[i] \in Message
    /\ \A c \in DOMAIN power : \E p \in DOMAIN Power : power[c] = Power[p]
    /\ gateway \in [heard : Nat, open : SUBSET Nat]
    /\ budget \in Budget

\* While a request of either channel is active, the GPS module has a location
\* request: none of the cancels sent for the other channel, for an early
\* completion or for the end of a session takes it away (CombineLocationRequests,
\* EarlyCompletionUpdate), until the manager is told to close down.
ActiveIsLocated ==
    ~closing => \A c \in Channel : Active(World, c) => locating

\* While a request of the NRH is active and not taken for cancelled, the module
\* is set to a method that gives it everything it asked for, through all the
\* requests of the LS; when no NRH request counts any more, an LS request has
\* the method it settled for (ConfigureGpsMode).
ModeFollows == ~closing =>
    /\ cancelDue /\ Active(World, "NRH") => UNION req["NRH"].modes \subseteq method
    /\ ~cancelDue /\ Active(World, "LS") => method = lsMode

\* The request of the LS ends with a publication, by its own timer or by a
\* cancel.  The one exception is a futile position: while its publication at
\* the end of the session is due, requests are dropped.
LsNeverForgotten ==
    owed => Active(World, "LS") \/ notify

\* A message is on its way to the gateway.
OnTheWay(type, value) ==
    \E i \in DOMAIN line : line[i].type = type /\ line[i].value = value

\* The gateway hears of the cancel of a session only after its request, and
\* of no older session any more (QueueMessage merges what waits).
CancelFollowsRequest ==
    \A i \in DOMAIN line : line[i].type = "cancel" =>
        \/ \E j \in 1..(i - 1) : line[j] = [line[i] EXCEPT !.type = "request"]
        \/ /\ gateway.heard = line[i].value
           /\ \A j \in 1..(i - 1) : line[j].type # "request"

\* A session the manager believes to be open has been or will be announced to
\* the gateway, so that its end can come.
SessionIsAnnounced ==
    InSession(World) => gateway.heard = session \/ OnTheWay("request", session)

\* The last advice on its way to the gateway is the state of the tracking flag.
StatusIsCurrent ==
    \A i \in DOMAIN line : line[i].type = "status" =>
        \/ line[i].value = tracking
        \/ \E j \in (i + 1)..Len(line) : line[j].type = "status"

\* The module has at least the power each channel asked for last, whichever of
\* the two spoke last (OnPowerModeAdvice).
PowerSuffices ==
    ~closing => \A c \in Channel : power["module"] >= power[c]

\* lbsmanagermainlogic.cpp:1612: a combination of methods is always found.
NeverFaults == ~fault
=============================================================================
