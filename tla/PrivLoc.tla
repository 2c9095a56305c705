------------------------------- MODULE PrivLoc -------------------------------
(***************************************************************************)
(* The privacy and location handler of the network request handler         *)
(* (NRH): one state machine per network session, the privacy controller    *)
(* handler that decides whether a session may locate the terminal, and     *)
(* the AGPS interface (AgpsRequests) the sessions share.                   *)
(*                                                                         *)
(* The NRH is one thread.  An action is one event: a message from the      *)
(* network gateway, a call of the privacy controller, a timer or an AGPS   *)
(* update, with every synchronous call it leads to.  The calls are         *)
(* operators from world to world, a world being the record of all the      *)
(* state; they return through Become.                                      *)
(*                                                                         *)
(* Left out: reference positions, power advice, the numbers of the quality *)
(* parameters, the intermediate futile update feature, allocation failure. *)
(* The build is the release build: debug assertions are not evaluated.     *)
(***************************************************************************)
EXTENDS AgpsRequests, Sequences, SequencesExt

CONSTANTS
    Type,            \* session type of each session
    Methods,         \* methods the requests of each session ask for ({}: unknown)
    Admin,           \* settings of external locate the user may have chosen
    Advices,         \* request advice of MTLR requests
    Silent,          \* whether MTLR requests may be of a silent type
    MaxRequests,     \* bound: location requests of each session
    Original,        \* behaviour mode Original, called 'vanilla' in the code
    NetworkTimeout,  \* KLbsSettingPrivacyTimeoutAction is NetworkDefined
    Profile,         \* quality profile: "valid", "missing" or "notInUse"
    ServerStays,     \* the privacy controller is connected throughout
    LocationManagement,  \* the device supports KLocationManagement
    NoSession        \* a null pointer to a state machine

ASSUME PrivLocAssumption ==
    /\ NoSession \notin Session
    /\ Type \in [Session -> {"MT", "NI", "SELF", "X3P", "NL"}]
    /\ \A s \in Emergency : Type[s] \in {"MT", "NI"}
    /\ Methods \in [Session -> SUBSET (GpsMode \union {{}})]
    /\ Admin \subseteq {"on", "alwaysVerify", "off", "offButNotify"}
    /\ Advices \subseteq {"verify", "notify", "silent", "stealth"}
    /\ Silent \subseteq BOOLEAN
    /\ MaxRequests \in [Session -> Nat]
    /\ {Original, NetworkTimeout, ServerStays, LocationManagement} \subseteq BOOLEAN
    /\ Profile \in {"valid", "missing", "notInUse"}

External == {s \in Session : Type[s] \in {"MT", "NI"}}

VARIABLES
    fsm,          \* iFsmArray: the state machine of each session
    spare,        \* iEmergencyFsm while it is not in iFsmArray
    latest,       \* iMolRFsm and iX3pFsm: the session of each, or NoSession
    agps,         \* CAgpsInterfaceHandler
    buf,          \* iRequestBuffer of the privacy controller handler
    timer,        \* iPrivacyResponseTimer is active
    alwaysVerify, \* iAlwaysVerify
    server,       \* iNrhServer is set: a privacy controller is connected
    counter,      \* KLbsNiPositioningStatusKey
    net,          \* what the network has done with each session
    budget,       \* location requests each session may still make (bound)
    sent,         \* location responses sent in the last step
    owed,         \* per session: location requests minus responses, those to a
                  \* cancel in Idle not counted
    asked,        \* per session: MTLR requests minus responses
    granted,      \* sessions the privacy handler last accepted
    known,        \* sessions the connected controller knows to be open
    trusted       \* always-verify sessions accepted without an answer

vars == <<fsm, spare, latest, agps, buf, timer, alwaysVerify, server, counter,
          net, budget, sent, owed, asked, granted, known, trusted>>

World ==
    [fsm |-> fsm, spare |-> spare, latest |-> latest, agps |-> agps,
     buf |-> buf, timer |-> timer, alwaysVerify |-> alwaysVerify,
     server |-> server, counter |-> counter, sent |-> {}, owed |-> owed,
     asked |-> asked, granted |-> granted, known |-> known,
     trusted |-> trusted]

\* The world a step ends in; v is w, evaluated once.
Become(w) == \E v \in {w} :
    /\ fsm' = v.fsm
    /\ spare' = v.spare
    /\ latest' = v.latest
    /\ agps' = v.agps
    /\ buf' = v.buf
    /\ timer' = v.timer
    /\ alwaysVerify' = v.alwaysVerify
    /\ server' = v.server
    /\ counter' = v.counter
    /\ sent' = v.sent
    /\ owed' = v.owed
    /\ asked' = v.asked
    /\ granted' = v.granted
    /\ known' = v.known
    /\ trusted' = v.trusted

FsmState == {"none", "idle", "waitPriv", "waitLocUpdate", "waitLocReq"}

\* state "none": the session has no state machine.  The location update timer
\* runs exactly while state is "waitLocUpdate".
NoFsm ==
    [state |-> "none",
     silent |-> FALSE,     \* ExternalRequestType() is a silent one
     locReq |-> FALSE,     \* LocReqReceived()
     exited |-> FALSE,     \* WasPrivacyResponseReceivedStateExited()
     fix |-> FALSE,        \* LocationFixReceived()
     meas |-> FALSE,       \* MeasurementInfoReceived()
     cancelled |-> FALSE,  \* PrivacyRequestCancelled()
     counted |-> FALSE,    \* WasPositioningStatusIncremented()
     tap |-> FALSE,        \* TapMode()
     method |-> {},        \* PosRequestMethod()
     complete |-> TRUE]    \* NetRequestQuality() leaves nothing to the profile

Fresh == [NoFsm EXCEPT !.state = "idle"]

Live(w) == {s \in Session : w.fsm[s].state # "none"}

Init ==
    /\ fsm = [s \in Session |-> NoFsm]
    /\ spare = Fresh
    /\ latest = [t \in {"SELF", "X3P"} |-> NoSession]
    /\ agps = NoRequests
    /\ buf = <<>>
    /\ timer = FALSE
    /\ alwaysVerify = FALSE
    /\ server = ServerStays
    /\ counter = 0
    /\ net = [s \in Session |-> "unused"]
    /\ budget = MaxRequests
    /\ sent = {}
    /\ owed = [s \in Session |-> 0]
    /\ asked = [s \in Session |-> 0]
    /\ granted = {}
    /\ known = {}
    /\ trusted = {}

-----------------------------------------------------------------------------
\* CNGMessageSwitch: messages to the network gateway.

SendNetLocResponse(w, s, what) ==
    [w EXCEPT !.sent = @ \union {<<s, what>>}, !.owed[s] = @ - 1]

SendMTLRResponse(w, s) ==
    [w EXCEPT !.asked[s] = @ - 1]

-----------------------------------------------------------------------------
\* CPrivacyControllerHandler, the part that calls no state machine.

Waits(b) == \E i \in DOMAIN b : b[i].state = "waiting"

\* Mutant: the timer is cancelled and not started for the request that waits.
RestartTimerNever(w) == [w EXCEPT !.timer = FALSE]

\* CancelResponseTimer(), StartResponseTimer()
RestartTimer(w) == [w EXCEPT !.timer = Waits(w.buf)]

\* FindPrivacyRequest: the first request of the session, 0 if there is none.
Find(b, s) == SelectInSeq(b, LAMBDA r : r.session = s)

\* Mutant: the controller hears of the end of answered requests only.
ProcessRequestCompleteAnswered(w, s) ==
    LET i == Find(w.buf, s) IN
    IF i = 0 THEN w
    ELSE RestartTimer(
           [w EXCEPT !.buf = RemoveAt(@, i),
                     !.known = IF w.buf[i].state = "responded" THEN @ \ {s} ELSE @])

ProcessRequestComplete(w, s) ==
    LET i == Find(w.buf, s) IN
    IF i = 0 THEN w
    ELSE RestartTimer(
           [w EXCEPT !.buf = RemoveAt(@, i),
                     !.known = IF w.buf[i].state = "completed" THEN @ ELSE @ \ {s}])

\* Mutant: the request keeps the state it was created in.
SetStateForgotten(before, w, i, state) == w

\* privReq->SetState: before is the world in which the request was at i, and
\* the calls made since may have removed the first request of its session.
SetState(before, w, i, state) ==
    LET removed == Find(before.buf, before.buf[i].session) IN
    IF Len(w.buf) = Len(before.buf)
    THEN [w EXCEPT !.buf = [j \in DOMAIN @ |->
            IF j = i \/ (before.buf[i].emergency /\ @[j].emergency)
            THEN [@[j] EXCEPT !.state = state] ELSE @[j]]]
    ELSE IF removed = i THEN w
    ELSE [w EXCEPT !.buf[i - 1].state = state]

\* GetPrivacyTimeoutAction
TimeoutAccepts(verify, action) ==
    NetworkTimeout /\ action = "allow" /\ ~(Original /\ verify)

-----------------------------------------------------------------------------
\* CLbsPrivLocFsm: leaving and entering states.

Goto(w, s, state) == [w EXCEPT !.fsm[s].state = state]

\* Mutant: the AGPS request outlives the session.
ExitSessionCompleteKeepsGps(w, s) == ProcessRequestComplete(w, s)

\* CLbsPrivLocStateBase::OnExit, EExitSessionComplete
ExitSessionComplete(w, s) ==
    ProcessRequestComplete([w EXCEPT !.agps = StopPositioning(@, s)], s)

\* CLbsPrivLocWaitLocUpdateState: S answers its requests and waits for more.
\* What is sent to s is what[s].
ExitWaitLocUpdate(w, S, what) ==
    [w EXCEPT
        !.fsm = [s \in Session |->
            IF s \in S THEN [w.fsm[s] EXCEPT !.state = "waitLocReq", !.cancelled = FALSE]
            ELSE w.fsm[s]],
        !.agps = HoldPositioning(@, S),
        !.sent = @ \union {<<s, what[s]>> : s \in S},
        !.owed = [s \in Session |-> IF s \in S THEN w.owed[s] - 1 ELSE w.owed[s]]]

\* A profile is needed and there is none.
NoQuality(s, complete) == ~complete /\ Profile # "valid" /\ s \notin Emergency

\* CLbsPrivLocWaitLocUpdateState::OnEntry.  cached: the last position the
\* AGPS manager published is recent and accurate enough.
EnterWaitLocUpdate(w, s, method, complete, cached) ==
    LET m == IF method = {} THEN DefaultMode ELSE method
        x == [w EXCEPT !.fsm[s].state = "waitLocUpdate", !.fsm[s].method = m]
        y == [x EXCEPT !.fsm[s].fix = FALSE, !.fsm[s].meas = FALSE,
                       !.agps = StartPositioning(@, s, m)]
    IN
    IF NoQuality(s, complete)
    THEN LET z == SendNetLocResponse(x, s, "denied") IN
         Goto(IF s \in External THEN ExitSessionComplete(z, s) ELSE z, s, "idle")
    ELSE IF cached THEN ExitWaitLocUpdate(x, {s}, [t \in {s} |-> "position"])
    ELSE IF Starts(x.agps, s, m) THEN y
    ELSE Goto(SendNetLocResponse(y, s, "refused"), s, "idle")

\* Mutant: a rejection is passed on in every state.
OnRespondAnyState(w, s, answer, cached) ==
    IF answer = "rejected" /\ Type[s] = "MT"
    THEN Goto(SendMTLRResponse([w EXCEPT !.fsm[s].exited = TRUE], s), s, "idle")
    ELSE IF w.fsm[s].state # "waitPriv" THEN w
    ELSE EnterWaitLocUpdate([w EXCEPT !.granted = @ \union {s}], s, {"tb"}, TRUE, cached)

\* CLbsPrivLocWaitPrivRespState::OnRespondNetworkLocationRequest; the other
\* states ignore the response.
OnRespond(w, s, answer, cached) ==
    LET f == w.fsm[s]
        x == [w EXCEPT !.fsm[s].exited = TRUE, !.fsm[s].locReq = FALSE]
        y == [x EXCEPT !.agps = PreStartPositioning(@, s),
                       !.counter = IF f.silent THEN @ ELSE @ + 1,
                       !.fsm[s].counted = @ \/ ~f.silent,
                       !.granted = @ \union {s}]
        Tell(u) == IF Type[s] = "MT" THEN SendMTLRResponse(u, s) ELSE u
    IN
    IF f.state # "waitPriv" THEN w
    ELSE IF answer = "accepted"
    THEN IF f.locReq
         THEN EnterWaitLocUpdate(Tell(y), s, f.method, f.complete, cached)
         ELSE Goto([Tell(y) EXCEPT !.fsm[s].cancelled = FALSE], s, "waitLocReq")
    ELSE LET z == Goto([x EXCEPT !.granted = @ \ {s}], s, "idle") IN
         IF Type[s] = "NI" THEN SendNetLocResponse(z, s, "denied") ELSE Tell(z)

\* Mutant: a cancel between two location requests is forgotten.
OnCancelForgotten(w, s) ==
    IF w.fsm[s].state = "waitLocReq" /\ s \notin Emergency
    THEN [w EXCEPT !.granted = @ \ {s}] ELSE w

\* Mutant: a cancel while the session is located leaves the GPS request.
OnCancelKeepsGps(w, s) ==
    IF w.fsm[s].state = "waitLocUpdate" /\ s \notin Emergency
    THEN Goto(SendNetLocResponse(w, s, "cancelled"), s, "idle") ELSE w

\* CLbsPrivLocStateBase::OnCancelNetworkLocationRequest, which Idle inherits and
\* whose OnExit sends a response even there, and that of
\* CLbsPrivLocWaitLocReqState.
OnCancel(w, s) ==
    LET f == w.fsm[s]
        x == [w EXCEPT !.granted = @ \ {s}]
    IN
    IF s \in Emergency THEN w
    ELSE CASE f.state = "none" -> w
           [] f.state = "idle" -> [x EXCEPT !.sent = @ \union {<<s, "idleCancelled">>}]
           [] f.state = "waitPriv" ->
                Goto(SendMTLRResponse([x EXCEPT !.fsm[s].locReq = FALSE], s), s, "idle")
           [] f.state = "waitLocUpdate" ->
                LET y == [x EXCEPT !.agps = StopPositioning(@, s)] IN
                Goto(SendNetLocResponse(y, s, "cancelled"), s, "idle")
           [] f.state = "waitLocReq" -> [x EXCEPT !.fsm[s].cancelled = TRUE]

-----------------------------------------------------------------------------
\* CPrivacyControllerHandler::ProcessNetworkLocationRequest

\* What the handler does with a request when a controller is connected:
\* whether it notifies the controller, waits for it, and accepts by itself.
Decision(s, advice, action, admin) ==
    LET Do(notify, wait, accept) == [notify |-> notify, wait |-> wait, accept |-> accept]
        \* for a "notify" request
        Notified == CASE action = "allow" -> Do(TRUE, FALSE, TRUE)
                      [] action = "reject" -> Do(TRUE, FALSE, FALSE)
                      [] OTHER -> Do(FALSE, FALSE, FALSE)
        NoProfile == Profile = "missing" \/ (Profile = "notInUse" /\ ~Original)
    IN
    CASE s \in Emergency -> Notified
      [] s \notin Emergency /\ NoProfile -> Do(FALSE, FALSE, FALSE)
      [] s \notin Emergency /\ ~NoProfile ->
           CASE admin = "alwaysVerify" -> Do(TRUE, TRUE, FALSE)
             [] admin = "off" -> Do(FALSE, FALSE, FALSE)
             [] admin = "offButNotify" -> Do(TRUE, FALSE, FALSE)
             [] admin = "on" ->
                  CASE advice = "verify" -> Do(TRUE, TRUE, FALSE)
                    [] advice = "notify" -> Notified
                    [] advice = "silent" ->
                         Do(TRUE, FALSE, ~(Original /\ action = "reject"))
                    [] advice = "stealth" -> Do(FALSE, FALSE, FALSE)

\* The same without a controller.
AcceptsAlone(s, advice, action) ==
    s \in Emergency \/ (advice = "notify" /\ action = "allow")

Answer(accept) == IF accept THEN "accepted" ELSE "rejected"

ProcessNetworkLocationRequest(w, s, advice, action, admin, cached) ==
    LET emergency == s \in Emergency
        stored == IF advice = "verify" /\ ~TimeoutAccepts(w.alwaysVerify, action)
                  THEN "reject" ELSE action
        d == Decision(s, advice, stored, admin)
        verify == w.server /\ ~emergency /\ admin = "alwaysVerify"
        wait == w.server /\ d.wait
        notify == w.server /\ d.notify
        accept == IF w.server THEN d.accept ELSE AcceptsAlone(s, advice, stored)
        request == [session |-> s, emergency |-> emergency, action |-> stored,
                    verify |-> verify, state |-> IF wait THEN "waiting" ELSE "new"]
        \* there is one request object for all emergencies
        shared == [i \in DOMAIN w.buf |->
                     IF emergency /\ w.buf[i].emergency THEN request ELSE w.buf[i]]
        x == [w EXCEPT !.buf = Append(shared, request),
                       !.alwaysVerify = verify,
                       !.known = IF notify THEN @ \union {s} ELSE @]
    IN
    IF wait THEN RestartTimer(x)
    ELSE SetState(x, OnRespond(x, s, Answer(accept), cached), Len(x.buf),
                  IF w.server /\ ~accept /\ ~notify THEN "completed" ELSE "responded")

-----------------------------------------------------------------------------
\* CPrivacyAndLocationHandler: which state machine takes a message.

\* GetNewFsm.  An emergency takes over the one emergency state machine, with
\* the AGPS request that points into it, from the session that has it.
GetNewFsm(w, s) ==
    LET old == {e \in Emergency : w.fsm[e].state # "none"}
        o == CHOOSE e \in old : TRUE
        Reset(f) == [f EXCEPT !.locReq = FALSE, !.fix = FALSE,
                              !.tap = FALSE, !.exited = FALSE]
    IN
    IF s \notin Emergency
    THEN IF Cardinality(Live(w)) <= MaxSessions
         THEN [w EXCEPT !.fsm[s] = Fresh] ELSE w
    ELSE IF old = {}
    THEN [w EXCEPT !.fsm[s] = Reset(w.spare)]
    ELSE [w EXCEPT !.fsm[o] = NoFsm,
                   !.fsm[s] = Reset(w.fsm[o]),
                   !.agps.req[s] = w.agps.req[o],
                   !.agps.method[s] = w.agps.method[o],
                   !.agps.req[o] = "none",
                   !.agps.method[o] = {}]

LookupFsm(w, s) == IF s \in Live(w) THEN w ELSE GetNewFsm(w, s)

\* A self location or X3P session replaces the one there is: its state
\* machine is deleted.  Its AGPS request stays on the list.
ReplaceSession(w, s) ==
    LET o == w.latest[Type[s]] IN
    IF s \in Live(w) \/ Type[s] \notin {"SELF", "X3P"} \/ o = NoSession THEN w
    ELSE [w EXCEPT !.fsm[o] = NoFsm, !.latest[Type[s]] = NoSession]

\* CLbsPrivLocStateBase::HandleLocRequest for a session of the state machine
\* and CLbsPrivLocIdleState::OnNetLocRequest.
IdleNetLocRequest(w, s, method, complete, admin, cached) ==
    LET verify == admin = "alwaysVerify" /\ s \notin Emergency IN
    IF w.fsm[s].exited \/ Type[s] = "MT"
    THEN SendNetLocResponse(w, s, "denied")
    ELSE IF Type[s] = "NI"
    THEN ProcessNetworkLocationRequest(
           [w EXCEPT !.fsm[s].locReq = TRUE,
                     !.fsm[s].method = method,
                     !.fsm[s].complete = complete,
                     !.fsm[s].state = "waitPriv"],
           s, IF verify THEN "verify" ELSE "notify",
           IF verify THEN "reject" ELSE "allow", admin, cached)
    ELSE EnterWaitLocUpdate(w, s, method, complete, cached)

\* CLbsPrivLocFsm::OnNetLocRequest
FsmNetLocRequest(w, s, method, complete, admin, cached) ==
    LET f == w.fsm[s]
        tap == method = {"ta"} /\ ~(f.state = "idle" /\ f.exited)
        x == [w EXCEPT !.fsm[s].tap = @ \/ tap]
    IN
    CASE f.state = "idle" -> IdleNetLocRequest(x, s, method, complete, admin, cached)
      [] f.state = "waitPriv" ->
           [x EXCEPT !.fsm[s].method = method, !.fsm[s].complete = complete,
                     !.fsm[s].locReq = TRUE]
      [] f.state = "waitLocUpdate" -> EnterWaitLocUpdate(x, s, method, complete, cached)
      [] f.state = "waitLocReq" ->
           IF f.cancelled THEN SendNetLocResponse(x, s, "cancelled")
           ELSE EnterWaitLocUpdate(x, s, method, complete, cached)

-----------------------------------------------------------------------------
\* Messages from the network gateway.

Same == UNCHANGED <<net, budget>>

\* OnMTLRRequest.  The network asks for privacy once, to open a session.
MTLRRequest(s, advice, action, admin, silent) ==
    /\ Type[s] = "MT"
    /\ net[s] = "unused"
    /\ net' = [net EXCEPT ![s] = "open"]
    /\ UNCHANGED budget
    /\ LET w == LookupFsm([World EXCEPT !.asked[s] = @ + 1], s)
           state == w.fsm[s].state
       IN Become(
            CASE state = "none" -> SendMTLRResponse(w, s)
              [] state = "idle" ->
                   ProcessNetworkLocationRequest(
                     [w EXCEPT !.fsm[s].silent = silent, !.fsm[s].state = "waitPriv"],
                     s, advice, action, admin, FALSE)
              \* in an emergency state machine that was taken over
              [] state \in {"waitPriv", "waitLocUpdate", "waitLocReq"} -> w)

\* OnNetLocRequest
NetLocRequest(s, method, complete, admin, cached) ==
    /\ net[s] = "open" \/ (net[s] = "unused" /\ Type[s] # "MT")
    /\ budget[s] > 0
    /\ net' = [net EXCEPT ![s] = "open"]
    /\ budget' = [budget EXCEPT ![s] = @ - 1]
    /\ LET w == [World EXCEPT !.owed[s] = @ + 1]
           x == LookupFsm(ReplaceSession(w, s), s)
           y == IF Type[s] \in {"SELF", "X3P"} THEN [x EXCEPT !.latest[Type[s]] = s] ELSE x
       IN Become(
            IF Type[s] = "NL" /\ method # {"ta"} THEN SendNetLocResponse(w, s, "reference")
            ELSE IF s \notin Live(x) THEN x
            ELSE FsmNetLocRequest(y, s, method, complete, admin, cached))

\* OnSessionComplete
SessionComplete(s) ==
    /\ net[s] = "open"
    /\ net' = [net EXCEPT ![s] = "closed"]
    /\ UNCHANGED budget
    /\ LET x == ExitSessionComplete(World, s)
           f == fsm[s]
           idle == [f EXCEPT !.state = "idle", !.counted = FALSE]
       IN Become(
            IF s \notin Live(World) THEN World
            ELSE [x EXCEPT
                    !.fsm[s] = NoFsm,
                    !.spare = IF s \in Emergency THEN idle ELSE @,
                    !.counter = IF LocationManagement /\ f.counted /\ @ > 0
                                THEN @ - 1 ELSE @,
                    !.latest = [t \in DOMAIN @ |->
                                  IF t = Type[s] THEN NoSession ELSE @[t]],
                    !.granted = @ \ {s}])

-----------------------------------------------------------------------------
\* Calls of the privacy controller and the response timer.

\* OnRespondNetworkLocationRequest
ControllerResponds(s, answer, cached) ==
    LET i == Find(buf, s) IN
    /\ server
    /\ s \in known
    /\ i # 0
    /\ Same
    /\ Become(
         IF buf[i].state = "waiting"
         THEN RestartTimer(SetState(World, OnRespond(World, s, answer, cached), i, "responded"))
         ELSE RestartTimer(World))

\* OnCancelNetworkLocationRequest
ControllerCancels(s) ==
    /\ server
    /\ s \in known
    /\ Find(buf, s) # 0
    /\ Same
    /\ Become(OnCancel(RestartTimer(World), s))

\* Mutant: the timer is not started again for the next request that waits.
ResponseTimerOnce(cached) ==
    LET i == SelectInSeq(buf, LAMBDA q : q.state = "waiting")
        w == [World EXCEPT !.timer = FALSE]
        accept == TimeoutAccepts(alwaysVerify, buf[i].action)
    IN
    /\ timer
    /\ i # 0
    /\ Same
    /\ Become(SetState(w, OnRespond(w, buf[i].session, Answer(accept), cached), i, "responded"))

\* CPrivacyControllerHandler::OnTimerEventL
ResponseTimer(cached) ==
    LET i == SelectInSeq(buf, LAMBDA r : r.state = "waiting")
        s == buf[i].session
        accept == TimeoutAccepts(alwaysVerify, buf[i].action)
        w == [World EXCEPT !.timer = FALSE,
                           !.trusted = IF accept /\ buf[i].verify /\ fsm[s].state = "waitPriv"
                                        THEN @ \union {s} ELSE @]
        x == SetState(w, OnRespond(w, s, Answer(accept), cached), i, "responded")
    IN
    /\ timer
    /\ Same
    /\ Become(IF i = 0 THEN [World EXCEPT !.timer = FALSE]
              ELSE IF x.timer THEN x ELSE RestartTimer(x))

\* SetServerObserver, from the opening and closing of the controller's
\* subsession.
ServerConnects ==
    /\ ~server
    /\ Same
    /\ Become([World EXCEPT !.server = TRUE])

ServerDisconnects ==
    /\ server
    /\ ~ServerStays
    /\ Same
    /\ Become([World EXCEPT !.server = FALSE, !.known = {}])

-----------------------------------------------------------------------------
\* The location update timer and the updates of the AGPS manager, which every
\* state machine in CLbsPrivLocWaitLocUpdateState gets.

Locating == {s \in Session : fsm[s].state = "waitLocUpdate"}

\* Mutant: the session is given up only when something was received.
LocationTimerWithUpdate(s) ==
    /\ s \in Locating
    /\ fsm[s].fix \/ fsm[s].meas
    /\ Same
    /\ Become(ExitWaitLocUpdate(World, {s}, [t \in {s} |-> "qualityLoss"]))

\* CLbsPrivLocWaitLocUpdateState::OnTimerEventL
LocationTimer(s) ==
    /\ s \in Locating
    /\ Same
    /\ Become(ExitWaitLocUpdate(World, {s}, [t \in {s} |->
         IF fsm[s].meas THEN "measurement"
         ELSE IF fsm[s].fix THEN "qualityLoss" ELSE "error"]))

\* OnAgpsPositionUpdate.  reason "none" is KErrNone, "early" is
\* KPositionEarlyComplete or another positive code; accurate: the sessions
\* whose quality parameters the position meets.
PositionUpdate(reason, accurate) ==
    LET met == IF reason = "none" THEN {s \in accurate : ~fsm[s].tap} ELSE Locating
        what == [s \in met |-> IF reason # "error" THEN "position"
                               ELSE IF fsm[s].meas THEN "measurement" ELSE "error"]
        w == [World EXCEPT !.fsm = [s \in Session |->
                IF s \in Locating THEN [fsm[s] EXCEPT !.fix = TRUE] ELSE fsm[s]]]
    IN
    /\ Locating # {}
    /\ Same
    /\ Become(ExitWaitLocUpdate(w, met, what))

\* OnAgpsMeasurementUpdate
MeasurementUpdate(possible) ==
    LET assisted == {s \in Locating : "ta" \in fsm[s].method}
        w == [World EXCEPT !.fsm = [s \in Session |->
                IF s \in assisted THEN [fsm[s] EXCEPT !.meas = TRUE] ELSE fsm[s]]]
    IN
    /\ assisted # {}
    /\ "ta" \in agps.mode
    /\ Same
    /\ Become(ExitWaitLocUpdate(w, IF possible THEN assisted ELSE {},
                                [s \in assisted |-> "measurement"]))

-----------------------------------------------------------------------------
\* Whether a request brings all quality parameters: with a valid profile the
\* handler does not tell.
Completeness == IF Profile = "valid" THEN {TRUE} ELSE BOOLEAN

Next ==
    \/ \E s \in Session :
         \/ \E advice \in Advices, action \in {"allow", "reject"}, admin \in Admin,
               silent \in Silent : MTLRRequest(s, advice, action, admin, silent)
         \/ \E m \in Methods[s], complete \in Completeness, admin \in Admin, cached \in BOOLEAN :
               NetLocRequest(s, m, complete, admin, cached)
         \/ SessionComplete(s)
         \/ \E a \in {"accepted", "rejected"}, c \in BOOLEAN : ControllerResponds(s, a, c)
         \/ ControllerCancels(s)
         \/ LocationTimer(s)
    \/ \E cached \in BOOLEAN : ResponseTimer(cached)
    \/ ServerConnects
    \/ ServerDisconnects
    \/ \E reason \in {"none", "error", "early"}, accurate \in SUBSET Locating :
         PositionUpdate(reason, accurate)
    \/ \E possible \in BOOLEAN : MeasurementUpdate(possible)

Spec == Init /\ [][Next]_vars

\* Both timers are kernel timers and fire.
Fairness ==
    /\ WF_vars(\E cached \in BOOLEAN : ResponseTimer(cached))
    /\ \A s \in Session : WF_vars(LocationTimer(s))

FairSpec == Spec /\ Fairness

-----------------------------------------------------------------------------
\* Properties.

\* Shape of the state between two events.  No privacy request is left without
\* the state its handler gives it, and the emergency state machine is Idle
\* whenever it is out of iFsmArray.
TypeOK ==
    /\ fsm \in [Session -> [state : FsmState, silent : BOOLEAN, locReq : BOOLEAN,
                             exited : BOOLEAN, fix : BOOLEAN, meas : BOOLEAN,
                             cancelled : BOOLEAN, counted : BOOLEAN, tap : BOOLEAN,
                             method : GpsMode \union {{}}, complete : BOOLEAN]]
    /\ spare.state = "idle"
    /\ latest \in [{"SELF", "X3P"} -> Session \union {NoSession}]
    /\ agps \in AgpsState
    /\ \A i \in DOMAIN buf : buf[i].state \in {"waiting", "responded", "completed"}
    /\ {timer, alwaysVerify, server} \subseteq BOOLEAN
    /\ counter \in Nat

\* The last step sent the network where s is.
Located(s) ==
    \E what \in {"position", "measurement", "qualityLoss"} : <<s, what>> \in sent

\* The terminal's place goes to the network only for a session the privacy
\* handler last accepted: never before its answer, after a rejection or after
\* the controller cancelled (WaitPrivResp OnExit, WasPrivacyResponseReceived-
\* StateExited, PrivacyRequestCancelled).  In an emergency nobody is asked.
Consent == \A s \in External \ Emergency : Located(s) => s \in granted

\* The network is sent no location response it did not ask for and no second
\* response to an MTLR request, whichever of timer, AGPS update, controller and
\* session end comes first (the OnExit of the states).  The one exception is
\* "idleCancelled", which owed does not count: the response to a cancel in Idle,
\* sent although privacyandlocationrequesthandler.cpp:784 names the states that
\* cancel and says "Other states ignore the event".
RepliesMatch ==
    \A s \in Session : owed[s] >= 0 /\ (Type[s] = "MT" => asked[s] >= 0)

\* A session that ended left no location request behind, and without sessions
\* the GPS is off and, with location management, nobody is shown as being
\* positioned (OnSessionComplete, StopPositioning, DecrementPositioningStatus).
Released ==
    /\ Requests(agps) \subseteq Live(World)
    /\ Live(World) = {} => ~agps.running /\ (LocationManagement => counter = 0)

\* A session waits for a position exactly while its AGPS request is active, and
\* then the AGPS manager is working (StartPositioning, HoldPositioning,
\* StopPositioning against the states' OnEntry and OnExit).
LocatingIsActive ==
    \A s \in Session :
        /\ s \in Locating <=> agps.req[s] = "active"
        /\ s \in Locating => agps.running

\* No session waits for a position in a mode the combined request does not
\* have, whatever other sessions asked for since; only an emergency may take
\* the GPS from the others, and no session can take it from an emergency
\* (CalculateNewCombinedRequestMethod).
ModeServes ==
    \A s \in Locating :
        (\A e \in Emergency \ {s} : budget[e] = MaxRequests[e]) \/ s \in Emergency
            => Serves(agps.mode, agps.method[s])

\* Neither the request limit nor a clash of modes refuses an emergency
\* (AddOrUpdateRequest, the end of CalculateNewCombinedRequestMethod).
EmergencyNeverRefused == \A s \in Emergency : <<s, "refused">> \notin sent

\* The one response timer runs exactly while some request waits for the
\* controller, and a session that waits for an answer has such a request: no
\* order of answers, cancels, session ends and expiries loses the timeout.
TimerCovers ==
    /\ timer <=> Waits(buf)
    /\ \A s \in Session : fsm[s].state = "waitPriv" =>
          \E i \in DOMAIN buf : buf[i].session = s /\ buf[i].state = "waiting"

\* The controller is not left with a session that has ended: it was told of
\* the completion of every request it was told of (ProcessRequestComplete).
ControllerView == known \subseteq Live(World)

\* Every request for privacy is decided, by the controller or by the timer.
PrivacyIsDecided ==
    \A s \in Session : fsm[s].state = "waitPriv" ~> fsm[s].state # "waitPriv"

\* No session waits for a position for ever.
LocatingEnds == \A s \in Session : s \in Locating ~> s \notin Locating

\* privacyhandler.cpp:1628, "For 'vanilla' we shouldn't trust the
\* network-specified action if admin setting says 'always verify'".
AlwaysVerifyIsAsked == Original => trusted = {}
=============================================================================
