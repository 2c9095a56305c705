# TLA+ models of the Location Based Services (LBS) subsystem

Specifications, model checking runs and proofs for the Symbian LBS source in
`src/`. Paths below are relative to `src/` unless they name a module.

## The system

LBS answers requests for the position of a mobile terminal, made by
applications on it or by the network. It is a set of processes that talk
through publish-and-subscribe properties.

| Part | State | Operations | Talks to |
|---|---|---|---|
| Protocol modules (`networkprotocolmodules`) | network sessions | translate network messages (test protocol, SUPL, privacy) | plug-ins of the network gateway |
| Network gateway (`locationmgmt/networkgateway`) | registration, loaded modules, the module of each client's session, send buffers, assistance data buffer | loads protocol modules, routes messages between them and the rest | NRH, AGPS manager, network PSYs by channels, network location manager by a property |
| Network request handler, NRH (`locationrequestmgmt/networkrequesthandler`) | a state machine per session, privacy requests, AGPS requests, X3P queue | decides who may locate the terminal, collects positions, answers | gateway, AGPS manager, privacy controller, X3P clients |
| AGPS manager (`locationmgmt/agpslocationmgr`) | requests of NRH and location server, GPS module | runs the GPS hardware, publishes positions and measurements | NRH, gateway, location server |
| Network location manager (`locationmgmt/networklocationmgr`) | network position requests | self location by the network | gateway, location server |
| Location server (`locationrequestmgmt/locationserver`) | client sessions, positioners | requests of applications | managers, positioning modules |
| Location monitor (`locationmgmt/locmonitor`) | last known positions | stores and serves them | location server |
| LBS root (`locationmgmt/locationcore/lbsroot`) | process list | starts and restarts processes | all |
| Core libraries (`locationmgmt/locationcore`) | properties, settings, caches | channels, buses, assistance data | all |
| Positioning modules (`datasourcemodules`) | their hardware or server | positions | location server |

What is hard in it:

* **Channels** (`LbsNetInternalApi`). A message property and a flag property,
  written and subscribed to by two processes without a lock. Correct when no
  accepted message is lost, repeated or reordered and a completed send means
  a read message.
* **Sessions in the NRH.** One thread, but a dozen kinds of event per session
  in any order: privacy request, location request, the controller's answer and
  cancel, two timers, position, measurement, session end, a controller that
  goes away. Correct when the network learns a position only with consent,
  each request is answered at most once and a finished session leaves nothing.
* **Shared AGPS requests.** All sessions share one request to the AGPS
  manager, whose GPS mode is folded from theirs. Correct when no session waits
  in a mode nobody serves, an emergency comes first and the GPS is off when
  nobody needs it.
* **Privacy requests.** One buffer, one timer and one flag for all of them.
  Correct when every request is decided and none in place of another.
* **Gateway buffers.** Emergency messages overtake others, assistance data is
  merged while it waits, completions wait in a single place. Correct when
  nothing is lost, repeated or stopped, and the newest result prevails.
* **Gateway routing.** The network registration, and with it the modules that
  are loaded and valid, changes under running sessions. Correct when a cancel
  or a response reaches the module that has the session, and a module that is
  not valid is refused and not forgotten.
* **The one request of the GPS module.** The AGPS manager merges the requests
  of the location server and the NRH into one, with a method looked up in
  tables, while sessions with the network start, end and fail. Correct when
  every active request is located for, in a method and with the power that
  serve it, no request is forgotten and the gateway hears of sessions, cancels
  and tracking in an order that makes sense.
* **One procedure at a time.** The test protocol module decides for each
  request whether it is refused, waits or replaces what runs, while responses
  of LBS and of the network and the timers drive four state machines. Correct
  when one procedure runs and the manager knows which, no session is forgotten,
  no response is taken for another and every procedure ends.
* **X3P, location server**: queues with cancels that race completion, and
  resources shared by clients.

`PROJECT.json` lists every component with its status and the hazards at their
lines.

## Modules

| Module | Models |
|---|---|
| `Mailbox` | the promise of a channel: a place for one message, written, then read; only a channel that was disturbed may lose one |
| `NetChannel` | one direction of `RLbsNetChannel` with `CNetChannelMonitor` (`lbsnetinternalapi.cpp`), one kernel call per step; refines `Mailbox` |
| `NetChannel_proof` | proofs about it |
| `AgpsRequests` | the operations of `CAgpsInterfaceHandler` as functions of its state |
| `AgpsRequests_proof` | lemmas about them |
| `AgpsInterface` | those operations called in any order |
| `AgpsInterface_proof` | proofs about it |
| `PrivLoc` | `CPrivacyAndLocationHandler`, `CLbsPrivLocFsm` and its states, and `CPrivacyControllerHandler`, composed over `AgpsRequests` |
| `PrivLocMC` | session types and methods for TLC |
| `PrivLoc_proof` | proofs about `PrivLoc` |
| `GatewayChannels` | the channels of the network gateway (`CNetworkRequestChannel`, `CPsyRequestChannel`, `CAgpsChannel` with `RAssistanceDataMsgBuffer`) as functions of their state, each over one channel as `Mailbox` describes it |
| `NetGateway` | `CNetworkGateway`, composed over them, with the protocol modules and the other processes as its environment |
| `NetGatewayMC` | owners of sessions, and which sessions occur together, for TLC |
| `NetGateway_proof` | proofs about `NetGateway` |
| `PosMethods` | positioning methods and the combination tables of `lbsmanagermainlogic.cpp` |
| `PosMethods_proof` | proofs about them |
| `AgpsManager` | `CManagerMainLogic` with both `CLocationRequestHandler`s, `CNetworkGatewayHandler` and the early completion handler |
| `AgpsManagerMC` | methods, and what may come in a behaviour, for TLC |
| `AgpsManager_proof` | proofs about `AgpsManager` |
| `ProtocolMachines` | the state machines of the test protocol module (`CStateMachineBase` and its four subclasses) as functions of the state of one |
| `ProtocolModule` | `CProtocolManager` and `CConfigManager` over them, with LBS and the network simulator as the environment |
| `ProtocolModuleMC` | sessions, and what may come in a behaviour, for TLC |
| `ProtocolModule_proof` | proofs about `ProtocolModule` |

### NetChannel

The variables are the two properties (`data`, `ack`), the subscriptions of the
ends to them, and where each end is in its code. `SendMessage` is
`SendRefused` or `SendAccepted`, `SendRaiseAck`, `SendSubscribeAck`,
`SendPublish`; `CNetChannelMonitor::RunL` is `RunLGet`, `RunLResubscribe`,
`RunLNotify`, `RunLAcknowledge`. Messages are their numbers. RProperty is
external: a subscription completes at the next write. The history variable
`calm` holds until an end does what may cost a message: a cancelled send, a
receiver that opens late or closes. The properties that promise delivery are
stated while it holds.

### AgpsRequests, AgpsInterface

A GPS mode is the set of its parts (`tb`, `ta`, `auto`), hybrid being both
`tb` and `ta`. The four combination tables of
`CalculateNewCombinedRequestMethod` then are one rule: the part of the new
mode that the device can do (`Usable`) is added to the current mode, and
`tb` absorbs `auto` (`Normal`). A request on `hold` keeps its place on the
list. Quality, power advice and cell frame timing are not modelled.

### PrivLoc

The NRH is a single thread with an active scheduler, so that an action is one
event with every synchronous call it leads to. Those calls nest: a privacy
request may be answered at once, which requests a position, which may find
no quality profile and end the session, which removes the privacy request
while its handler still works on it. Each call is therefore an operator from
world to world, a world being a record of the whole state, and an action ends
in `Become`.

| Code | Here |
|---|---|
| `OnMTLRRequest`, `OnNetLocRequest`, `OnSessionComplete` of the handler | `MTLRRequest`, `NetLocRequest`, `SessionComplete` |
| `LookupFsm`, `GetNewFsm`, replacement of self location and X3P sessions | `LookupFsm`, `GetNewFsm`, `ReplaceSession` |
| `OnEntry` and `OnExit` of the states | `EnterWaitLocUpdate`, `ExitWaitLocUpdate`, `ExitSessionComplete`, `OnRespond`, `OnCancel` |
| `ProcessNetworkLocationRequest` of the privacy handler | the operator of that name, with `Decision` for the table of settings, advice and action |
| answers and cancels of the controller | `ControllerResponds`, `ControllerCancels` |
| response timer, location timer | `ResponseTimer`, `LocationTimer` |
| updates of the AGPS manager | `PositionUpdate`, `MeasurementUpdate` |
| opening and closing of the controller's subsession | `ServerConnects`, `ServerDisconnects` |

Positions are kinds of response; whether one is accurate enough is chosen
freely for each session. Admin settings are read when the code reads them and
chosen freely each time. `owed`, `asked`, `granted`, `known` and `trusted` are
history variables, as is `sent`, the responses of the last step. `net` and
`budget` say what the network may still ask.

Assumed of the network: it asks for privacy once per session, makes no request
after it completed a session, and completes only what it opened. Nothing is
assumed of the controller: it may cancel a session before it learns that the
session is Idle, or after. In Idle, whose comment says that such a cancel is
ignored (`privacyandlocationrequesthandler.cpp:784`), the code sends the network
a response nobody asked for (lines 789-801, 838-851). This disagreement is in the
model, as the response `idleCancelled`, which `owed` does not count: `RepliesMatch`
excepts it and no other. It happens in `privloc_pair` as soon as a privacy
request is decided at once and the controller, which is notified of it, cancels.
Where the code writes to a privacy request it has just deleted, the write is left out.

`LocationManagement` is the feature of that name, which a device has or has
not. `DecrementPositioningStatus` does nothing without it (the process ends
instead, and its destructor resets the status), so that `Released` speaks of
the status only with it. It is FALSE in `privloc_emergency`.

Not modelled there: reference positions, the intermediate futile update
feature, power advice, allocation failure, position updates to the
controller, and the notifier handler that replaces the controller in another
configuration.

### GatewayChannels, NetGateway

| Code | Here |
|---|---|
| `SendNetRequestMessage`, `SendNetworkResponse`, `SendAssistanceDataResponse`, `SendSessionComplete` and the `RunL` of the channels | the operators of these names, `RequestRunL`, `SendNextBufferedMessage`, `AgpsRunL` |
| `IsActive()`, `iMsgBuffer`, `iEmergencyBuffer` with the two messages it points to | `active`, `buffer`, `emergency` with `slot` |
| `iEmpty`, `iErrGeneric`, `iBuffer[i].iValid` with `iReason` | `empty`, `generic`, `items` |
| `ProcessPrivacyRequest` ... `ProcessAssistanceData` called by a module | the actions of these names |
| requests of the AGPS manager, network location manager, SUPL PSY and X3P handler | `OnSelfLocationRequest`, `NetworkLocationRequest`, `PsyLocationRequest`, `TransmitLocationRequest` |
| their cancels; responses of the NRH | `Cancel`; `LocationResponse`, `PrivacyResponse` |
| `OnNetworkRegistrationStatusChange`, `ValidPm`, `DefaultPm`, `FindOriginalPMFromID`, `iModuleForSession` | the operators of these names, `moduleFor` |
| `CRejectPrivacyRequestCallback` | `reject`, `RejectPrivacyRequest` |

Messages are a type, a session and a number, counted per session as the
gateway gets them. The rejection runs at high priority, so no other event of
the gateway comes between. History variables: `sent`, `readLog`, `agpsSent`,
`agpsRead`, `astray`. Assumed: a module asks once for privacy and once for a
location per session and calls only until it completed the session; a client
uses a new session for each request and cancels its latest one; the PSY names
no module that is known but not loaded. There is one emergency at a time,
which is what the NRH supports (`privacyandlocationrequesthandler.cpp:273`);
with two, `EmergencyOnce` fails, as the slot of the first is overwritten.

Not modelled there: the cancel of the privacy controller, which only calls
the module; the standalone privacy mode; allocation failure in the buffers.

### PosMethods, AgpsManager

A method is the set of bits of its `TTechnologyType`. Read that way the five
combination tables are one rule (`LookUp`): a module that calculates and
measures at the same time does everything that is asked for, any other does
what the NRH wants unless the LS wants more of the same. A combination that is
not in the table of the module, or that an assertion of
`CalculatePositioningMethod` refuses, is `Fault`, and `fault` ends the process.

| Code | Here |
|---|---|
| `ProcessAnyOutstandingRequestL` of a request handler | `LocationRequest`, `LocationCancel`, `StatusAdvice` |
| `OnTimerEventL` of a request handler | `RequestTimeout`, `RestartTimeout`, with `TargetTimeComes` for the clock |
| `OnLocationRequestStateChanged`, `CombineLocationRequests`, `ConfigureGpsMode`, `CalculatePositioningMethod` | the operators of these names (`Combine`) |
| `UpdateLocation` of the module | `UpdateLocation`, with `ErrorUpdate`, `AccuratePosition`, `PartialPosition` |
| `RequestAssistanceData` of the module | `RequestInNewSession`, `RequestAssistanceData` |
| `OnSessionComplete`, `OnAssistanceDataResponse` | `OnSessionComplete`, `OnAssistanceDataError` |
| `SendOrQueueMessage`, `QueueMessage`, `RunL` of the gateway handler | `Send`, `QueueMessage`, `MessageRead` |
| tracking timer, power advice, early completion, close-down | `TrackingTimeout`, `OnPowerModeAdvice`, `EarlyCompletion`, `OnProcessCloseDown` |

`req` holds for each channel the state of the handler and what its last
message asked for. `line` is the message being sent with the queue behind it;
`gateway` what the gateway has read and which sessions it may still complete.
An update of the module is its status, whether it brings a position and usable
measurements, and which requests the position is good enough for. `owed` is a
history variable: the LS waits for its request to end.

A second cancel in a row is ignored by the code (`iLastRequestWasCancel`),
unless a status came between: the model takes it for either. Left out:
accuracy and fix times (an active request always has time left), the
assistance data itself, device status, the clock adjustment, `Shutdown`, which
ends the process.

What the model shows of the code, without a comment it would contradict:

* `iNotify` stays set when the session of a futile position ends busy or with
  an error. From then on every request of the LS is dropped while the module
  measures (line 1243); `LsNeverForgotten` excepts this.
* The completion of a session that was replaced resets `iCurrentNetworkMode`,
  and if busy it ends the request that waits for its successor (line 923).
* In the preferred terminal assisted mode a session that fails leaves
  `iLSReqState` as if it were open (lines 954-959).
* Power held back for the other channel is not sent later: if the NRH asked
  for on, the LS for standby and then the NRH for off, the module stays on.
* After a close-down a session that ends busy makes the manager ask the closed
  module for a position.
* `QueueMessage` says at line 330 of the gateway handler that a cancel is not
  sent twice; an old client that asks and cancels twice within a session
  sends it twice, which a debug build takes for a panic.

### ProtocolMachines, ProtocolModule

A machine leaves its state in one run of its active object and enters the next
in another, and anything may be called between them. A record holds what
`CStateMachineBase` and its subclasses keep for one machine; the operators of
`ProtocolMachines` take it and give it back, and those of `ProtocolModule` go
from world to world as in `PrivLoc`.

| Code | Here |
|---|---|
| `StateTransition`, `PostStateTransition` of the four machines | `OriginatedTransition`, `MtLrTransition`, `Transitory` |
| `EntryActions`, `ExitActions` of the four handlers | `EnterOriginated`, `EnterMtLr`, `ExitState` |
| `RunL`, `CheckForQueuedRequest` | `Run` with `ExitState`, `EnterState`, `AssistActions`, `CheckQueue` |
| `CancelMachine`, `LocationResp`, `PrivacyResp`, `SessionResult`, `MeasurementControlInd` ... of a machine | the operators of these names; `Forward` for the queue |
| `OnTimerEventL` | `Timeout` |
| `SelfLocationReq` ... `ResetAssistanceData` of the manager | the actions of these names; `LocationAnswered`, `PrivacyAnswered` for the responses of LBS |
| `ResolveConflict`, `ConflictDecision`, `ProcedureCompleteInd` | the operators of these names; `Decision` is the table of `group/10281D6F.txt` |

MO-LR, X3P and the network based location differ in a state or two and share
`OriginatedState`. The entries of a queue are all served alike, by a
transition, so that `pending` is their number. Of the assistance data it is kept
whether some are missing and whether they were asked for. A request for them,
alone or with a self location, may add what is missing, add nothing new, or
have a mask that is entirely invalid; the active machine is woken for the
first two alike. History
variables: `lbs`, `locAsked`, `privAsked`, `located`, `answer` say what LBS
has opened, been asked and answered, `sent` what the last step told the
network. Whether a request of the network is an emergency is read from a
property of the network simulator and chosen freely. Assumed of LBS: it has one
self location and one network based session open at a time, and X3P ones only
of rising priority; it answers a location request after the privacy request of
the same session, and with a position only if it did not reject that.

What the model shows of the code:

* An MT-LR cancelled before LBS has answered tells the network what LBS
  answered the request before it (`iPrivacyResp` is never reset). `Consent`
  excepts exactly this, by `StaleAnswer`.
* Entries that a procedure leaves in its queue move the next one on, or start
  one on an idle machine. A behaviour is followed up to there (`leftover`).
* A procedure ends unless it stalls in one of three ways (`Stalled`): the
  machine was only woken for assistance data and sleeps on a cancel or on its
  queue; MO-LR waits for a result although LBS answered with an error and the
  network got no position; MT-LR waits for a response of LBS in
  `EStateClientSessToCloseWaitLocResp`, which has no timer. A measurement
  control error stops the timer of an MT-LR request that waits for the privacy
  answer, so that only that answer ends the wait.
* A cancel between the two runs of the transition out of the last state makes
  LBS get the completion of the session twice.
* A measurement control that comes before the request was sent does not stop
  the timer of the request, which is started after it. The assistance data
  timer is not stopped when a procedure ends, and times out the next one.
* A queued emergency runs without its priority, and a queued session is
  overwritten by the next one that is queued on the same machine. X3P of low
  priority that a tracking client holds back waits although nothing runs,
  until the next procedure ends (so `SessionHeld` says it only of the others).

Left out: the content of the assistance data, sends that fail, what the
network is told when there is no position, the service status.

## Runs

| Run | Shows |
|---|---|
| `channel` | under every cancel and reopening: messages are never repeated or reordered, no send waits for ever unless the receiver closes for good, and the two properties implement `Mailbox`; until the first of those: delivery in order and once, completion only after reading, no overwriting, every accepted message completed |
| `channel_lost_cancel` (violation) | the SUPL PSY cancels a send and sends a cancel message at once: the acknowledgement of the first completes the second unread, against `lbsnetinternalapi.cpp:148` |
| `privloc_pair` | an MT and an NI session with all their events, a controller that cancels in any state among them: consent, answers, release, timer, AGPS request against state, the controller's view |
| `privloc_emergency` | every session, the emergency first, is served in a mode that answers what it asked for, and an emergency is refused neither by a full list nor by a clash, with takeover of its state machine |
| `privloc_liveness` | every privacy request is decided, every wait for a position ends |
| `privloc_replaced` (violation) | a replaced self location session leaves its AGPS request, which points into the deleted state machine, although the comment at `privacyandlocationrequesthandler.cpp:556` says it is completed |
| `privloc_always_verify` (violation) | the timeout trusts the network for an always-verify session, because a later request has reset `iAlwaysVerify`, against the comment at `privacyhandler.cpp:1628` |
| `gateway` | what the gateway is told is read once and in order, an emergency may only overtake, the AGPS manager's knowledge is never older than what waits for it, a privacy request is passed on or rejected, cancels reach the module that has the session, one set of modules is loaded, everything is read in the end |
| `gateway_unregistered` (violation) | a session the NRH works on is completed while the phone is not registered, and the completion is dropped, against the comment at `netgateway.cpp:582` |
| `agps_manager` | while a request is active the module works for it, in a method and with the power it needs; every request of the LS ends with a publication, its timer or a cancel; the gateway hears of a cancel after its request, of every session, and of the last state of tracking |
| `agps_manager_fault` (violation) | an old client asks for autonomous positioning while a session runs in both methods: the method of the session is taken as its own, and no table has an entry for it, against the assertion at `lbsmanagermainlogic.cpp:1612` |
| `protocol_module` | one procedure runs and the manager knows which; an open session runs, is queued behind something that runs or was replaced; the network is told of consent and of positions only what LBS gave; every procedure ends but for the stalls named above |

Bounds. `MaxSend` is 4: a message in flight, the next one waiting behind it
and one sent after an end was cancelled or reopened; `MaxRefused` 1 bounds the
sends refused while one is outstanding. Two sessions suffice where sessions
meet in pairs: at the timer, the flag, the list and the combined mode; the
others in `privloc_emergency` fill the list or take the other mode, of the
device or of the emergency. `TwoMT` gives an MT session a second location
request, which meets the state the first left. The runs differ in
configuration constants that the code reads once at start.

In `agps_manager` a behaviour has one of four budgets: two requests of the LS,
one of the NRH and two sessions, so that a session meets the requests of its
successor and the queue holds a message of each kind; a request that is put
off; a close-down; four pieces of power advice, of any mode including that to close. The module does two things at
a time, which has the largest table; LS requests are autonomous or terminal
assisted, NRH requests terminal based, so that each combination differs from
both. The other tables are covered by the theorems about `LookUp`.

In `gateway` each
behaviour has the sessions of one scene: an emergency and a session it
overtakes; two self locations; two of the PSY; one each of a module, X3P and
the network location manager. Clients and modules share only the channels,
so that two or three sessions meet there. `MaxCalls` is 5: registration, a
message in the channel, one behind it, an emergency request ahead of that and
a completion; 4 with self locations, where assistance data takes a direct
message, two that wait and one after. Of two kinds of assistance data
(`ItemCount`), `Masks` has none, one and both. The module `b` belongs to both
networks and `r` may fail to load.

In `protocol_module` a behaviour has one of sixteen scenes: which sessions of
LBS occur, and how many requests, measurement controls and troubles (errors,
cancels) of the network, changes of tracking and requests for assistance
data there are. Conflicts are between two procedures, so that each pair of kinds of
procedure that can conflict has a scene, and each with a measurement control
that may come too early, too late or unasked, where an error or a second one
fits. A queue gets at most as many entries as there are responses, so that its
limit of five is not reached.

Deadlock is not checked where the bounds end the behaviours.

Fairness. In `NetChannel` the steps inside a call that was begun and the
monitor that has been signalled are weakly fair: the kernel runs both threads.
Nothing makes a receiver open, for the first time or again, and nothing makes
an end use the channel. A send to a receiver that closes for good while the
message is unread therefore waits for ever, and with it the thread of
`CancelLocationRequest` (`lbssuplpsyadaptation.cpp:145`): `SendEnds` excepts
that case and no other. In `PrivLoc` only
the two timers are: `StartResponseTimer` sets an absolute time from the
start of the earliest waiting request, so restarting it does not postpone it,
and the location timer is a kernel timer. Nothing is assumed of the network,
the controller or the AGPS manager. In `NetGateway` the active objects of the
gateway's thread and the readers of its channels are weakly fair: both sit in
active schedulers, and a reader always subscribes again. In `ProtocolModule`
the runs of the machines, the timers and the privacy answers of LBS are weakly
fair, the last because the NRH decides every request (`PrivacyIsDecided`). The
three are written out as WF's definition, with the condition under which the
action is enabled in place of ENABLED, which TLC would evaluate anew for each.

## Proofs

`NetChannel_proof`, for any number of messages and every way the ends use the
channel: types, `NeverRepeatedNorReordered`, and the refinement of `Mailbox`
(`ChannelImplementsMailbox`), which may lose a message only after the channel
was disturbed; until it is, also `DeliveredInOrder`, `CompletedMeansRead` and
`PublishAfterCompletion`. The invariant has two layers. The first holds
always and relates, for each place in the sender's and the receiver's code,
the subscriptions and the numbers of the messages sent, copied and delivered.
The second holds while `calm` does: the flag is 1 exactly while a message is
on its way, which is what makes the check in `SendMessage` sufficient.

`AgpsInterface_proof`, for the operations of `AgpsRequests` in any order, any
finite set of sessions, limit, device and default mode: the combined mode is well formed and within the device
(`TypeOK`, `DeviceAble`), it is set exactly while the AGPS manager works
(`RunningInvariant`), it answers the active emergency if there is no other,
and everybody when there is none (`ActiveIsServed`), and the list is bounded (`ListBounded`).
The lemmas about the tables are in `AgpsRequests_proof` (a combined mode is a
mode, answers the new request and keeps answering the old ones); then there is
one lemma per operation. Of several emergencies the latest prevails, but the
code has one emergency state machine and the request on the list points into
it. The module has no run of its own: `privloc_emergency` and `privloc_pair`
check the same operations in the order in which the code calls them.

`PosMethods_proof`, for a module of any capability: the lookup in the tables
fails exactly for a method of the LS that no request may ask for, which is
what `agps_manager_fault` runs into (`LookUpFinds`); what it finds gives the
NRH everything, and the LS too if the module can do both (`LookUpServes`); and
it is a method the module can be set to (`LookUpIsSettable`).

`PrivLoc_proof`, for any finite set of sessions of every type, any limits,
settings, device and profile, every property of `privloc_pair` and
`privloc_emergency`. A step calls operators from world to world, and so do the
proofs: `Inv` says that the world between two events is in order (`Sound`), and
for each call there is a lemma about what it needs and keeps. What is in order
has three parts:

* the buffer of privacy requests (`BufferOK`): every session that waits for an
  answer has a request that waits, the first request of every session the
  controller knows is one whose end it will be told, no request is of a session
  that may still get a state machine, and a request that waits is the first of
  its session or the timer rejects it. The last is what the one timer rests
  on: `OnTimerEventL` takes the first request that waits, and an answer that
  ends its session removes the first request of that session, which may not be
  the one that was answered (`SetState`, from the world before the call);
* each session (`Local`): what `Consent`, `RepliesMatch` and the AGPS list say of
  it in its state, and in the states on the way;
* what sessions share (`Shared`): at most one emergency has the emergency state
  machine, the counter is the number of sessions that were counted, an active
  request runs the AGPS manager, and its mode serves every session that waits.

Within a step the session that is being served is the only one out of order, and
the calls say how far (`Almost`, `Ready`, `Asking`). `TypeOK`, `Consent`,
`TimerCovers` and `ModeServes` hold without a condition. The others need what
the runs that check them have too, and what the code does not secure itself:
`OneEmergency`, because a second emergency takes over the state machine of the
first with what was owed to it; for
`Released` `NoneReplaced`, which is what `privloc_replaced` runs into; for
`LocatingIsActive` also `QualityKnown`, because a session that is denied for
want of a profile goes to Idle and leaves its request active, unless it is external;
for `EmergencyNeverRefused` a device that can do both modes.

`NetGateway_proof`, for any modules, sessions and kinds of assistance data and
any number of calls. `ChannelInv` has the types, which messages each channel
may hold, and that what the AGPS manager will have read last of each item
(`Known`, over what it read, the channel and what waits) is what the gateway was
given last: `AgpsUpToDate`. `RouteInv` follows the latest session of each client
to the module that has it: `CancelsReachTheirModule`. `PrivacyRequestKept` is
inductive with the types. `OneSetLoaded` follows from `LoadInv`, where the first module
of each network loads or the modules that may fail serve both
(`FirstModulesLoad`): otherwise a failed load leaves the modules of the old network
loaded. `OrderInv` says of every session but emergencies that the messages
sent to the NRH are those it read, then the one in the channel, then those in the
buffers: `InOrder`. For emergencies, which overtake the others, what waits is
looked at as one queue (`Waits`): a send puts a message in somewhere, a read takes the
first, and that `RunL` moves one into the channel changes nothing. `OnceInv`
says of each emergency what of it waits and that its completion comes last: `EmergencyOnce`.
It rests on a module making no second request of a kind before the
first was answered, so that the slot of that kind is free. `OneEmergencyAtATime`
is the condition, at most one emergency among the sessions that occur
together, which is what the NRH supports: the gateway has one slot for each
kind of request, and a second emergency would overwrite what waits of the first.

`AgpsManager_proof`, for a module of any capability and any number of requests,
sessions and messages, every property of `agps_manager`, and that the queue to
the gateway never needs more than its four buffers (`QueueNeverRunsOver`),
although `Write` takes a buffer without asking whether one is free. `Base`
holds of every world within a step, `Served` of those in which the requests have
been combined, and a step that fails an assertion stops in the world it began in.
The queue has an invariant of its own: at most one message of each type waits,
what waits about sessions and tracking is the latest, and a cancel waits
behind its request. That the method is one the module has and serves both
sides rests on `LookUpFinds` and `LookUpServes`.

`ProtocolModule_proof`, for any sessions, kinds and priorities and anything that
may come: `TypeOK`, `OneProcedure`, `SessionHeld` and `Consent`. Inside a machine
a measurement control, a privacy answer and a location response look the same:
each moves it on, or leaves an entry in its queue. That a machine never takes one
for another has to be counted. `Load` is the number of responses a machine has
had and not acted on, and `Fit` says for each state which these are (`Asks` for
the machines that ask the network, `Serves` and `Due` for the one that serves
it), which timers run, and what LBS and the network are waiting for meanwhile.
The invariant `Inv` has these parts:

* always (`Sound`, `Known`, `Held`, `Follows`): types; at most one machine is
  not ready, and `iCurrentOp` is its procedure; a session LBS waits for runs, is
  queued or was taken over, and what is queued waits for something that runs; a
  session that is to come was asked nothing; a stored consent was once given;
* until a procedure leaves entries in its queue (`leftover`): every machine is
  `Fit`, and there are ids for what may come (`Room`). From there on the entries
  move the next procedure on, and the model follows no further;
* what the last step told the network LBS has answered (`Consent`).

As for `PrivLoc`, the operators go from world to world and have a lemma each,
and within a step only the machine that is served is out of order.
`ProtocolModuleAssumption` asks that the ids the module makes differ from each
other and from those of LBS, and suffice: in the code they come from a counter
under the module's own uid. From `Fit` follows too that the queue of a procedure
that is not cancelled is never full (`QueueNeverFull`); the machines ignore the error
a full queue would return.

Every safety invariant and action property of the passing runs is stated by one of these
theorems. Only model-checked is liveness: `AcceptedIsCompleted`, `SendEnds`,
`PrivacyIsDecided`, `LocatingEnds`, `EverythingIsRead` and `ProcedureEnds` need
ENABLED and fairness, about which the provers here cannot reason.

## Not modelled, and the plan

Next, in this order:

1. the message switch of the NRH, the other end of the gateway's channel, and
   the composition of both ends;
2. the privacy notifier handler, as the other half of `privacyhandler.cpp`;
3. the X3P handler and its queue;
4. the location server's shared positioners.

The two parts of the AGPS manager and the NRH are checked apart: `PrivLoc`
takes any position at any time, and `AgpsManager` any request.

Left out for good: marshalling, logging, generated ASN.1 code, drivers,
simulations, user interface, tests.
