----------------------------- MODULE NetGateway -----------------------------
(***************************************************************************)
(* The network gateway (CNetworkGateway): it loads protocol modules by     *)
(* network registration, passes what they say to the network request       *)
(* handler (NRH), the AGPS manager, the network location manager and the   *)
(* SUPL PSY, and passes requests, cancels and responses of these to the    *)
(* protocol module of the session.                                         *)
(*                                                                         *)
(* A session belongs to a protocol module, which then starts it (MT-LR and *)
(* NI-LR), or to a client on the terminal: "self" is the AGPS manager,     *)
(* "net" the network location manager, "psy" the SUPL PSY and "x3p" the    *)
(* NRH.  The protocol modules, the clients and the NRH are environment:    *)
(* they may do at any time what the interface allows them to do once.      *)
(* Logging, the location monitor and the positions themselves are left     *)
(* out, and so is the standalone privacy mode, in which there are no AGPS  *)
(* and network location channels.                                          *)
(***************************************************************************)
EXTENDS GatewayChannels, FiniteSets

CONSTANTS
    Module,         \* protocol modules, those of iModules
    Home, Roaming,  \* the modules configured for either network
    HomePm,         \* iHomePmUid, the first of the home modules
    RoamingPm,      \* iRoamingPmUid
    NetSession,     \* sessions of protocol modules
    Owner,          \* the module of each of them
    Emergency,      \* those of them that are emergencies
    SetSession,     \* sessions of clients on the terminal
    Client,         \* the client of each of them
    Masks,          \* items of assistance data that come together
    Broken,         \* modules that may fail to load
    Scenes,         \* the sets of sessions that occur together
    MaxCalls        \* calls of the environment where each of them occurs

Session == NetSession \union SetSession
ClientKind == {"self", "net", "psy", "x3p"}
Reason == {"ok", "error"}
Strategy == {"all", "by_status"}

\* The messages to the NRH and the PSY.
SessionMessage ==
    [type : {"privacy", "location", "update", "complete"}, session : Session,
     n : Nat, emergency : BOOLEAN]

ASSUME GatewayAssumption ==
    /\ Home \subseteq Module /\ Roaming \subseteq Module
    /\ HomePm \in Home /\ RoamingPm \in Roaming
    /\ Broken \subseteq Module
    /\ Masks \subseteq SUBSET Item
    /\ Scenes \subseteq SUBSET Session
    /\ MaxCalls \in [Scenes -> Nat]
    /\ Owner \in [NetSession -> Module]
    /\ Client \in [SetSession -> ClientKind]
    /\ Emergency \subseteq NetSession
    /\ NetSession \intersect SetSession = {}
    /\ None \notin Module \union Session \union Reason
    /\ None \notin SessionMessage /\ None \notin AgpsMessages(Reason, SetSession)

VARIABLES
    strategy,   \* iLoadInfo.LoadingStrategy()
    status,     \* iRegistrationStatus
    loaded,     \* modules whose ProtocolModule() is not NULL
    moduleFor,  \* iModuleForSession, for the clients on the terminal
    reject,     \* the session iRejectPrivacyRequest will reject, or None
    nrh,        \* iNetworkRequestChannel
    agps,       \* iAgpsChannel
    psy,        \* iPSYChannel
    \* The environment.
    scene,      \* the sessions that occur
    current,    \* the latest session of each client
    given,      \* the module that was given the request of the session
    asked,      \* sessions with a privacy request
    answered,   \* those of them whose module got the answer
    locating,   \* sessions whose module waits for a location response
    due,        \* requests the NRH has read and not answered
    closed,     \* sessions their module, or the gateway, completed
    told,       \* client sessions whose completion the client was given
    calls,
    \* What was sent to the NRH and read, and what the AGPS manager knows.
    sent,       \* messages sent to the NRH for each session, numbered
    readLog,    \* the numbers read, in order
    agpsSent,   \* the latest completion, error without items and result of
                \* each item that were given to the AGPS channel
    agpsRead,   \* the same, as the AGPS manager read it
    astray      \* calls made on a module that was not given the session

fixed == <<strategy, scene>>
gateway == <<fixed, status, loaded, moduleFor, reject>>
channels == <<nrh, agps, psy, sent, agpsSent>>
readers == <<readLog, agpsRead, due, told>>
world == <<current, given, asked, answered, locating, closed, astray>>
vars == <<gateway, channels, readers, world, calls>>

News ==
    [complete : SetSession \union {None}, generic : Reason \union {None},
     items : [Item -> Reason \union {None}]]

\* Results of the items of a mask, added to what was known.
AddResult(news, mask, reason) ==
    IF mask = {} THEN [news EXCEPT !.generic = reason]
    ELSE [news EXCEPT
             !.items = [i \in Item |-> IF i \in mask THEN reason ELSE @[i]]]

Init ==
    /\ strategy \in Strategy
    /\ status = "none"
    /\ \E failed \in SUBSET Broken :
           loaded = IF strategy = "all" THEN Module \ failed ELSE {}
    /\ moduleFor = [k \in ClientKind |-> None]
    /\ reject = None
    /\ nrh = RequestChannel /\ agps = AgpsChannel /\ psy = PsyChannel
    /\ scene \in Scenes
    /\ current = [k \in ClientKind |-> None]
    /\ given = [s \in SetSession |-> None]
    /\ asked = {} /\ answered = {} /\ locating = {} /\ due = {}
    /\ closed = {} /\ told = {} /\ astray = {} /\ calls = 0
    /\ sent = [s \in Session |-> 0]
    /\ readLog = [s \in Session |-> <<>>]
    /\ agpsSent = [complete |-> None, generic |-> None,
                   items |-> [i \in Item |-> None]]
    /\ agpsRead = agpsSent

-----------------------------------------------------------------------------
(* Helpers of the handlers                                                 *)

\* A call of the environment.  The rejection runs at high priority, before
\* any other event of the gateway's thread.
Call ==
    /\ reject = None
    /\ calls < MaxCalls[scene]
    /\ calls' = calls + 1

DefaultPm ==
    LET pm == CASE status = "home" -> HomePm
                [] status = "roaming" -> RoamingPm
                [] status = "none" -> None
    IN IF pm \in loaded THEN pm ELSE None

ValidPm(m) ==
    /\ m \in loaded
    /\ \/ status = "home" /\ m \in Home
       \/ status = "roaming" /\ m \in Roaming

FindOriginalPMFromID(s) ==
    IF s \in SetSession THEN moduleFor[Client[s]]
    ELSE IF Owner[s] \in loaded THEN Owner[s] ELSE None

\* The module that works on a session.
ModuleOf(s) == IF s \in NetSession THEN Owner[s] ELSE given[s]

IsClient(s, k) == s \in SetSession /\ Client[s] = k

Message(s, type) ==
    [type |-> type, session |-> s, n |-> sent[s] + 1,
     emergency |-> s \in Emergency]

ToNrh(s, type) ==
    /\ nrh' = SendNetRequestMessage(nrh, Message(s, type))
    /\ sent' = [sent EXCEPT ![s] = @ + 1]

ToAgpsData(ch, mask, reason) ==
    /\ agps' = SendAssistanceDataResponse(ch, mask, reason)
    /\ agpsSent' = AddResult(agpsSent, mask, reason)

\* ProcessSessionComplete once the caller's module is known to be valid.
SessionCompleted(s) ==
    /\ closed' = closed \union {s}
    /\ ToNrh(s, "complete")
    /\ psy' = IF IsClient(s, "psy")
              THEN SendNetworkResponse(psy, Message(s, "complete")) ELSE psy
    /\ UNCHANGED told

\* Mutant: completions of all sessions are sent to the AGPS manager.
SelfCompletedAlways(ch, s) ==
    /\ agps' = SendSessionComplete(ch, s)
    /\ agpsSent' = [agpsSent EXCEPT !.complete = s]

SelfCompleted(ch, s) ==
    /\ agps' = IF IsClient(s, "self") THEN SendSessionComplete(ch, s) ELSE ch
    /\ agpsSent' = [agpsSent EXCEPT
                       !.complete = IF IsClient(s, "self") THEN s ELSE @]

-----------------------------------------------------------------------------
(* Calls of a protocol module (MLbsNetworkProtocolObserver)                *)

\* A module makes calls about its sessions until it has completed them.
Working(s) ==
    /\ s \in scene
    /\ ModuleOf(s) \in loaded
    /\ s \notin closed

\* Mutant: the request of a module that is not valid is silently ignored.
ProcessPrivacyRequestIgnores(s) ==
    /\ Call
    /\ s \in NetSession \ asked
    /\ Working(s)
    /\ asked' = asked \union {s}
    /\ IF ValidPm(Owner[s]) THEN ToNrh(s, "privacy") ELSE UNCHANGED <<nrh, sent>>
    /\ UNCHANGED <<gateway, agps, psy, agpsSent,
                   readers, current, given, answered, locating, closed, astray>>

ProcessPrivacyRequest(s) ==
    /\ Call
    /\ s \in NetSession \ asked
    /\ Working(s)
    /\ asked' = asked \union {s}
    /\ IF ValidPm(Owner[s])
       THEN ToNrh(s, "privacy") /\ UNCHANGED reject
       ELSE reject' = s /\ UNCHANGED <<nrh, sent>>
    /\ UNCHANGED <<fixed, status, loaded, moduleFor, agps, psy, agpsSent,
                   readers, current, given, answered, locating, closed, astray>>

ProcessLocationRequest(s) ==
    /\ Call
    /\ Working(s)
    /\ s \notin locating
    /\ s \in asked => s \in answered
    /\ locating' = locating \union {s}
    /\ IF ValidPm(ModuleOf(s))
       THEN ToNrh(s, "location")
       ELSE UNCHANGED <<nrh, sent>>
    /\ UNCHANGED <<gateway, agps, psy, agpsSent, readers, current, given,
                   asked, answered, closed, astray>>

ProcessLocationUpdate(s) ==
    /\ Call
    /\ Working(s)
    /\ ValidPm(ModuleOf(s))
    /\ psy' = IF IsClient(s, "psy")
              THEN SendNetworkResponse(psy, Message(s, "update")) ELSE psy
    /\ IF IsClient(s, "self")
       THEN UNCHANGED <<nrh, sent>>
       ELSE ToNrh(s, "update")
    /\ UNCHANGED <<gateway, agps, agpsSent, readers, world>>

ProcessSessionComplete(s) ==
    /\ Call
    /\ Working(s)
    /\ s \in NetSession => s \in asked \union locating
    /\ IF s \in NetSession /\ ~ValidPm(Owner[s])
       THEN /\ closed' = closed \union {s}
            /\ UNCHANGED <<channels, told>>
       ELSE SessionCompleted(s) /\ SelfCompleted(agps, s)
    /\ UNCHANGED <<gateway, readLog, agpsRead, due, current, given, asked,
                   answered, locating, astray>>

\* Assistance data is of interest where the AGPS manager has sessions.
SelfScene == \E s \in scene : IsClient(s, "self")

\* An error may come without items, data may not.
ProcessAssistanceData(mask, reason) ==
    /\ Call
    /\ SelfScene
    /\ loaded # {}
    /\ mask = {} => reason = "error"
    /\ ToAgpsData(agps, mask, reason)
    /\ UNCHANGED <<gateway, nrh, psy, sent, readers, world>>

\* CRejectPrivacyRequestCallback::RunL.
RejectPrivacyRequest ==
    /\ reject # None
    /\ answered' = answered \union {reject}
    /\ reject' = None
    /\ UNCHANGED <<fixed, status, loaded, moduleFor, channels, readers,
                   current, given, asked, locating, closed, astray, calls>>

-----------------------------------------------------------------------------
(* Requests and cancels of clients on the terminal                         *)

\* A client uses a new session for each request.  Only the X3P handler
\* waits for the previous one to end.
NewSession(s, k) ==
    /\ Call
    /\ IsClient(s, k)
    /\ s \in scene
    /\ given[s] = None /\ s \notin closed
    /\ k = "x3p" => current[k] \in told \union {None}
    /\ current' = [current EXCEPT ![k] = s]

\* RequestSelfLocation, RequestNetworkLocation or RequestTransmitLocation of
\* the module, which is remembered for the client.
Request(s, m) ==
    /\ moduleFor' = [moduleFor EXCEPT ![Client[s]] = m]
    /\ given' = [given EXCEPT ![s] = m]

OnSelfLocationRequest(s) ==
    /\ NewSession(s, "self")
    /\ Request(s, DefaultPm)
    /\ IF DefaultPm # None
       THEN UNCHANGED <<channels, closed, told>>
       ELSE /\ SessionCompleted(s)
            /\ \/ SelfCompleted(agps, s)    \* autonomous
               \/ /\ agps' = SendSessionComplete(
                         SendAssistanceDataResponse(agps, {}, "error"), s)
                  /\ agpsSent' = [agpsSent EXCEPT !.generic = "error",
                                                  !.complete = s]
    /\ UNCHANGED <<fixed, status, loaded, reject, readLog, agpsRead, due,
                   asked, answered, locating, astray>>

NetworkLocationRequest(s) ==
    /\ NewSession(s, "net")
    /\ Request(s, DefaultPm)
    /\ IF DefaultPm # None
       THEN UNCHANGED <<channels, closed, told>>
       ELSE SessionCompleted(s) /\ UNCHANGED <<agps, agpsSent>>
    /\ UNCHANGED <<fixed, status, loaded, reject, readLog, agpsRead, due,
                   asked, answered, locating, astray>>

TransmitLocationRequest(s) ==
    /\ NewSession(s, "x3p")
    /\ Request(s, DefaultPm)
    /\ IF DefaultPm # None
       THEN UNCHANGED <<channels, closed, told>>
       ELSE SessionCompleted(s) /\ UNCHANGED <<agps, agpsSent>>
    /\ UNCHANGED <<fixed, status, loaded, reject, readLog, agpsRead, due,
                   asked, answered, locating, astray>>

\* The SUPL PSY names the module; one that is known and not loaded would be
\* called through NULL (the PSY is assumed to know).  Without a module in
\* the list moduleFor keeps its value.
PsyLocationRequest(s, m) ==
    /\ NewSession(s, "psy")
    /\ m \in loaded \union {None}
    /\ IF m # None
       THEN Request(s, m) /\ UNCHANGED <<channels, closed, told>>
       ELSE SessionCompleted(s) /\ UNCHANGED <<moduleFor, given, agps, agpsSent>>
    /\ UNCHANGED <<fixed, status, loaded, reject, readLog, agpsRead, due,
                   asked, answered, locating, astray>>

\* A call on a module, noted where the module was not given the session.
CallModule(m, s, what) ==
    astray' = IF m # None /\ m # ModuleOf(s)
              THEN astray \union {<<what, s>>} ELSE astray

\* Mutant: the cancel goes to the module of the network in use.
CancelDefault(k) ==
    /\ Call
    /\ current[k] # None
    /\ current[k] \notin told
    /\ CallModule(DefaultPm, current[k], "cancel")
    /\ UNCHANGED <<gateway, channels, readers, current, given, asked, answered,
                   locating, closed>>

\* OnSelfLocationCancel and the cancels of the other clients: the client
\* cancels its latest session, unless it knows that it is complete (when the
\* network location manager learns it from its property is left open).
Cancel(k) ==
    /\ Call
    /\ current[k] # None
    /\ current[k] \notin told
    /\ CallModule(moduleFor[k], current[k], "cancel")
    /\ UNCHANGED <<gateway, channels, readers, current, given, asked, answered,
                   locating, closed>>

\* With a module all loaded modules are asked, without one the request fails.
OnAssistanceDataRequest(mask) ==
    /\ Call
    /\ SelfScene
    /\ DefaultPm = None
    /\ mask # {}
    /\ ToAgpsData(agps, mask, "error")
    /\ UNCHANGED <<gateway, nrh, psy, sent, readers, world>>

-----------------------------------------------------------------------------
(* Responses of the NRH (ProcessNetRequestMessage)                         *)

LocationResponse(s) ==
    /\ reject = None
    /\ <<"location", s>> \in due
    /\ due' = due \ {<<"location", s>>}
    /\ LET m == FindOriginalPMFromID(s)
       IN /\ CallModule(m, s, "response")
          /\ locating' = IF m = ModuleOf(s) THEN locating \ {s} ELSE locating
    /\ UNCHANGED <<gateway, channels, readLog, agpsRead, told, current, given,
                   asked, answered, closed, calls>>

PrivacyResponse(s) ==
    /\ reject = None
    /\ <<"privacy", s>> \in due
    /\ due' = due \ {<<"privacy", s>>}
    /\ LET m == FindOriginalPMFromID(s)
       IN /\ CallModule(m, s, "privacy")
          /\ answered' = IF m = ModuleOf(s) THEN answered \union {s} ELSE answered
    /\ UNCHANGED <<gateway, channels, readLog, agpsRead, told, current, given,
                   asked, locating, closed, calls>>

-----------------------------------------------------------------------------
(* Network registration, and the events of the channels                    *)

\* Mutant: each network looks for its own module.
OtherSetLoadedSwapped(new) ==
    /\ strategy = "by_status"
    /\ \/ new = "home" /\ HomePm \in loaded
       \/ new = "roaming" /\ RoamingPm \in loaded

\* Loading by status, a set of modules that is loaded stays.
OtherSetLoaded(new) ==
    /\ strategy = "by_status"
    /\ \/ new = "home" /\ RoamingPm \in loaded
       \/ new = "roaming" /\ HomePm \in loaded

Configured(new) ==
    CASE new = "home" -> Home [] new = "roaming" -> Roaming [] new = "none" -> {}

OnNetworkRegistrationStatusChange(new) ==
    /\ Call
    /\ status' = new
    /\ \E failed \in SUBSET Broken :
           loaded' = IF OtherSetLoaded(new) THEN loaded
                     ELSE loaded \union (Configured(new) \ failed)
    /\ UNCHANGED <<fixed, moduleFor, reject, channels, readers, world>>

NrhReads ==
    /\ nrh.unread # None
    /\ LET m == nrh.unread
       IN /\ readLog' = [readLog EXCEPT ![m.session] = Append(@, m.n)]
          /\ due' = IF m.type \in EmergencyKind
                    THEN due \union {<<m.type, m.session>>} ELSE due
          /\ told' = IF m.type = "complete" /\ IsClient(m.session, "x3p")
                     THEN told \union {m.session} ELSE told
    /\ nrh' = [nrh EXCEPT !.unread = None]
    /\ UNCHANGED <<gateway, agps, psy, sent, agpsSent, agpsRead, world, calls>>

AgpsReads ==
    /\ agps.unread # None
    /\ LET m == agps.unread
       IN IF m.type = "complete"
          THEN /\ agpsRead' = [agpsRead EXCEPT !.complete = m.session]
               /\ told' = told \union {m.session}
          ELSE /\ agpsRead' = AddResult(agpsRead, m.mask, m.reason)
               /\ UNCHANGED told
    /\ agps' = [agps EXCEPT !.unread = None]
    /\ UNCHANGED <<gateway, nrh, psy, sent, agpsSent, readLog, due, world, calls>>

PsyReads ==
    /\ psy.unread # None
    /\ told' = IF psy.unread.type = "complete"
               THEN told \union {psy.unread.session} ELSE told
    /\ psy' = [psy EXCEPT !.unread = None]
    /\ UNCHANGED <<gateway, nrh, agps, sent, agpsSent, readLog, agpsRead, due,
                   world, calls>>

NrhRunL ==
    /\ reject = None
    /\ Acknowledged(nrh)
    /\ nrh' = RequestRunL(nrh)
    /\ UNCHANGED <<gateway, agps, psy, sent, agpsSent, readers, world, calls>>

AgpsChannelRunL ==
    /\ reject = None
    /\ Acknowledged(agps)
    /\ agps' = AgpsRunL(agps)
    /\ UNCHANGED <<gateway, nrh, psy, sent, agpsSent, readers, world, calls>>

PsyRunL ==
    /\ reject = None
    /\ Acknowledged(psy)
    /\ psy' = SendNextBufferedMessage(psy)
    /\ UNCHANGED <<gateway, nrh, agps, sent, agpsSent, readers, world, calls>>

ModuleCalls ==
    \/ \E s \in Session :
          \/ ProcessLocationRequest(s) \/ ProcessLocationUpdate(s)
          \/ ProcessSessionComplete(s)
    \/ \E s \in NetSession : ProcessPrivacyRequest(s)
    \/ \E mask \in Masks, reason \in Reason :
          ProcessAssistanceData(mask, reason)

ClientCalls ==
    \/ \E s \in SetSession :
          \/ OnSelfLocationRequest(s) \/ NetworkLocationRequest(s)
          \/ TransmitLocationRequest(s)
          \/ \E m \in Module \union {None} : PsyLocationRequest(s, m)
    \/ \E k \in ClientKind : Cancel(k)
    \/ \E mask \in Masks : OnAssistanceDataRequest(mask)

Responses ==
    \/ \E s \in Session : LocationResponse(s)
    \/ \E s \in NetSession : PrivacyResponse(s)

Next ==
    \/ ModuleCalls
    \/ ClientCalls
    \/ Responses
    \/ \E new \in {"none", "home", "roaming"} :
          OnNetworkRegistrationStatusChange(new)
    \/ RejectPrivacyRequest
    \/ NrhReads \/ AgpsReads \/ PsyReads
    \/ NrhRunL \/ AgpsChannelRunL \/ PsyRunL

\* The gateway's thread runs its ready active objects, and the receivers
\* read their channels.
Fairness ==
    /\ WF_vars(RejectPrivacyRequest)
    /\ WF_vars(NrhReads) /\ WF_vars(NrhRunL)
    /\ WF_vars(AgpsReads) /\ WF_vars(AgpsChannelRunL)
    /\ WF_vars(PsyReads) /\ WF_vars(PsyRunL)

Spec == Init /\ [][Next]_vars /\ Fairness

-----------------------------------------------------------------------------
(* Properties                                                              *)

\* What waits in the gateway or in the channel for the NRH, in the order in
\* which it will be read.
Outstanding ==
    (IF nrh.unread = None THEN <<>> ELSE <<nrh.unread>>)
    \o [i \in 1 .. Len(nrh.emergency) |-> nrh.slot[nrh.emergency[i]]]
    \o nrh.buffer

Mine(s) == {i \in DOMAIN Outstanding : Outstanding[i].session = s}
Waiting(s) == {Outstanding[i].n : i \in Mine(s)}

TypeOK ==
    /\ strategy \in Strategy
    /\ status \in {"none", "home", "roaming"}
    /\ loaded \subseteq Module
    /\ moduleFor \in [ClientKind -> Module \union {None}]
    /\ reject \in NetSession \union {None}
    /\ nrh \in RequestChannels(SessionMessage)
    /\ agps \in AgpsChannels(Reason, SetSession)
    /\ psy \in PsyChannels(SessionMessage)
    /\ current \in [ClientKind -> SetSession \union {None}]
    /\ given \in [SetSession -> Module \union {None}]
    /\ asked \subseteq NetSession /\ answered \subseteq asked
    /\ locating \subseteq Session /\ closed \subseteq Session
    /\ scene \subseteq Session
    /\ told \subseteq SetSession \intersect closed
    /\ sent \in [Session -> Nat]
    /\ readLog \in [Session -> Seq(Nat)]
    /\ due \subseteq EmergencyKind \X Session
    /\ agpsSent \in News /\ agpsRead \in News

\* The NRH reads every message of a session once, in the order in which the
\* gateway got them, whatever waits meanwhile; what it has not read waits.
InOrder ==
    \A s \in Session \ Emergency :
        /\ readLog[s] = [i \in 1 .. Len(readLog[s]) |-> i]
        /\ Waiting(s) = Len(readLog[s]) + 1 .. sent[s]
        /\ \A i, j \in Mine(s) : i < j => Outstanding[i].n < Outstanding[j].n

\* The requests of an emergency may overtake, but none of its messages is
\* lost or sent twice, and its completion overtakes none of the others.
EmergencyOnce ==
    \A s \in Emergency :
        LET read == {readLog[s][i] : i \in DOMAIN readLog[s]}
        IN /\ read \union Waiting(s) = 1 .. sent[s]
           /\ read \intersect Waiting(s) = {}
           /\ \A i, j \in DOMAIN readLog[s] : i # j => readLog[s][i] # readLog[s][j]
           /\ \A i, j \in Mine(s) :
                 i < j => /\ Outstanding[i].n # Outstanding[j].n
                          /\ Outstanding[i].type # "complete"

\* What the AGPS manager has read, then reads from the channel, and then
\* from the buffers is, for its sessions, for assistance data as a whole and
\* for each item, the latest there is.
AgpsUpToDate ==
    LET seen ==
            IF agps.unread = None THEN agpsRead
            ELSE IF agps.unread.type = "complete"
            THEN [agpsRead EXCEPT !.complete = agps.unread.session]
            ELSE AddResult(agpsRead, agps.unread.mask, agps.unread.reason)
        Latest(waiting, known) == IF waiting = None THEN known ELSE waiting
    IN agpsSent =
           [complete |-> Latest(agps.complete, seen.complete),
            generic |-> Latest(agps.generic, seen.generic),
            items |-> [i \in Item |-> Latest(agps.items[i], seen.items[i])]]

\* A privacy request is never dropped: it is answered, to be rejected, or
\* the NRH has it or will read it.
PrivacyRequestKept ==
    \A s \in asked :
        \/ s \in answered
        \/ reject = s
        \/ sent[s] > 0

\* The cancel of a session that a module was given goes to that module,
\* though the registration has changed since ("Always send message to the PM
\* with which we initiated the session").
CancelsReachTheirModule ==
    \A s \in SetSession : given[s] # None => <<"cancel", s>> \notin astray

\* Loading by status, modules of both networks are never loaded together
\* (where the first module of each network does not fail to load).
OneSetLoaded ==
    strategy = "by_status" => loaded \subseteq Home \/ loaded \subseteq Roaming

\* The completion of a session of which the NRH knows, that its module sends
\* while the phone is not registered, is sent on to the NRH ("could be
\* temporaily unregistered, so send on message in hope that phone will shortly
\* re-register").
CompletionSentOn ==
    [][\A s \in NetSession :
          status = "none" /\ sent[s] > 0 /\ s \in closed' \ closed
          => sent'[s] = sent[s] + 1]_vars

\* Everything that is sent is read in the end, although new messages go
\* ahead of those that wait.
Drained ==
    /\ Outstanding = <<>>
    /\ psy.unread = None /\ psy.buffer = <<>>
    /\ agps.unread = None /\ agps.complete = None
    /\ agps.generic = None /\ Valid(agps) = {}
    /\ reject = None
EverythingIsRead == []<>Drained
=============================================================================
