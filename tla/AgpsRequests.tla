---------------------------- MODULE AgpsRequests -----------------------------
(***************************************************************************)
(* CAgpsInterfaceHandler: the list of location requests the sessions of    *)
(* the network request handler have with the AGPS manager, and the one     *)
(* combined request that is sent to it.  Each operation of the handler is  *)
(* a function from the handler's state to its next state, so that the      *)
(* modules that call it can do so in the middle of a step of their own.    *)
(*                                                                         *)
(* A GPS mode is the set of its parts: {} is EGpsRequestModeUnknown and    *)
(* {"tb", "ta"} is EGpsRequestModeHybrid.  Power advice and the numbers of *)
(* the quality parameters are left out.                                    *)
(***************************************************************************)
EXTENDS Integers, FiniteSets

CONSTANTS
    Session,      \* network session identifiers
    Emergency,    \* the sessions that are emergency requests
    Device,       \* iDeviceGpsModeCaps
    DefaultMode,  \* the GPS mode of the admin settings
    MaxSessions   \* KLbsSettingMaximumExternalLocateRequests

Hybrid == {"tb", "ta"}
GpsMode == {{"auto"}, {"tb"}, {"ta"}, Hybrid}

ASSUME AgpsAssumption ==
    /\ IsFiniteSet(Session)
    /\ Emergency \subseteq Session
    /\ Device \in {"tb", "ta", "either", "both"}
    /\ DefaultMode \in {{"auto"}, {"tb"}, {"ta"}}
    /\ MaxSessions \in Nat

RequestState == {"none", "idle", "active", "hold"}

\* req: each session's request; method: the mode it asked for when it was
\* last started; mode: the combined mode; running: iLocationRequestActive.
AgpsState ==
    [req : [Session -> RequestState],
     method : [Session -> GpsMode \union {{}}],
     mode : GpsMode \union {{}},
     running : BOOLEAN]

NoRequests ==
    [req |-> [s \in Session |-> "none"],
     method |-> [s \in Session |-> {}],
     mode |-> {},
     running |-> FALSE]

\* A combined request in mode answers a request for m.
Serves(mode, m) == m \intersect mode # {} \/ (m = {"auto"} /\ "tb" \in mode)

Requests(a) == {s \in Session : a.req[s] # "none"}
AnyRequest(a, state) == \E s \in Session : a.req[s] = state

-----------------------------------------------------------------------------
\* The combination tables of CalculateNewCombinedRequestMethod.

\* Terminal based absorbs autonomous; either with terminal assisted is hybrid.
Normal(m) ==
    IF "ta" \in m THEN IF m = {"ta"} THEN m ELSE Hybrid
    ELSE IF "tb" \in m THEN {"tb"} ELSE m

\* GetPosSpecialTeatmentForHybrid
HybridChoice == IF DefaultMode = {"ta"} THEN {"ta"} ELSE {"tb"}

\* What the device can do of mode new while it runs cur.
Usable(cur, new) ==
    CASE Device = "tb" -> new \ {"ta"}
      [] Device = "ta" -> new \intersect {"ta"}
      [] Device = "both" -> new
      [] Device = "either" ->
            IF cur = {} THEN IF new = Hybrid THEN HybridChoice ELSE new
            ELSE IF cur = {"ta"} THEN new \intersect {"ta"} ELSE new \ {"ta"}

\* Mutant: every request takes the GPS, not only an emergency.
CombinedAlwaysTakes(cur, new, emergency) ==
    IF Usable(cur, new) # {} THEN Normal(cur \union Usable(cur, new)) ELSE new

\* Mutant: an emergency takes nothing from the others.
CombinedNeverTakes(cur, new, emergency) ==
    IF Usable(cur, new) # {} THEN Normal(cur \union Usable(cur, new)) ELSE {}

\* The new combined mode, {} when the request is refused.  An emergency
\* takes the GPS from the requests it clashes with.
Combined(cur, new, emergency) ==
    IF Usable(cur, new) # {} THEN Normal(cur \union Usable(cur, new))
    ELSE IF Device = "either" /\ emergency THEN new ELSE {}

-----------------------------------------------------------------------------
\* The request list.

\* AddOrUpdateRequest appends unless the list is full.
MayAdd(a, s) ==
    \/ a.req[s] # "none"
    \/ s \in Emergency
    \/ Cardinality(Requests(a)) <= MaxSessions

RemoveRequest(a, s) == [a EXCEPT !.req[s] = "none", !.method[s] = {}]

PreStartPositioning(a, s) ==
    IF MayAdd(a, s) THEN [a EXCEPT !.req[s] = "idle", !.method[s] = {}] ELSE a

Starts(a, s, m) ==
    MayAdd(a, s) /\ Combined(a.mode, m, s \in Emergency) # {}

StartPositioning(a, s, m) ==
    IF Combined(a.mode, m, s \in Emergency) = {} THEN RemoveRequest(a, s)
    ELSE IF ~MayAdd(a, s) THEN a
    ELSE [a EXCEPT !.req[s] = "active",
                   !.method[s] = m,
                   !.mode = Combined(a.mode, m, s \in Emergency),
                   !.running = TRUE]

HoldPositioning(a, S) ==
    [a EXCEPT !.req = [s \in Session |->
        IF s \in S /\ a.req[s] # "none" THEN "hold" ELSE a.req[s]]]

\* Cancels the AGPS manager when nothing is active or on hold.
StopPositioning(a, s) ==
    LET b == RemoveRequest(a, s) IN
    IF AnyRequest(b, "active") THEN [b EXCEPT !.running = TRUE]
    ELSE IF ~AnyRequest(b, "hold") /\ b.running
    THEN [b EXCEPT !.running = FALSE, !.mode = {}]
    ELSE b
=============================================================================
