---------------------------- MODULE AgpsInterface ----------------------------
(***************************************************************************)
(* The AGPS interface handler on its own: the operations of AgpsRequests   *)
(* called in any order, whatever the state machines that call them do.     *)
(* PrivLoc composes the same operations in the order of the code; what is  *)
(* proved here (AgpsInterface_proof) holds of every caller.                *)
(***************************************************************************)
EXTENDS AgpsRequests

VARIABLE agps

Init == agps = NoRequests

PreStart(s) == agps' = PreStartPositioning(agps, s)

Start(s) == \E m \in GpsMode : agps' = StartPositioning(agps, s, m)

Hold(s) == agps' = HoldPositioning(agps, {s})

Stop(s) == agps' = StopPositioning(agps, s)

Next == \E s \in Session : PreStart(s) \/ Start(s) \/ Hold(s) \/ Stop(s)

Spec == Init /\ [][Next]_agps

-----------------------------------------------------------------------------
\* Shape of the state: the combined mode is one the AGPS manager knows.
TypeOK == agps \in AgpsState

\* The AGPS manager works for as long as a session waits for it, and it has a
\* mode exactly while it works (iLocationRequestActive against
\* iCombinedRequestGpsMode): cancelling resets both, refusing resets neither.
RunningInvariant ==
    /\ AnyRequest(agps, "active") => agps.running
    /\ agps.running <=> agps.mode # {}

\* The only emergency there is, while it waits for a position, has the mode it
\* asked for: requests made later add to the combined mode or are refused.
\* Without emergencies that is so of every session.  The code has one emergency
\* state machine (GetNewFsm), whose session the emergency request is for.
ActiveIsServed ==
    \A s \in Session :
        agps.req[s] = "active" /\ Emergency \subseteq {s}
            => Serves(agps.mode, agps.method[s])

\* The device is only asked for what it can do: never for both modes at once
\* when it has one at a time (the tables of CalculateNewCombinedRequestMethod).
DeviceAble ==
    /\ Device = "tb" => "ta" \notin agps.mode
    /\ Device = "ta" => agps.mode \subseteq {"ta"}
    /\ Device = "either" => agps.mode # Hybrid

\* Whatever order sessions are prepared, started and stopped in, those that
\* are no emergency take one slot more than the limit at most, the slots that
\* ConstructL reserved (AddOrUpdateRequest compares before it appends).
ListBounded == Cardinality(Requests(agps) \ Emergency) <= MaxSessions + 1
=============================================================================
