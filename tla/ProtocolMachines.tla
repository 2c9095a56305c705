-------------------------- MODULE ProtocolMachines --------------------------
(***************************************************************************)
(* The state machines of the test protocol module: what CStateMachineBase  *)
(* keeps for each, and the states its four machines go through.  A         *)
(* transition takes two runs of the machine's active object, one to leave  *)
(* the old state and one to enter the new; anything may be called between  *)
(* them.  All operators take and give the record of one machine; what a    *)
(* machine sends when it enters or leaves a state is in ProtocolModule.    *)
(***************************************************************************)
EXTENDS Naturals, FiniteSets

CONSTANT NoSession

MtLr == "mtlr"
Originated == {"molr", "x3p", "netloc"}
Machine == {MtLr} \union Originated

\* The states of the machines that ask the network to locate the terminal,
\* and those of the machine that serves the network.
OriginatedState ==
    {"null", "reqRecvd", "netStarted", "measured", "netLocSent", "locReq",
     "locRecvd", "locSent", "netClose", "resultSent", "clientClose", "closed",
     "cancelling"}
MtLrState ==
    {"null", "reqRecvd", "privStarted", "privRecvd", "privAfter", "reject",
     "rejectAfter", "measured", "netLocSent", "locReq", "locRecvd", "locSent",
     "closeAfter", "closeWait", "closeWaitLoc", "cancelling"}

Source ==
    {"none", "client", "silent", "network", "netError", "clientTimeout",
     "netTimeout"}
Reason == {"ok", "denied", "error", "timeout"}
Answer == {"unknown", "accepted", "rejected"}
TimerOf(k) ==
    {"request", "location", "assist"} \union
        CASE k = MtLr -> {"measure"} [] k = "netloc" -> {} [] OTHER -> {"result"}

\* The length of a machine's queue of requests.
KMaxQueueEntry == 5

\* A machine that has done nothing yet.  Requests in the queue are all served
\* alike, so that their number is all that is kept.
NewMachine ==
    [proto |-> "ready",      \* iProtocolState
     at |-> "null",          \* iCurrentState
     stage |-> "null",       \* iTransitionState
     run |-> FALSE,          \* the active object is active
     cancel |-> FALSE,       \* iIsCancelPending
     source |-> "none",      \* iCancelSource
     pending |-> 0,          \* iQueue
     session |-> NoSession,  \* iSessionId
     queued |-> FALSE,       \* iIsMachineQueued
     next |-> NoSession,     \* iQueueSessionId
     locReq |-> FALSE,       \* iIsLocReqReceived
     served |-> FALSE,       \* iIsMeasureControlHandled
     assist |-> FALSE,       \* iAssistanceDataActionRequired
     expected |-> FALSE,     \* iIsAdditionalDataExpected
     reason |-> "ok",        \* iLocRespReason
     timers |-> {},          \* the timers that run
     result |-> FALSE,       \* iIsNetResultLocAvailable
     still |-> FALSE,        \* iStillCancelling
     recvd |-> FALSE,        \* iPrivacyResponseRecvd
     handled |-> FALSE,      \* iPrivacyResponseHandled
     first |-> FALSE,        \* iIsPrivacyRespBeforeMeasureControl
     answer |-> "unknown"]   \* iPrivacyResp

MachineState(k, sessions) ==
    [proto : {"ready", "active", "cancelling"},
     at : IF k = MtLr THEN MtLrState ELSE OriginatedState,
     stage : {"null", "exit", "enter"},
     source : Source, pending : 0..KMaxQueueEntry,
     session : sessions \union {NoSession}, next : sessions \union {NoSession},
     reason : Reason, timers : SUBSET TimerOf(k), answer : Answer,
     run : BOOLEAN, cancel : BOOLEAN, queued : BOOLEAN, locReq : BOOLEAN,
     served : BOOLEAN, assist : BOOLEAN, expected : BOOLEAN, result : BOOLEAN,
     still : BOOLEAN, recvd : BOOLEAN, handled : BOOLEAN, first : BOOLEAN]

-----------------------------------------------------------------------------
\* CStateMachineBase.

Perform(m) == IF m.run THEN m ELSE [m EXCEPT !.stage = "exit", !.run = TRUE]

\* A response or indication: a transition now, or later from the queue.
Forward(m) ==
    IF ~m.run THEN Perform(m)
    ELSE [m EXCEPT !.pending = IF @ < KMaxQueueEntry THEN @ + 1 ELSE @]

\* CancelMachine, with the CancelProcedure of the derived class.
CancelMachine(m, source) ==
    LET c == [m EXCEPT !.cancel = TRUE, !.source = source, !.timers = {}] IN
    IF m.stage = "null" THEN Perform(c) ELSE c

\* InitialiseMachineBase for a session, with what MT-LR and MO-LR add to it.
\* iPrivacyResp is not initialised, nor is the result of X3P.
Initialise(k, m, s) ==
    [m EXCEPT !.stage = "null", !.cancel = FALSE, !.source = "none",
              !.locReq = FALSE, !.served = FALSE,
              !.expected = FALSE, !.assist = FALSE, !.reason = "ok",
              !.proto = "active", !.queued = FALSE, !.session = s,
              !.recvd = FALSE, !.handled = FALSE,
              !.result = @ /\ k = "x3p"]

Complete(m) == [m EXCEPT !.at = "null", !.proto = "ready"]

Cancelling(m) == m.proto = "cancelling"

LocRespReason(m) ==
    IF m.reason = "ok" /\ Cancelling(m)
           /\ m.source \in {"client", "silent", "clientTimeout"}
    THEN "error" ELSE m.reason

IsNetworkConnectionError(m) == Cancelling(m) /\ m.source = "netError"

\* A measurement control: the timer of the request (of the measurement control
\* for MT-LR) is stopped.
MeasurementControlInd(k, m) ==
    Forward([m EXCEPT
        !.timers = @ \ {IF k = MtLr THEN "measure" ELSE "request"},
        !.assist = TRUE, !.locReq = TRUE, !.served = FALSE])

\* Assistance data wanted, or had: an idle machine runs only to pass it on.
AssistanceDataReq(m) ==
    [m EXCEPT !.assist = TRUE, !.expected = TRUE, !.run = TRUE]

AdditionalAssistDataInd(m) ==
    [m EXCEPT !.timers = @ \ {"assist"}, !.assist = TRUE, !.expected = FALSE,
              !.run = TRUE]

\* MeasurementControlErrorInd and HandleMeasureControlError; cancelled: the
\* reason is KErrCancel.
MeasurementControlErrorInd(k, m, cancelled) ==
    LET ends == cancelled \/ (k # MtLr /\ ~m.locReq)
        stopped == {"assist"} \union IF ends \/ k = MtLr THEN {"request"} ELSE {}
        asked == IF k = "molr" THEN {"assist", "request"} ELSE {"assist"}
        n == [m EXCEPT !.timers = @ \ stopped, !.served = @ \/ ends]
    IN  [IF ends THEN CancelMachine(n, "network") ELSE [n EXCEPT !.run = TRUE]
            EXCEPT !.assist = m.timers \intersect asked # {}]

\* Only the first network error counts.
NetworkErrorInd(k, m) ==
    LET n == [m EXCEPT !.assist = @ \/ (k # MtLr /\ ~m.locReq)] IN
    IF m.source = "netError" THEN n
    ELSE CancelMachine([n EXCEPT !.assist = @ \/ m.expected, !.expected = FALSE],
                       "netError")

\* MeasurementControlTimeout: a rejected MT-LR just ends.
MeasurementControlTimeout(k, m) ==
    CASE k = MtLr /\ m.answer = "rejected" -> CancelMachine(m, "none")
      [] k = MtLr /\ m.answer # "rejected" ->
            CancelMachine([m EXCEPT !.reason = "timeout"], "netTimeout")
      [] k = "molr" -> CancelMachine([m EXCEPT !.assist = TRUE], "netTimeout")
      [] OTHER -> CancelMachine(m, "netTimeout")

LocationResp(m, reason) ==
    Forward([m EXCEPT !.reason = reason, !.timers = @ \ {"location"}])

PrivacyResp(m, answer) ==
    Forward([m EXCEPT !.timers = @ \ {"request"}, !.recvd = TRUE,
                      !.handled = FALSE, !.answer = answer,
                      !.reason = IF answer = "accepted" THEN @ ELSE "denied"])

SessionResult(m, position) ==
    Forward([m EXCEPT !.timers = @ \ {"result"}, !.result = position])

-----------------------------------------------------------------------------
\* StateTransition of MO-LR, X3P and the network based location.
Following ==
    [null |-> "reqRecvd", reqRecvd |-> "netStarted", netStarted |-> "measured",
     measured |-> "netLocSent", netLocSent |-> "locReq", locReq |-> "locRecvd",
     locRecvd |-> "locSent", locSent |-> "netClose",
     resultSent |-> "clientClose", clientClose |-> "closed",
     cancelling |-> "netClose"]

OriginatedTransition(m) ==
    CASE m.at = "closed" -> Complete(m)
      [] m.at = "netClose" ->
            [m EXCEPT !.at = IF m.result THEN "resultSent" ELSE "clientClose"]
      [] OTHER -> [m EXCEPT !.at = Following[m.at]]

\* StateTransition of MT-LR, out of the cancelling state.
MtLrCancelled(m) ==
    CASE m.source \in {"none", "client", "silent"} -> Complete(m)
      [] m.source = "netTimeout" /\ m.answer # "accepted" -> Complete(m)
      [] m.source = "clientTimeout" /\ ~m.recvd /\ m.served /\ m.reason # "timeout" ->
            [m EXCEPT !.at = "closeWaitLoc"]
      [] OTHER -> [m EXCEPT !.at = "closeAfter"]

\* Where MT-LR goes whatever has happened.
MtLrFollowing ==
    [null |-> "reqRecvd", reject |-> "closeWait", rejectAfter |-> "locRecvd",
     measured |-> "netLocSent", locRecvd |-> "locSent", locSent |-> "closeAfter",
     closeWait |-> "measured"]

\* Mutant: whatever moved the machine on is taken for the position.
AfterLocReqAlways(m) == [m EXCEPT !.at = "locRecvd"]

\* Out of locReq the privacy answer is still to come, unless it came first.
AfterLocReq(m) == [m EXCEPT !.at = IF m.first THEN "locRecvd" ELSE "privAfter"]

MtLrTransition(m) ==
    LET accepted == m.answer = "accepted" IN
    CASE m.at \in DOMAIN MtLrFollowing -> [m EXCEPT !.at = MtLrFollowing[m.at]]
      [] m.at = "reqRecvd" -> [m EXCEPT !.at = "privStarted", !.first = FALSE]
      [] m.at = "privStarted" /\ m.locReq -> [m EXCEPT !.at = "measured"]
      [] m.at = "privStarted" /\ ~m.locReq /\ m.recvd ->
            [m EXCEPT !.at = "privRecvd", !.first = TRUE, !.handled = TRUE,
                      !.timers = @ \union {"measure"}]
      [] m.at = "privStarted" /\ ~m.locReq /\ ~m.recvd -> m
      [] m.at = "privRecvd" ->
            [m EXCEPT !.at = IF accepted THEN "measured" ELSE "reject"]
      [] m.at = "privAfter" ->
            [m EXCEPT !.at = IF accepted THEN "locRecvd" ELSE "rejectAfter"]
      [] m.at = "netLocSent" /\ m.first /\ ~accepted ->
            Complete([m EXCEPT !.served = TRUE])
      [] m.at = "netLocSent" /\ ~(m.first /\ ~accepted) ->
            [m EXCEPT !.at = "locReq", !.served = TRUE]
      [] m.at = "locReq" -> AfterLocReq(m)
      [] m.at = "closeWaitLoc" /\ Cancelling(m) /\ m.reason = "timeout" ->
            [m EXCEPT !.at = "cancelling"]
      [] m.at = "closeWaitLoc" /\ ~(Cancelling(m) /\ m.reason = "timeout") ->
            Complete(m)
      [] m.at = "closeAfter" -> Complete(m)
      [] m.at = "cancelling" -> MtLrCancelled(m)

Transition(k, m) ==
    IF m.cancel
    THEN [m EXCEPT !.cancel = FALSE, !.proto = "cancelling", !.at = "cancelling"]
    ELSE IF k = MtLr THEN MtLrTransition(m) ELSE OriginatedTransition(m)

\* PostStateTransition: the states a machine does not wait in.
Transitory(k, m) ==
    \/ m.cancel
    \/ m.at \in {"reqRecvd", "measured", "netLocSent", "locRecvd", "cancelling"}
    \/ k = MtLr /\ m.at \in {"reject", "locSent", "closeAfter"}
    \/ k = MtLr /\ m.at \in {"privRecvd", "privAfter"} /\ m.answer # "accepted"
    \/ k # MtLr /\ m.at \in {"netClose", "resultSent", "clientClose", "closed"}
    \/ k = "x3p" /\ m.at = "locSent" /\ LocRespReason(m) # "ok"
    \/ k = "netloc" /\ m.at = "locSent"
=============================================================================
