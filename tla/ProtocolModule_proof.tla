------------------------ MODULE ProtocolModule_proof ------------------------
(***************************************************************************)
(* Theorems about the test protocol module, for any sessions and anything  *)
(* that may come.                                                          *)
(*                                                                         *)
(* What moves a machine on is not looked at: a measurement control, a      *)
(* privacy answer and a location response all run it, or leave an entry in *)
(* its queue.  Fit says for each state which responses a machine has had   *)
(* but not acted on yet (its Load), from which follows what it takes a     *)
(* move for, and that no timer is left when it is done.                    *)
(***************************************************************************)
EXTENDS ProtocolModule, TLAPS

-----------------------------------------------------------------------------
(***************************************************************************)
(* One machine.                                                            *)
(***************************************************************************)

B(b) == IF b THEN 1 ELSE 0

Moving(m) == m.stage # "null"

\* Responses the machine has not acted on.
Load(m) == m.pending + B(Moving(m))

\* The timers that cancel the machine they are of, whatever it does.
Harm(k) == IF k = MtLr THEN {"request", "location"} ELSE {"location", "result"}

\* A machine that does nothing.
Rest(k, m) ==
    /\ m.at = "null" /\ m.stage = "null" /\ ~m.run /\ ~m.cancel /\ m.pending = 0
    /\ m.timers \intersect Harm(k) = {}

Calm(m) == m.proto = "active" /\ ~m.cancel

\* A machine that asks the network, for a session LBS is asked the location of
\* (la) or gave one of (lo).
Asks(m, la, lo) ==
    /\ "result" \in m.timers => m.at = "locSent" /\ Load(m) = 0
    /\ "location" \in m.timers => m.at = "locReq"
    /\ la => m.at = "locReq" /\ "location" \in m.timers
    /\ m.at \in {"locReq", "locRecvd"} /\ "location" \notin m.timers /\ m.reason = "ok" => lo
    /\ m.at \notin {"netStarted", "locReq", "locSent"} => Moving(m)
    /\ m.at \in {"null", "reqRecvd", "netStarted"} =>
          Load(m) = B(m.at # "netStarted") + B(m.locReq)
    /\ m.at \notin {"null", "reqRecvd", "netStarted"} => m.locReq
    /\ m.at \in {"measured", "netLocSent", "locRecvd", "netClose", "resultSent",
                 "clientClose", "closed"} => Load(m) = 1
    /\ m.at = "locReq" => Load(m) = B("location" \notin m.timers)
    /\ m.at = "locSent" => Load(m) \in {0, 1}
    /\ m.at # "cancelling"

\* The responses the machine that serves the network has not acted on.
Due(m) ==
    CASE m.at \in {"null", "reqRecvd", "reject"} -> 1 + B(m.locReq)
      [] m.at = "privStarted" -> B(m.locReq) + B(m.recvd)
      [] m.at = "privRecvd" -> B(m.locReq) + B(m.answer # "accepted")
      [] m.at = "closeWait" -> B(m.locReq)
      [] m.at \in {"measured", "netLocSent"} -> 1 + B(~m.first /\ m.recvd)
      [] m.at = "locReq" -> B(~m.first /\ m.recvd) + B("location" \notin m.timers)
      [] m.at = "privAfter" -> B("location" \notin m.timers) + B(m.answer # "accepted")
      [] m.at = "rejectAfter" -> B("location" \notin m.timers)
      [] OTHER -> 1

\* That machine, for a session LBS is asked the privacy of (pa), which the
\* network induced (ind), or to which LBS answered v.
Serves(m, la, pa, lo, ind, v) ==
    /\ "location" \in m.timers => m.at \in {"locReq", "privAfter", "rejectAfter"}
    /\ la => "location" \in m.timers
    /\ m.at \in {"locReq", "privAfter", "rejectAfter", "locRecvd"} /\ "location" \notin m.timers
          /\ m.reason = "ok" => lo
    /\ m.at = "locReq" /\ "location" \notin m.timers => m.recvd
    /\ ind => m.first /\ m.recvd /\ m.at \notin {"null", "reqRecvd", "privStarted"}
    /\ m.recvd /\ ~ind => m.answer = v
    /\ ~m.recvd => v = "unknown"
    /\ m.at \in {"null", "reqRecvd"} => ~m.recvd /\ ~pa
    /\ m.at \notin {"null", "reqRecvd"} => (pa <=> ~m.recvd)
    /\ m.recvd => "request" \notin m.timers
    /\ m.at \in {"privStarted", "privAfter", "rejectAfter"} => ~m.first
    /\ m.at \in {"privRecvd", "reject", "closeWait"} => m.first
    /\ ~m.locReq => m.at \in {"null", "reqRecvd", "privStarted", "privRecvd", "reject", "closeWait"}
    /\ m.first /\ m.at \notin {"null", "reqRecvd"} => m.recvd
    /\ m.at \in {"privAfter", "rejectAfter", "locRecvd", "locSent", "closeAfter"} => m.recvd
    /\ m.at \in {"reject", "closeWait"} => m.answer # "accepted"
    /\ m.at \in {"null", "reqRecvd", "reject", "measured", "netLocSent", "locRecvd",
                 "locSent", "closeAfter"} => Moving(m)
    /\ m.at \in {"privRecvd", "privAfter"} /\ m.answer # "accepted" => Moving(m)
    /\ m.at \notin {"closeWaitLoc", "cancelling"}
    /\ Load(m) = Due(m)

\* Where a machine that was cancelled may be.
Ends(k) == IF k = MtLr THEN {"cancelling", "closeWaitLoc", "closeAfter"}
           ELSE {"cancelling", "netClose", "resultSent", "clientClose", "closed"}

\* The network may have a position of the machine.
Gave(m) ==
    /\ m.source # "netError"
    /\ \/ m.proto = "active" /\ m.cancel
       \/ Calm(m) /\ m.at = "locSent" /\ Load(m) = 0
       \/ m.proto = "cancelling" /\ (m.at = "cancelling" \/ (m.at = "netClose" /\ m.stage # "enter"))

\* A machine that runs a procedure; fa: the network has a position.
Runs(k, m, fa, la, pa, lo, ind, v) ==
    /\ Moving(m) => m.run
    /\ m.cancel \/ Cancelling(m) => m.timers \intersect Harm(k) = {}
    /\ Cancelling(m) => ~m.cancel /\ m.at \in Ends(k)
    /\ m.at = "cancelling" => Cancelling(m)
    /\ (m.at = "null" /\ m.stage = "exit") \/ Cancelling(m) \/ ~m.still
    /\ fa => k \in {"molr", "x3p"} /\ Gave(m)
    /\ Calm(m) => m.source = "none"
    /\ Calm(m) => IF k = MtLr THEN Serves(m, la, pa, lo, ind, v) ELSE Asks(m, la, lo)

Fit(k, m, fa, la, pa, lo, ind, v) ==
    IF m.proto = "ready" THEN Rest(k, m) ELSE Runs(k, m, fa, la, pa, lo, ind, v)

\* A machine that has told LBS of the end of its session.
Past(m) == m.at = "closed" \/ (m.at = "clientClose" /\ m.stage = "enter")

State(k) == MachineState(k, AllSessions)

\* n is m but for what moves it, its timers and what it has had.
Steps(n, m) ==
    /\ n.proto = m.proto /\ n.session = m.session /\ n.queued = m.queued
    /\ n.next = m.next /\ n.still = m.still /\ n.at = m.at
    /\ n.stage = m.stage \/ (m.stage = "null" /\ n.stage = "exit")

\* n has what m has, and one response more to act on.
Forwarded(n, m) ==
    /\ Steps(n, m) /\ n.cancel = m.cancel /\ n.source = m.source
    /\ n.locReq = m.locReq /\ n.reason = m.reason /\ n.timers = m.timers
    /\ n.recvd = m.recvd /\ n.first = m.first /\ n.answer = m.answer
    /\ n.run = TRUE
    /\ m.pending < KMaxQueueEntry => Load(n) = Load(m) + 1

LEMMA FlagsAre ==
    ASSUME NEW k \in Machine, NEW m \in State(k), NEW b \in BOOLEAN
    PROVE  /\ [m EXCEPT !.run = b] \in State(k)
           /\ [m EXCEPT !.cancel = b] \in State(k)
           /\ [m EXCEPT !.queued = b] \in State(k)
           /\ [m EXCEPT !.locReq = b] \in State(k)
           /\ [m EXCEPT !.served = b] \in State(k)
           /\ [m EXCEPT !.assist = b] \in State(k)
           /\ [m EXCEPT !.expected = b] \in State(k)
           /\ [m EXCEPT !.result = b] \in State(k)
           /\ [m EXCEPT !.still = b] \in State(k)
           /\ [m EXCEPT !.recvd = b] \in State(k)
           /\ [m EXCEPT !.handled = b] \in State(k)
           /\ [m EXCEPT !.first = b] \in State(k)
<1>1. [m EXCEPT !.run = b] \in State(k)
  BY DEF State, MachineState
<1>2. [m EXCEPT !.cancel = b] \in State(k)
  BY DEF State, MachineState
<1>3. [m EXCEPT !.queued = b] \in State(k)
  BY DEF State, MachineState
<1>4. [m EXCEPT !.locReq = b] \in State(k)
  BY DEF State, MachineState
<1>5. [m EXCEPT !.served = b] \in State(k)
  BY DEF State, MachineState
<1>6. [m EXCEPT !.assist = b] \in State(k)
  BY DEF State, MachineState
<1>7. [m EXCEPT !.expected = b] \in State(k)
  BY DEF State, MachineState
<1>8. [m EXCEPT !.result = b] \in State(k)
  BY DEF State, MachineState
<1>9. [m EXCEPT !.still = b] \in State(k)
  BY DEF State, MachineState
<1>10. [m EXCEPT !.recvd = b] \in State(k)
  BY DEF State, MachineState
<1>11. [m EXCEPT !.handled = b] \in State(k)
  BY DEF State, MachineState
<1>12. [m EXCEPT !.first = b] \in State(k)
  BY DEF State, MachineState
<1> QED
  BY <1>1, <1>2, <1>3, <1>4, <1>5, <1>6, <1>7, <1>8, <1>9, <1>10, <1>11, <1>12

LEMMA TimersAre ==
    ASSUME NEW k \in Machine, NEW m \in State(k), NEW q \in SUBSET TimerOf(k)
    PROVE  [m EXCEPT !.timers = q] \in State(k)
BY DEF State, MachineState

LEMMA AnswersAre ==
    ASSUME NEW k \in Machine, NEW m \in State(k)
    PROVE  /\ \A r \in Reason : [m EXCEPT !.reason = r] \in State(k)
           /\ \A a \in Answer : [m EXCEPT !.answer = a] \in State(k)
BY DEF State, MachineState

LEMMA StagesAre ==
    ASSUME NEW k \in Machine, NEW m \in State(k), NEW s \in {"null", "exit", "enter"}
    PROVE  [m EXCEPT !.stage = s] \in State(k)
BY DEF State, MachineState

LEMMA PlaceIs ==
    ASSUME NEW k \in Machine, NEW m \in State(k),
           NEW a, a \in IF k = MtLr THEN MtLrState ELSE OriginatedState
    PROVE  [m EXCEPT !.at = a] \in State(k)
BY DEF State, MachineState

LEMMA ProtosAre ==
    ASSUME NEW k \in Machine, NEW m \in State(k), NEW p \in {"ready", "active", "cancelling"}
    PROVE  [m EXCEPT !.proto = p] \in State(k)
BY DEF State, MachineState

LEMMA PerformIs ==
    ASSUME NEW k \in Machine, NEW m \in State(k), ~m.run, m.stage = "null"
    PROVE  Perform(m) \in State(k) /\ Forwarded(Perform(m), m)
           /\ Perform(m).stage = "exit" /\ Perform(m).pending = m.pending
<1> DEFINE n == [m EXCEPT !.stage = "exit", !.run = TRUE]
<1>1. n \in State(k) /\ n.stage = "exit" /\ n.run = TRUE /\ n.pending = m.pending
  BY DEF State, MachineState
<1>2. /\ Steps(n, m) /\ n.cancel = m.cancel /\ n.source = m.source
      /\ n.locReq = m.locReq /\ n.reason = m.reason /\ n.timers = m.timers
      /\ n.recvd = m.recvd /\ n.first = m.first /\ n.answer = m.answer
  BY DEF Steps, State, MachineState
<1>3. Perform(m) = n /\ m.pending \in Nat
  BY DEF Perform, State, MachineState, KMaxQueueEntry
<1> HIDE DEF n
<1>4. Load(n) = Load(m) + 1
  BY <1>1, <1>3 DEF Load, Moving, B
<1> QED
  BY <1>1, <1>2, <1>3, <1>4 DEF Forwarded

LEMMA ForwardIs ==
    ASSUME NEW k \in Machine, NEW m \in State(k), Moving(m) => m.run
    PROVE  Forward(m) \in State(k) /\ Forwarded(Forward(m), m)
<1>1. CASE ~m.run
  BY <1>1, PerformIs DEF Forward, Moving
<1>2. CASE m.run
  <2> DEFINE p == IF m.pending < KMaxQueueEntry THEN m.pending + 1 ELSE m.pending
             n == [m EXCEPT !.pending = p]
  <2>1. p \in 0..KMaxQueueEntry /\ m.pending \in Nat
    BY DEF KMaxQueueEntry, State, MachineState
  <2>2. Forward(m) = n
    BY <1>2 DEF Forward
  <2> HIDE DEF p
  <2>3. n \in State(k) /\ n.pending = p
    BY <2>1 DEF State, MachineState
  <2>4. /\ Steps(n, m) /\ n.cancel = m.cancel /\ n.source = m.source
        /\ n.locReq = m.locReq /\ n.reason = m.reason /\ n.timers = m.timers
        /\ n.recvd = m.recvd /\ n.first = m.first /\ n.answer = m.answer
        /\ n.run = m.run /\ n.stage = m.stage
    BY DEF Steps, State, MachineState
  <2> HIDE DEF n
  <2>5. m.pending < KMaxQueueEntry => Load(n) = Load(m) + 1
    BY <2>1, <2>3, <2>4 DEF Load, Moving, B, p
  <2> QED
    BY <1>2, <2>2, <2>3, <2>4, <2>5 DEF Forwarded
<1> QED
  BY <1>1, <1>2

\* n is m cancelled.
Cancelled(n, m, source) ==
    /\ Steps(n, m) /\ n.cancel = TRUE /\ n.source = source /\ n.timers = {}
    /\ n.answer = m.answer
    /\ Moving(n) => n.run

LEMMA CancelIs ==
    ASSUME NEW k \in Machine, NEW m \in State(k), NEW source \in Source, Moving(m) => m.run
    PROVE  CancelMachine(m, source) \in State(k) /\ Cancelled(CancelMachine(m, source), m, source)
<1> DEFINE c == [m EXCEPT !.cancel = TRUE, !.source = source, !.timers = {}]
<1>1. c \in State(k)
  BY DEF State, MachineState
<1>2. /\ c.cancel = TRUE /\ c.source = source /\ c.timers = {} /\ c.run = m.run
      /\ c.stage = m.stage /\ c.answer = m.answer
      /\ c.proto = m.proto /\ c.session = m.session /\ c.queued = m.queued
      /\ c.next = m.next /\ c.still = m.still /\ c.at = m.at
  BY DEF State, MachineState
<1>3. CancelMachine(m, source) = IF m.stage = "null" THEN Perform(c) ELSE c
  BY DEF CancelMachine
<1> HIDE DEF c
<1>4. CASE m.stage = "null" /\ ~m.run
  <2>1. /\ Perform(c) \in State(k) /\ Forwarded(Perform(c), c)
        /\ Perform(c).stage = "exit"
    BY <1>1, <1>2, <1>4, PerformIs
  <2> QED
    BY <1>2, <1>3, <1>4, <2>1 DEF Cancelled, Forwarded, Steps
<1>5. CASE ~(m.stage = "null" /\ ~m.run)
  <2>1. CancelMachine(m, source) = c
    BY <1>2, <1>3, <1>5 DEF Perform
  <2> QED
    BY <1>1, <1>2, <2>1 DEF Cancelled, Steps, Moving
<1> QED
  BY <1>4, <1>5

-----------------------------------------------------------------------------
(***************************************************************************)
(* What happens to a machine between two of its runs leaves it fit.        *)
(***************************************************************************)

\* n is what becomes of m.
Becomes(k, n, m) ==
    /\ n \in State(k) /\ Steps(n, m)
    /\ n.source = "silent" => m.source = "silent"
    /\ n.answer = "accepted" => m.answer = "accepted"

Moved(k, n, m, fa, la, pa, lo, ind, v) ==
    Becomes(k, n, m) /\ Fit(k, n, fa, la, pa, lo, ind, v)

\* x is m, which is active, but for its timers and what it has had.
Told(k, x, m, fa) ==
    /\ x \in State(k) /\ Steps(x, m)
    /\ m.proto = "active"
    /\ Moving(x) => x.run
    /\ (m.at = "null" /\ m.stage = "exit") \/ ~m.still
    /\ m.at # "cancelling"
    /\ x.answer = "accepted" => m.answer = "accepted"
    /\ fa => k \in {"molr", "x3p"}

\* A cancelled machine is fit whatever it did.
LEMMA CancelStays ==
    ASSUME NEW k \in Machine, NEW x, NEW m, NEW fa, Told(k, x, m, fa),
           NEW source \in Source, fa => source # "netError",
           NEW la, NEW pa, NEW lo, NEW ind, NEW v
    PROVE  LET n == CancelMachine(x, source) IN
           /\ n \in State(k) /\ Steps(n, m) /\ n.source = source
           /\ n.answer = "accepted" => m.answer = "accepted"
           /\ Fit(k, n, fa, la, pa, lo, ind, v)
<1> DEFINE n == CancelMachine(x, source)
<1>1. n \in State(k) /\ Cancelled(n, x, source)
  BY CancelIs DEF Told
<1> HIDE DEF n
<1>2. Steps(n, m) /\ n.source = source /\ (n.answer = "accepted" => m.answer = "accepted")
  BY <1>1 DEF Cancelled, Told, Steps
<1>3. Runs(k, n, fa, la, pa, lo, ind, v)
  BY <1>1 DEF Runs, Cancelled, Told, Steps, Calm, Cancelling, Gave
<1>4. n.proto # "ready"
  BY <1>1 DEF Cancelled, Told, Steps
<1>5. /\ n \in State(k) /\ Steps(n, m) /\ n.source = source
      /\ n.answer = "accepted" => m.answer = "accepted"
      /\ Fit(k, n, fa, la, pa, lo, ind, v)
  BY <1>1, <1>2, <1>3, <1>4 DEF Fit
<1> QED
  BY <1>5 DEF n

LEMMA CancelFits ==
    ASSUME NEW k \in Machine, NEW x, NEW m, NEW fa, Told(k, x, m, fa),
           NEW source \in Source, fa => source # "netError",
           source = "silent" => m.source = "silent",
           NEW la, NEW pa, NEW lo, NEW ind, NEW v
    PROVE  Moved(k, CancelMachine(x, source), m, fa, la, pa, lo, ind, v)
<1> DEFINE n == CancelMachine(x, source)
<1>1. /\ n \in State(k) /\ Steps(n, m) /\ n.source = source
      /\ n.answer = "accepted" => m.answer = "accepted"
      /\ Fit(k, n, fa, la, pa, lo, ind, v)
  BY CancelStays
<1> HIDE DEF n
<1>2. Moved(k, n, m, fa, la, pa, lo, ind, v)
  BY <1>1 DEF Moved, Becomes
<1> QED
  BY <1>2 DEF n

\* m is not calm, and n is m with no timer that harms it added.
Restless(k, m, n, fa, la, pa, lo, ind, v, fa2) ==
    /\ Fit(k, m, fa, la, pa, lo, ind, v) /\ m.proto # "ready" /\ ~Calm(m)
    /\ Steps(n, m) /\ n.cancel = m.cancel /\ n.source = m.source
    /\ n.timers \intersect Harm(k) \subseteq m.timers
    /\ Moving(n) => n.run
    /\ fa2 => fa

\* A machine that is not calm is fit whatever it has had.
LEMMA RestlessFits ==
    ASSUME NEW k, NEW m, NEW n, NEW fa, NEW la, NEW pa, NEW lo, NEW ind, NEW v, NEW fa2,
           Restless(k, m, n, fa, la, pa, lo, ind, v, fa2),
           NEW la2, NEW pa2, NEW lo2, NEW ind2, NEW v2
    PROVE  Fit(k, n, fa2, la2, pa2, lo2, ind2, v2)
<1> USE DEF Restless
<1>1. n.proto = m.proto /\ n.at = m.at /\ n.still = m.still
  BY DEF Steps
<1>2. Runs(k, m, fa, la, pa, lo, ind, v)
  BY DEF Fit
<1>3. ~Calm(n)
  BY <1>1 DEF Calm
<1>4. fa2 => k \in {"molr", "x3p"} /\ Gave(n)
  BY <1>1, <1>2, <1>3 DEF Runs, Gave, Calm, Steps
<1>5. (n.at = "null" /\ n.stage = "exit") \/ Cancelling(n) \/ ~n.still
  BY <1>1, <1>2 DEF Runs, Cancelling, Steps
<1>6. n.cancel \/ Cancelling(n) => n.timers \intersect Harm(k) = {}
  BY <1>1, <1>2 DEF Runs, Cancelling
<1>7. (Cancelling(n) => ~n.cancel /\ n.at \in Ends(k)) /\ (n.at = "cancelling" => Cancelling(n))
  BY <1>1, <1>2 DEF Runs, Cancelling
<1> QED
  BY <1>1, <1>3, <1>4, <1>5, <1>6, <1>7 DEF Fit, Runs

\* The loads of a machine that is calm.
LEMMA LoadIsSmall ==
    ASSUME NEW k \in Machine, NEW m \in State(k), NEW fa, NEW la, NEW pa, NEW lo, NEW ind, NEW v,
           Fit(k, m, fa, la, pa, lo, ind, v), Calm(m)
    PROVE  m.pending < KMaxQueueEntry /\ Load(m) \in 0..2 /\ (Moving(m) => m.run)
<1>1. Runs(k, m, fa, la, pa, lo, ind, v)
  BY DEF Fit, Calm
<1>2. m.pending \in Nat /\ B(Moving(m)) \in {0, 1} /\ Load(m) = m.pending + B(Moving(m))
  BY DEF State, MachineState, KMaxQueueEntry, B, Load
<1>3. Load(m) \in 0..2
  <2>1. CASE k = MtLr
    <3>1. Load(m) = Due(m)
      BY <1>1, <2>1 DEF Runs, Serves
    <3> QED
      BY <3>1 DEF Due, B
  <2>2. CASE k # MtLr
    <3>1. Asks(m, la, lo) /\ m.at \in OriginatedState
      BY <1>1, <2>2 DEF Runs, State, MachineState
    <3>2. Load(m) = 1 \/ Load(m) = 0 \/ Load(m) = 2
      BY <3>1 DEF Asks, OriginatedState, B
    <3> QED
      BY <3>2
  <2> QED
    BY <2>1, <2>2
<1> QED
  BY <1>1, <1>2, <1>3 DEF KMaxQueueEntry, Runs

\* A measurement control is the first of its procedure, or of no use.
LEMMA MeasurementFits ==
    ASSUME NEW k \in Machine, NEW m \in State(k), NEW fa, NEW la, NEW pa, NEW lo, NEW ind, NEW v,
           Fit(k, m, fa, la, pa, lo, ind, v),
           (m.proto = "active" /\ ~m.locReq) \/ Cancelling(m)
    PROVE  Moved(k, MeasurementControlInd(k, m), m, fa, la, pa, lo, ind, v)
<1> DEFINE t == IF k = MtLr THEN "measure" ELSE "request"
           q == m.timers \ {t}
           x == [m EXCEPT !.timers = q, !.assist = TRUE, !.locReq = TRUE, !.served = FALSE]
           n == Forward(x)
<1>0. q \in SUBSET TimerOf(k)
  BY DEF State, MachineState
<1> HIDE DEF q
<1>1. x \in State(k)
  <2>1. [m EXCEPT !.timers = q] \in State(k)
    BY <1>0, TimersAre
  <2> QED
    BY <2>1, FlagsAre
<1>2. /\ x.timers = q /\ x.locReq = TRUE /\ x.run = m.run /\ x.stage = m.stage
      /\ x.pending = m.pending /\ x.cancel = m.cancel /\ x.source = m.source
      /\ x.reason = m.reason /\ x.recvd = m.recvd /\ x.first = m.first /\ x.answer = m.answer
      /\ x.proto = m.proto /\ x.session = m.session /\ x.queued = m.queued
      /\ x.next = m.next /\ x.still = m.still /\ x.at = m.at
  BY DEF State, MachineState
<1>3. MeasurementControlInd(k, m) = n
  BY DEF MeasurementControlInd, q
<1> HIDE DEF x
<1>4. Runs(k, m, fa, la, pa, lo, ind, v) /\ m.proto # "ready"
  BY DEF Fit, Cancelling
<1>5. n \in State(k) /\ Forwarded(n, x)
  BY <1>1, <1>2, <1>4, ForwardIs DEF Moving, Runs
<1> HIDE DEF n
<1>6. Becomes(k, n, m)
  BY <1>2, <1>5 DEF Becomes, Forwarded, Steps
<1>7. CASE ~Calm(m)
  <2>1. /\ Steps(n, m) /\ n.cancel = m.cancel /\ n.source = m.source /\ n.run = TRUE
        /\ n.timers \intersect Harm(k) \subseteq m.timers
    BY <1>2, <1>5, <1>6 DEF Forwarded, Becomes, q
  <2>2. Restless(k, m, n, fa, la, pa, lo, ind, v, fa)
    BY <1>4, <1>7, <2>1 DEF Restless
  <2>3. Fit(k, n, fa, la, pa, lo, ind, v)
    BY <2>2, RestlessFits
  <2> QED
    BY <1>3, <1>6, <2>3 DEF Moved
<1>8. CASE Calm(m)
  <2>1. ~m.locReq
    BY <1>8 DEF Calm, Cancelling
  <2>2. Load(n) = Load(m) + 1 /\ Load(m) \in 0..2
    BY <1>2, <1>5, <1>8, LoadIsSmall DEF Forwarded, Load, Moving
  <2>3. /\ Calm(n) /\ n.at = m.at /\ n.still = m.still /\ n.run = TRUE /\ n.proto = m.proto
        /\ n.locReq = TRUE /\ n.reason = m.reason /\ n.recvd = m.recvd
        /\ n.first = m.first /\ n.answer = m.answer /\ n.source = m.source
        /\ n.timers = m.timers \ {t}
        /\ Moving(m) => Moving(n)
        /\ (m.stage = "exit") => n.stage = "exit"
    BY <1>2, <1>5, <1>8 DEF Forwarded, Steps, Calm, Moving, q
  <2>4. CASE k = MtLr
    <3>1. Serves(m, la, pa, lo, ind, v)
      BY <1>4, <1>8, <2>4 DEF Runs
    <3>2. /\ "location" \in n.timers <=> "location" \in m.timers
          /\ "request" \in n.timers <=> "request" \in m.timers
      BY <2>3, <2>4 DEF MtLr
    <3>3. m.at \in {"null", "reqRecvd", "privStarted", "privRecvd", "reject", "closeWait"}
      BY <2>1, <3>1 DEF Serves
    <3>4. Due(n) = Due(m) + 1
      BY <2>1, <2>3, <3>2, <3>3 DEF Due, B
    <3>5. Serves(n, la, pa, lo, ind, v)
      BY <2>1, <2>2, <2>3, <3>1, <3>2, <3>3, <3>4 DEF Serves
    <3>6. ~fa
      BY <1>4, <2>4 DEF Runs, MtLr
    <3>7. Fit(k, n, fa, la, pa, lo, ind, v)
      BY <1>4, <1>8, <2>3, <2>4, <3>5, <3>6 DEF Fit, Runs, Calm, Cancelling
    <3> QED
      BY <1>3, <1>6, <3>7 DEF Moved
  <2>5. CASE k # MtLr
    <3>1. Asks(m, la, lo)
      BY <1>4, <1>8, <2>5 DEF Runs
    <3>2. /\ "location" \in n.timers <=> "location" \in m.timers
          /\ "result" \in n.timers <=> "result" \in m.timers
      BY <2>3, <2>5
    <3>3. m.at \in {"null", "reqRecvd", "netStarted"}
      BY <2>1, <3>1 DEF Asks
    <3>4. Asks(n, la, lo)
      BY <2>1, <2>2, <2>3, <3>1, <3>2, <3>3 DEF Asks, B
    <3>5. ~fa
      BY <1>4, <1>8, <3>3 DEF Runs, Gave, Calm
    <3>6. Fit(k, n, fa, la, pa, lo, ind, v)
      BY <1>4, <1>8, <2>3, <2>5, <3>4, <3>5 DEF Fit, Runs, Calm, Cancelling
    <3> QED
      BY <1>3, <1>6, <3>6 DEF Moved
  <2> QED
    BY <2>4, <2>5
<1> QED
  BY <1>7, <1>8

\* n is m but for the timers, and what it will do about assistance data.
Same(n, m) ==
    /\ n.proto = m.proto /\ n.at = m.at /\ n.stage = m.stage /\ n.cancel = m.cancel
    /\ n.source = m.source /\ n.pending = m.pending /\ n.session = m.session
    /\ n.queued = m.queued /\ n.next = m.next /\ n.locReq = m.locReq /\ n.still = m.still
    /\ n.recvd = m.recvd /\ n.first = m.first /\ n.answer = m.answer
    /\ n.reason = "ok" => m.reason = "ok"
    /\ "location" \in n.timers <=> "location" \in m.timers
    /\ "result" \in n.timers <=> "result" \in m.timers
    /\ "request" \in n.timers => "request" \in m.timers

\* A machine that is only woken is as fit as before.
LEMMA WokenFits ==
    ASSUME NEW k \in Machine, NEW m, NEW n \in State(k),
           NEW fa, NEW la, NEW pa, NEW lo, NEW ind, NEW v,
           Fit(k, m, fa, la, pa, lo, ind, v), m.proto # "ready",
           Same(n, m), n.run = m.run \/ n.run = TRUE
    PROVE  Moved(k, n, m, fa, la, pa, lo, ind, v)
<1>1. Becomes(k, n, m)
  BY DEF Becomes, Steps, Same
<1>2. Runs(k, m, fa, la, pa, lo, ind, v) /\ n.proto # "ready"
  BY DEF Fit, Same
<1>3. Moving(n) => n.run
  BY <1>2 DEF Runs, Moving, Same
<1>4. n.timers \intersect Harm(k) \subseteq m.timers
  BY DEF Same, Harm
<1>5. CASE ~Calm(m)
  <2>1. Restless(k, m, n, fa, la, pa, lo, ind, v, fa)
    BY <1>1, <1>3, <1>4, <1>5 DEF Restless, Same, Becomes
  <2>2. Fit(k, n, fa, la, pa, lo, ind, v)
    BY <2>1, RestlessFits
  <2> QED
    BY <1>1, <2>2 DEF Moved
<1>6. CASE Calm(m)
  <2>1. Load(n) = Load(m) /\ Moving(n) = Moving(m) /\ Calm(n)
    BY <1>6 DEF Load, Moving, Calm, Same
  <2>2. k = MtLr => Serves(n, la, pa, lo, ind, v)
    <3>1. Due(n) = Due(m)
      BY DEF Due, Same
    <3> QED
      BY <1>2, <1>6, <2>1, <3>1 DEF Runs, Serves, Same
  <2>3. k # MtLr => Asks(n, la, lo)
    BY <1>2, <1>6, <2>1 DEF Runs, Asks, Same
  <2>4. fa => k \in {"molr", "x3p"} /\ Gave(n)
    BY <1>2, <2>1 DEF Runs, Gave, Same
  <2>5. Runs(k, n, fa, la, pa, lo, ind, v)
    BY <1>2, <1>3, <1>6, <2>1, <2>2, <2>3, <2>4 DEF Runs, Calm, Cancelling, Same
  <2> QED
    BY <1>1, <1>2, <2>5 DEF Moved, Fit
<1> QED
  BY <1>5, <1>6

\* The same of a machine that does nothing: it is not even woken.
LEMMA RestIsKept ==
    ASSUME NEW k \in Machine, NEW m, NEW n \in State(k), NEW fa, NEW la, NEW pa, NEW lo, NEW ind, NEW v,
           NEW fa2, NEW la2, NEW pa2, NEW lo2, NEW ind2, NEW v2,
           Fit(k, m, fa, la, pa, lo, ind, v), m.proto = "ready",
           n.proto = m.proto, n.at = m.at, n.stage = m.stage, n.run = m.run,
           n.cancel = m.cancel, n.pending = m.pending, n.timers \intersect Harm(k) \subseteq m.timers
    PROVE  Fit(k, n, fa2, la2, pa2, lo2, ind2, v2)
BY DEF Fit, Rest

\* Assistance data wanted, or had.
LEMMA AssistanceFits ==
    ASSUME NEW k \in Machine, NEW m \in State(k),
           NEW fa, NEW la, NEW pa, NEW lo, NEW ind, NEW v,
           Fit(k, m, fa, la, pa, lo, ind, v), m.proto # "ready"
    PROVE  /\ Moved(k, AssistanceDataReq(m), m, fa, la, pa, lo, ind, v)
           /\ Moved(k, AdditionalAssistDataInd(m), m, fa, la, pa, lo, ind, v)
<1> DEFINE q == m.timers \ {"assist"}
           n == [m EXCEPT !.assist = TRUE, !.expected = TRUE, !.run = TRUE]
           x == [m EXCEPT !.timers = q, !.assist = TRUE, !.expected = FALSE, !.run = TRUE]
<1>0. q \in SUBSET TimerOf(k)
  BY DEF State, MachineState
<1> HIDE DEF q
<1>1. n \in State(k)
  BY FlagsAre
<1>2. x \in State(k)
  BY <1>0, TimersAre, FlagsAre
<1>3. Same(n, m) /\ n.run = TRUE
  BY DEF State, MachineState, Same
<1>4. Same(x, m) /\ x.run = TRUE
  <2>1. /\ "location" \in q <=> "location" \in m.timers
        /\ "result" \in q <=> "result" \in m.timers
        /\ "request" \in q <=> "request" \in m.timers
    BY DEF q
  <2> QED
    BY <2>1 DEF State, MachineState, Same
<1>5. AssistanceDataReq(m) = n /\ AdditionalAssistDataInd(m) = x
  BY DEF AssistanceDataReq, AdditionalAssistDataInd, q
<1> HIDE DEF n, x
<1> QED
  BY <1>1, <1>2, <1>3, <1>4, <1>5, WokenFits

LEMMA BecomesTwice ==
    ASSUME NEW k, NEW n, NEW c, NEW m, Becomes(k, c, m), Becomes(k, n, c)
    PROVE  Becomes(k, n, m)
BY DEF Becomes, Steps

\* The network has no position any more.
LEMMA NothingGiven ==
    ASSUME NEW k, NEW m, NEW fa, NEW la, NEW pa, NEW lo, NEW ind, NEW v, NEW fa2,
           Fit(k, m, fa, la, pa, lo, ind, v), ~fa2
    PROVE  Fit(k, m, fa2, la, pa, lo, ind, v)
BY DEF Fit, Runs

\* What is cancelled may have lost its timers, its answer and its reason.
LEMMA ToldIs ==
    ASSUME NEW k \in Machine, NEW x \in State(k), NEW m,
           NEW fa, NEW la, NEW pa, NEW lo, NEW ind, NEW v, NEW fa2, fa2 => fa,
           Fit(k, m, fa, la, pa, lo, ind, v), m.proto = "active",
           x.proto = m.proto, x.at = m.at, x.stage = m.stage, x.run = m.run,
           x.session = m.session, x.queued = m.queued, x.next = m.next, x.still = m.still,
           x.answer = "accepted" => m.answer = "accepted"
    PROVE  Told(k, x, m, fa2)
BY DEF Told, Fit, Runs, Steps, Cancelling, Moving

LEMMA MeasurementErrorFits ==
    ASSUME NEW k \in Machine, NEW m \in State(k), NEW cancelled \in BOOLEAN,
           NEW fa, NEW la, NEW pa, NEW lo, NEW ind, NEW v,
           Fit(k, m, fa, la, pa, lo, ind, v), m.proto = "active"
    PROVE  Moved(k, MeasurementControlErrorInd(k, m, cancelled), m, fa, la, pa, lo, ind, v)
<1> DEFINE ends == cancelled \/ (k # MtLr /\ ~m.locReq)
           stopped == {"assist"} \union IF ends \/ k = MtLr THEN {"request"} ELSE {}
           asked == IF k = "molr" THEN {"assist", "request"} ELSE {"assist"}
           q == m.timers \ stopped
           d == m.served \/ ends
           g == m.timers \intersect asked # {}
           n == [m EXCEPT !.timers = q, !.served = d]
           c == IF ends THEN CancelMachine(n, "network") ELSE [n EXCEPT !.run = TRUE]
<1>1. q \in SUBSET TimerOf(k) /\ d \in BOOLEAN /\ g \in BOOLEAN
  BY DEF State, MachineState
<1>2. /\ "location" \in q <=> "location" \in m.timers
      /\ "result" \in q <=> "result" \in m.timers
      /\ "request" \in q => "request" \in m.timers
  OBVIOUS
<1>3. MeasurementControlErrorInd(k, m, cancelled) = [c EXCEPT !.assist = g]
  BY DEF MeasurementControlErrorInd
<1> HIDE DEF q, d, g
<1>4. n \in State(k)
  BY <1>1, TimersAre, FlagsAre
<1>5. Same(n, m) /\ n.run = m.run
  BY <1>2 DEF State, MachineState, Same
<1> HIDE DEF n, ends
<1>6. Moved(k, c, m, fa, la, pa, lo, ind, v)
  <2>1. CASE ends
    <3>1. Told(k, n, m, fa)
      BY <1>4, <1>5, ToldIs DEF Same
    <3> QED
      BY <2>1, <3>1, CancelFits DEF Source
  <2>2. CASE ~ends
    <3> DEFINE e == [n EXCEPT !.run = TRUE]
    <3>1. e \in State(k)
      BY <1>4, FlagsAre
    <3>2. Same(e, n) /\ e.run = TRUE
      BY <1>4 DEF State, MachineState, Same
    <3> HIDE DEF e
    <3>3. Same(e, m)
      BY <1>5, <3>2 DEF Same
    <3>4. Moved(k, e, m, fa, la, pa, lo, ind, v)
      BY <3>1, <3>2, <3>3, WokenFits
    <3> QED
      BY <2>2, <3>4 DEF e
  <2> QED
    BY <2>1, <2>2
<1> HIDE DEF c
<1> DEFINE r == [c EXCEPT !.assist = g]
<1>7. c \in State(k) /\ c.proto = m.proto /\ Fit(k, c, fa, la, pa, lo, ind, v)
  BY <1>6 DEF Moved, Becomes, Steps
<1>8. r \in State(k)
  BY <1>1, <1>7, FlagsAre
<1>9. Same(r, c) /\ r.run = c.run
  BY <1>7 DEF State, MachineState, Same
<1> HIDE DEF r
<1>10. Moved(k, r, c, fa, la, pa, lo, ind, v)
  BY <1>7, <1>8, <1>9, WokenFits
<1>11. Becomes(k, r, m)
  BY <1>6, <1>10, BecomesTwice DEF Moved
<1> QED
  BY <1>3, <1>10, <1>11 DEF Moved, r

LEMMA NetworkErrorFits ==
    ASSUME NEW k \in Machine, NEW m \in State(k),
           NEW fa, NEW la, NEW pa, NEW lo, NEW ind, NEW v, NEW fa2, ~fa2,
           Fit(k, m, fa, la, pa, lo, ind, v), m.proto = "active"
    PROVE  Moved(k, NetworkErrorInd(k, m), m, fa2, la, pa, lo, ind, v)
<1> DEFINE a == m.assist \/ (k # MtLr /\ ~m.locReq)
           b == a \/ m.expected
           n == [m EXCEPT !.assist = a]
           x == [n EXCEPT !.assist = b, !.expected = FALSE]
<1>1. a \in BOOLEAN /\ b \in BOOLEAN
  BY DEF State, MachineState
<1>2. NetworkErrorInd(k, m) = IF m.source = "netError" THEN n
                              ELSE CancelMachine([n EXCEPT !.assist = @ \/ m.expected, !.expected = FALSE], "netError")
  BY DEF NetworkErrorInd
<1>3. n.assist = a
  BY DEF State, MachineState
<1> HIDE DEF a, b
<1>4. n \in State(k)
  BY <1>1, FlagsAre
<1>5. x \in State(k)
  BY <1>1, <1>4, FlagsAre
<1>6. Same(n, m) /\ n.run = m.run
  BY DEF State, MachineState, Same
<1>7. Same(x, n) /\ x.run = n.run
  BY <1>4 DEF State, MachineState, Same
<1>8. [n EXCEPT !.assist = @ \/ m.expected, !.expected = FALSE] = x
  BY <1>3 DEF b
<1> HIDE DEF n, x
<1>9. Fit(k, m, fa2, la, pa, lo, ind, v)
  BY NothingGiven
<1>10. CASE m.source = "netError"
  BY <1>2, <1>4, <1>6, <1>9, <1>10, WokenFits
<1>11. CASE m.source # "netError"
  <2>1. Told(k, x, m, fa2)
    BY <1>5, <1>6, <1>7, ToldIs DEF Same
  <2>2. Moved(k, CancelMachine(x, "netError"), m, fa2, la, pa, lo, ind, v)
    BY <2>1, CancelFits DEF Source
  <2> QED
    BY <1>2, <1>8, <1>11, <2>2
<1> QED
  BY <1>10, <1>11

LEMMA TimeoutFits ==
    ASSUME NEW k \in Machine, NEW m \in State(k),
           NEW fa, NEW la, NEW pa, NEW lo, NEW ind, NEW v,
           Fit(k, m, fa, la, pa, lo, ind, v), m.proto = "active"
    PROVE  Moved(k, MeasurementControlTimeout(k, m), m, fa, la, pa, lo, ind, v)
<1> DEFINE x == [m EXCEPT !.reason = "timeout"]
           y == [m EXCEPT !.assist = TRUE]
<1>1. x \in State(k) /\ y \in State(k)
  BY FlagsAre, AnswersAre DEF Reason
<1>2. /\ x.proto = m.proto /\ x.at = m.at /\ x.stage = m.stage /\ x.run = m.run
      /\ x.session = m.session /\ x.queued = m.queued /\ x.next = m.next /\ x.still = m.still
      /\ x.answer = m.answer
  BY DEF State, MachineState
<1>3. /\ y.proto = m.proto /\ y.at = m.at /\ y.stage = m.stage /\ y.run = m.run
      /\ y.session = m.session /\ y.queued = m.queued /\ y.next = m.next /\ y.still = m.still
      /\ y.answer = m.answer
  BY DEF State, MachineState
<1>4. \/ MeasurementControlTimeout(k, m) = CancelMachine(m, "none")
      \/ MeasurementControlTimeout(k, m) = CancelMachine(x, "netTimeout")
      \/ MeasurementControlTimeout(k, m) = CancelMachine(y, "netTimeout")
      \/ MeasurementControlTimeout(k, m) = CancelMachine(m, "netTimeout")
  BY DEF MeasurementControlTimeout
<1> HIDE DEF x, y
<1>5. Told(k, m, m, fa) /\ Told(k, x, m, fa) /\ Told(k, y, m, fa)
  BY <1>1, <1>2, <1>3, ToldIs
<1> QED
  BY <1>4, <1>5, CancelFits DEF Source

\* LBS answers a location request it was asked for this session, which it
\* does after the privacy request.
LEMMA LocationFits ==
    ASSUME NEW k \in Machine, NEW m \in State(k), NEW reason \in Reason,
           NEW fa, NEW la, NEW pa, NEW lo, NEW ind, NEW v, NEW la2, NEW lo2,
           Fit(k, m, fa, la, pa, lo, ind, v), m.proto # "ready",
           la, ~pa, ~la2, lo \/ reason = "ok" => lo2
    PROVE  Moved(k, LocationResp(m, reason), m, fa, la2, pa, lo2, ind, v)
<1> DEFINE q == m.timers \ {"location"}
           x == [m EXCEPT !.reason = reason, !.timers = q]
           n == Forward(x)
<1>0. q \in SUBSET TimerOf(k)
  BY DEF State, MachineState
<1> HIDE DEF q
<1>1. x \in State(k)
  BY <1>0, TimersAre, AnswersAre
<1>2. /\ x.timers = q /\ x.locReq = m.locReq /\ x.run = m.run /\ x.stage = m.stage
      /\ x.pending = m.pending /\ x.cancel = m.cancel /\ x.source = m.source
      /\ x.reason = reason /\ x.recvd = m.recvd /\ x.first = m.first /\ x.answer = m.answer
      /\ x.proto = m.proto /\ x.session = m.session /\ x.queued = m.queued
      /\ x.next = m.next /\ x.still = m.still /\ x.at = m.at
  BY DEF State, MachineState
<1>3. LocationResp(m, reason) = n
  BY DEF LocationResp, q
<1> HIDE DEF x
<1>4. Runs(k, m, fa, la, pa, lo, ind, v)
  BY DEF Fit
<1>5. n \in State(k) /\ Forwarded(n, x)
  BY <1>1, <1>2, <1>4, ForwardIs DEF Moving, Runs
<1> HIDE DEF n
<1>6. Becomes(k, n, m)
  BY <1>2, <1>5 DEF Becomes, Forwarded, Steps
<1>7. CASE ~Calm(m)
  <2>1. /\ Steps(n, m) /\ n.cancel = m.cancel /\ n.source = m.source /\ n.run = TRUE
        /\ n.timers \intersect Harm(k) \subseteq m.timers
    BY <1>2, <1>5, <1>6 DEF Forwarded, Becomes, q
  <2>2. Restless(k, m, n, fa, la, pa, lo, ind, v, fa)
    BY <1>7, <2>1 DEF Restless
  <2>3. Fit(k, n, fa, la2, pa, lo2, ind, v)
    BY <2>2, RestlessFits
  <2> QED
    BY <1>3, <1>6, <2>3 DEF Moved
<1>8. CASE Calm(m)
  <2>1. Load(n) = Load(m) + 1 /\ Load(m) \in 0..2
    BY <1>2, <1>5, <1>8, LoadIsSmall DEF Forwarded, Load, Moving
  <2>2. /\ Calm(n) /\ n.at = m.at /\ n.still = m.still /\ n.run = TRUE /\ n.proto = m.proto
        /\ n.locReq = m.locReq /\ n.reason = reason /\ n.recvd = m.recvd
        /\ n.first = m.first /\ n.answer = m.answer /\ n.source = m.source
        /\ n.timers = q
        /\ Moving(m) => Moving(n)
    BY <1>2, <1>5, <1>8 DEF Forwarded, Steps, Calm, Moving
  <2>3. /\ "location" \notin n.timers
        /\ "request" \in n.timers => "request" \in m.timers
        /\ "result" \in n.timers => "result" \in m.timers
    BY <2>2 DEF q
  <2>4. CASE k = MtLr
    <3>1. Serves(m, la, pa, lo, ind, v)
      BY <1>4, <1>8, <2>4 DEF Runs
    <3>2. m.at \in {"locReq", "privAfter", "rejectAfter"} /\ "location" \in m.timers /\ m.recvd
      BY <3>1 DEF Serves
    <3>3. Due(n) = Due(m) + 1
      BY <2>2, <2>3, <3>2 DEF Due, B
    <3>4. Serves(n, la2, pa, lo2, ind, v)
      BY <2>1, <2>2, <2>3, <3>1, <3>2, <3>3 DEF Serves
    <3>5. ~fa
      BY <1>4, <2>4 DEF Runs, MtLr
    <3>6. Fit(k, n, fa, la2, pa, lo2, ind, v)
      BY <1>4, <1>8, <2>2, <2>4, <3>2, <3>4, <3>5 DEF Fit, Runs, Calm, Cancelling
    <3> QED
      BY <1>3, <1>6, <3>6 DEF Moved
  <2>5. CASE k # MtLr
    <3>1. Asks(m, la, lo)
      BY <1>4, <1>8, <2>5 DEF Runs
    <3>2. m.at = "locReq" /\ "location" \in m.timers /\ Load(m) = 0
      BY <3>1 DEF Asks, B
    <3>3. Asks(n, la2, lo2)
      BY <2>1, <2>2, <2>3, <3>1, <3>2 DEF Asks, B
    <3>4. ~fa
      BY <1>4, <1>8, <3>2 DEF Runs, Gave, Calm
    <3>5. Fit(k, n, fa, la2, pa, lo2, ind, v)
      BY <1>4, <1>8, <2>2, <2>5, <3>2, <3>3, <3>4 DEF Fit, Runs, Calm, Cancelling
    <3> QED
      BY <1>3, <1>6, <3>5 DEF Moved
  <2> QED
    BY <2>4, <2>5
<1> QED
  BY <1>7, <1>8

\* LBS answers a privacy request.
LEMMA PrivacyFits ==
    ASSUME NEW m \in State(MtLr), NEW a \in Answer,
           NEW fa, NEW la, NEW pa, NEW lo, NEW ind, NEW v, NEW pa2,
           Fit(MtLr, m, fa, la, pa, lo, ind, v), m.proto = "active", pa, ~pa2
    PROVE  /\ PrivacyResp(m, a) \in State(MtLr) /\ Steps(PrivacyResp(m, a), m)
           /\ PrivacyResp(m, a).source = m.source /\ PrivacyResp(m, a).answer = a
           /\ Fit(MtLr, PrivacyResp(m, a), fa, la, pa2, lo, ind, a)
<1> DEFINE q == m.timers \ {"request"}
           r == IF a = "accepted" THEN m.reason ELSE "denied"
           y == [m EXCEPT !.timers = q, !.recvd = TRUE, !.handled = FALSE, !.answer = a]
           x == [y EXCEPT !.reason = r]
           n == Forward(x)
<1>0. q \in SUBSET TimerOf(MtLr) /\ r \in Reason /\ MtLr \in Machine
  BY DEF State, MachineState, Reason, Machine
<1>1. y \in State(MtLr)
  BY <1>0, TimersAre, FlagsAre, AnswersAre
<1>2. x \in State(MtLr)
  BY <1>0, <1>1, AnswersAre
<1>3. PrivacyResp(m, a) = n
  <2>1. y.reason = m.reason
    BY DEF State, MachineState
  <2>2. x = [y EXCEPT !.reason = IF a = "accepted" THEN @ ELSE "denied"]
    BY <2>1
  <2> QED
    BY <2>2 DEF PrivacyResp
<1> HIDE DEF q, r
<1>4. /\ y.timers = q /\ y.locReq = m.locReq /\ y.run = m.run /\ y.stage = m.stage
      /\ y.pending = m.pending /\ y.cancel = m.cancel /\ y.source = m.source
      /\ y.recvd = TRUE /\ y.first = m.first /\ y.answer = a
      /\ y.proto = m.proto /\ y.session = m.session /\ y.queued = m.queued
      /\ y.next = m.next /\ y.still = m.still /\ y.at = m.at
  BY DEF State, MachineState
<1>5. /\ x.timers = y.timers /\ x.locReq = y.locReq /\ x.run = y.run /\ x.stage = y.stage
      /\ x.pending = y.pending /\ x.cancel = y.cancel /\ x.source = y.source
      /\ x.reason = r /\ x.recvd = y.recvd /\ x.first = y.first /\ x.answer = y.answer
      /\ x.proto = y.proto /\ x.session = y.session /\ x.queued = y.queued
      /\ x.next = y.next /\ x.still = y.still /\ x.at = y.at
  BY <1>1 DEF State, MachineState
<1> HIDE DEF x, y
<1>6. Runs(MtLr, m, fa, la, pa, lo, ind, v) /\ ~fa
  BY DEF Fit, Runs, MtLr
<1>7. n \in State(MtLr) /\ Forwarded(n, x)
  BY <1>0, <1>2, <1>4, <1>5, <1>6, ForwardIs DEF Moving, Runs
<1> HIDE DEF n
<1>8. Steps(n, m) /\ n.source = m.source /\ n.answer = a /\ n.cancel = m.cancel /\ n.run = TRUE
  BY <1>4, <1>5, <1>7 DEF Forwarded, Steps
<1>9. n.timers \intersect Harm(MtLr) \subseteq m.timers
  BY <1>4, <1>5, <1>7 DEF Forwarded, q
<1>10. CASE ~Calm(m)
  <2>1. Restless(MtLr, m, n, fa, la, pa, lo, ind, v, fa)
    BY <1>8, <1>9, <1>10 DEF Restless
  <2>2. Fit(MtLr, n, fa, la, pa2, lo, ind, a)
    BY <2>1, RestlessFits
  <2> QED
    BY <1>3, <1>7, <1>8, <2>2
<1>11. CASE Calm(m)
  <2>1. Load(n) = Load(m) + 1 /\ Load(m) \in 0..2
    BY <1>0, <1>4, <1>5, <1>7, <1>11, LoadIsSmall DEF Forwarded, Load, Moving
  <2>2. /\ Calm(n) /\ n.at = m.at /\ n.still = m.still /\ n.proto = m.proto
        /\ n.locReq = m.locReq /\ n.recvd = TRUE /\ n.first = m.first
        /\ n.timers = q
        /\ Moving(m) => Moving(n)
    BY <1>4, <1>5, <1>7, <1>11 DEF Forwarded, Steps, Calm, Moving
  <2>3. /\ "location" \in n.timers <=> "location" \in m.timers
        /\ "request" \notin n.timers
    BY <2>2 DEF q
  <2>4. Serves(m, la, pa, lo, ind, v)
    BY <1>6, <1>11 DEF Runs
  <2>5. m.at \in {"privStarted", "measured", "netLocSent", "locReq"} /\ ~m.recvd /\ ~m.first
    <3>1. m.at \in MtLrState
      BY DEF State, MachineState
    <3> QED
      BY <2>4, <3>1 DEF Serves, MtLrState
  <2>6. Due(n) = Due(m) + 1
    BY <2>2, <2>3, <2>5 DEF Due, B
  <2>7. Serves(n, la, pa2, lo, ind, a)
    BY <1>8, <2>1, <2>2, <2>3, <2>4, <2>5, <2>6 DEF Serves
  <2>8. Fit(MtLr, n, fa, la, pa2, lo, ind, a)
    BY <1>6, <1>8, <1>11, <2>2, <2>5, <2>7 DEF Fit, Runs, Calm, Cancelling
  <2> QED
    BY <1>3, <1>7, <1>8, <2>8
<1> QED
  BY <1>10, <1>11

\* The network's result.
LEMMA ResultFits ==
    ASSUME NEW k \in Machine, NEW m \in State(k), NEW position \in BOOLEAN,
           NEW fa, NEW la, NEW pa, NEW lo, NEW ind, NEW v, NEW fa2,
           Fit(k, m, fa, la, pa, lo, ind, v), m.proto = "active", fa, ~fa2
    PROVE  Moved(k, SessionResult(m, position), m, fa2, la, pa, lo, ind, v)
<1> DEFINE q == m.timers \ {"result"}
           x == [m EXCEPT !.timers = q, !.result = position]
           n == Forward(x)
<1>0. q \in SUBSET TimerOf(k)
  BY DEF State, MachineState
<1> HIDE DEF q
<1>1. x \in State(k)
  BY <1>0, TimersAre, FlagsAre
<1>2. /\ x.timers = q /\ x.locReq = m.locReq /\ x.run = m.run /\ x.stage = m.stage
      /\ x.pending = m.pending /\ x.cancel = m.cancel /\ x.source = m.source
      /\ x.reason = m.reason /\ x.recvd = m.recvd /\ x.first = m.first /\ x.answer = m.answer
      /\ x.proto = m.proto /\ x.session = m.session /\ x.queued = m.queued
      /\ x.next = m.next /\ x.still = m.still /\ x.at = m.at
  BY DEF State, MachineState
<1>3. SessionResult(m, position) = n
  BY DEF SessionResult, q
<1> HIDE DEF x
<1>4. Runs(k, m, fa, la, pa, lo, ind, v)
  BY DEF Fit
<1>5. n \in State(k) /\ Forwarded(n, x)
  BY <1>1, <1>2, <1>4, ForwardIs DEF Moving, Runs
<1> HIDE DEF n
<1>6. Becomes(k, n, m)
  BY <1>2, <1>5 DEF Becomes, Forwarded, Steps
<1>7. CASE ~Calm(m)
  <2>1. /\ Steps(n, m) /\ n.cancel = m.cancel /\ n.source = m.source /\ n.run = TRUE
        /\ n.timers \intersect Harm(k) \subseteq m.timers
    BY <1>2, <1>5, <1>6 DEF Forwarded, Becomes, q
  <2>2. Restless(k, m, n, fa, la, pa, lo, ind, v, fa2)
    BY <1>7, <2>1 DEF Restless
  <2>3. Fit(k, n, fa2, la, pa, lo, ind, v)
    BY <2>2, RestlessFits
  <2> QED
    BY <1>3, <1>6, <2>3 DEF Moved
<1>8. CASE Calm(m)
  <2>1. m.at = "locSent" /\ Load(m) = 0 /\ k # MtLr
    BY <1>4, <1>8 DEF Runs, Gave, Calm, MtLr
  <2>2. Load(n) = 1
    <3>1. m.pending < KMaxQueueEntry
      BY <1>8, LoadIsSmall
    <3>2. Load(x) = Load(m)
      BY <1>2 DEF Load, Moving
    <3> QED
      BY <1>2, <1>5, <2>1, <3>1, <3>2 DEF Forwarded
  <2>3. /\ Calm(n) /\ n.at = m.at /\ n.still = m.still /\ n.run = TRUE /\ n.proto = m.proto
        /\ n.locReq = m.locReq /\ n.timers = q /\ n.source = m.source
    BY <1>2, <1>5, <1>8 DEF Forwarded, Steps, Calm
  <2>4. Asks(m, la, lo)
    BY <1>4, <1>8, <2>1 DEF Runs
  <2>5. "result" \notin n.timers /\ ("location" \in n.timers => "location" \in m.timers)
    BY <2>3 DEF q
  <2>6. Asks(n, la, lo)
    BY <2>1, <2>2, <2>3, <2>4, <2>5 DEF Asks
  <2>7. Fit(k, n, fa2, la, pa, lo, ind, v)
    BY <1>4, <1>8, <2>1, <2>3, <2>6 DEF Fit, Runs, Calm, Cancelling
  <2> QED
    BY <1>3, <1>6, <2>7 DEF Moved
<1> QED
  BY <1>7, <1>8

-----------------------------------------------------------------------------
(***************************************************************************)
(* The two runs of a transition.                                           *)
(***************************************************************************)

\* The first run: out of the old state.
Left(k, m, d) == [m EXCEPT !.run = FALSE, !.still = d, !.stage = "enter", !.run = TRUE]

LEMMA LeftIs ==
    ASSUME NEW k \in Machine, NEW m \in State(k), NEW d \in BOOLEAN
    PROVE  LET n == Left(k, m, d) IN
           /\ n \in State(k) /\ n.stage = "enter" /\ n.run = TRUE /\ n.still = d
           /\ n.proto = m.proto /\ n.at = m.at /\ n.cancel = m.cancel /\ n.source = m.source
           /\ n.pending = m.pending /\ n.session = m.session /\ n.queued = m.queued
           /\ n.next = m.next /\ n.locReq = m.locReq /\ n.recvd = m.recvd
           /\ n.first = m.first /\ n.answer = m.answer /\ n.reason = m.reason
           /\ n.timers = m.timers
<1> DEFINE x == [m EXCEPT !.run = FALSE]
           y == [x EXCEPT !.still = d]
           z == [y EXCEPT !.stage = "enter"]
           n == [z EXCEPT !.run = TRUE]
<1>1. x \in State(k)
  BY FlagsAre
<1>2. y \in State(k)
  BY <1>1, FlagsAre
<1>3. z \in State(k)
  BY <1>2, StagesAre
<1>4. n \in State(k)
  BY <1>3, FlagsAre
<1>5. Left(k, m, d) = n
  BY DEF Left
<1>6. /\ x.proto = m.proto /\ x.at = m.at /\ x.cancel = m.cancel /\ x.source = m.source
      /\ x.pending = m.pending /\ x.session = m.session /\ x.queued = m.queued
      /\ x.next = m.next /\ x.locReq = m.locReq /\ x.recvd = m.recvd
      /\ x.first = m.first /\ x.answer = m.answer /\ x.reason = m.reason
      /\ x.timers = m.timers
  BY DEF State, MachineState
<1> HIDE DEF x
<1>7. /\ n.stage = "enter" /\ n.run = TRUE /\ n.still = d
      /\ n.proto = x.proto /\ n.at = x.at /\ n.cancel = x.cancel /\ n.source = x.source
      /\ n.pending = x.pending /\ n.session = x.session /\ n.queued = x.queued
      /\ n.next = x.next /\ n.locReq = x.locReq /\ n.recvd = x.recvd
      /\ n.first = x.first /\ n.answer = x.answer /\ n.reason = x.reason
      /\ n.timers = x.timers
  BY <1>1 DEF State, MachineState
<1> HIDE DEF n
<1> QED
  BY <1>4, <1>5, <1>6, <1>7

\* Whether X3P still answers its cancel.
StillAfter(k, m) ==
    (CASE m.at = "null" -> FALSE [] m.at = "cancelling" -> TRUE [] OTHER -> m.still) /\ k = "x3p"

\* The network keeps its position but of a machine that ends in order.
GivenAfter(k, m, fa) ==
    fa /\ ~(m.at = "netClose" /\ k # MtLr /\ ~IsNetworkConnectionError(m))

LEMMA LeftFits ==
    ASSUME NEW k \in Machine, NEW m \in State(k),
           NEW fa, NEW la, NEW pa, NEW lo, NEW ind, NEW v, NEW fa2,
           Fit(k, m, fa, la, pa, lo, ind, v), m.proto # "ready", m.stage = "exit",
           fa2 => GivenAfter(k, m, fa)
    PROVE  Fit(k, Left(k, m, StillAfter(k, m)), fa2, la, pa, lo, ind, v)
<1> DEFINE d == StillAfter(k, m)
           n == Left(k, m, d)
<1> SUFFICES Fit(k, n, fa2, la, pa, lo, ind, v)
  OBVIOUS
<1>1. d \in BOOLEAN
  BY DEF StillAfter, State, MachineState
<1>2. m.still \in BOOLEAN
  BY DEF State, MachineState
<1>3. ~d \/ m.at = "cancelling" \/ (m.still /\ m.at # "null")
  BY <1>2 DEF StillAfter
<1> HIDE DEF d
<1>4. /\ n \in State(k) /\ n.stage = "enter" /\ n.run = TRUE /\ n.still = d
      /\ n.proto = m.proto /\ n.at = m.at /\ n.cancel = m.cancel /\ n.source = m.source
      /\ n.pending = m.pending /\ n.locReq = m.locReq /\ n.recvd = m.recvd
      /\ n.first = m.first /\ n.answer = m.answer /\ n.reason = m.reason
      /\ n.timers = m.timers
  BY <1>1, LeftIs
<1> HIDE DEF n
<1>5. Runs(k, m, fa, la, pa, lo, ind, v) /\ n.proto # "ready"
  BY <1>4 DEF Fit
<1>6. Load(n) = Load(m) /\ Moving(n) /\ Moving(m) /\ (Calm(n) <=> Calm(m))
  BY <1>4 DEF Load, Moving, Calm
<1>7. /\ n.cancel \/ Cancelling(n) => n.timers \intersect Harm(k) = {}
      /\ Cancelling(n) => ~n.cancel /\ n.at \in Ends(k)
      /\ n.at = "cancelling" => Cancelling(n)
      /\ Calm(n) => n.source = "none"
  BY <1>4, <1>5, <1>6 DEF Runs, Cancelling
<1>8. ASSUME Calm(n) => IF k = MtLr THEN Serves(n, la, pa, lo, ind, v) ELSE Asks(n, la, lo),
             fa2 => k \in {"molr", "x3p"} /\ Gave(n),
             (n.at = "null" /\ n.stage = "exit") \/ Cancelling(n) \/ ~n.still
      PROVE  Fit(k, n, fa2, la, pa, lo, ind, v)
  <2>1. n.proto # "ready" /\ (Moving(n) => n.run)
    BY <1>4, <1>5
  <2> QED
    BY <1>7, <1>8, <2>1 DEF Fit, Runs
<1>9. fa2 => fa
  BY DEF GivenAfter
<1>10. CASE k = MtLr /\ Calm(m)
  <2>1. Serves(m, la, pa, lo, ind, v) /\ ~fa
    BY <1>5, <1>10 DEF Runs, MtLr
  <2>2. Due(n) = Due(m)
    BY <1>4 DEF Due
  <2>3. Serves(n, la, pa, lo, ind, v)
    BY <1>4, <1>6, <2>1, <2>2 DEF Serves
  <2>4. ~n.still
    BY <1>2, <1>3, <1>4, <1>5, <1>10 DEF Runs, Calm, Cancelling, StillAfter, d, MtLr
  <2> QED
    BY <1>10, <1>8, <1>9, <2>1, <2>3, <2>4
<1>11. CASE k # MtLr /\ Calm(m)
  <2>1. Asks(m, la, lo)
    BY <1>5, <1>11 DEF Runs
  <2>2. Asks(n, la, lo)
    BY <1>4, <1>6, <2>1 DEF Asks
  <2>3. m.pending \in Nat
    BY DEF State, MachineState, KMaxQueueEntry
  <2>4. Load(m) # 0
    BY <1>6, <2>3 DEF Load, B
  <2>5. ~fa
    BY <1>5, <1>11, <2>4 DEF Runs, Gave, Calm
  <2>6. ~n.still
    BY <1>3, <1>4, <1>5, <1>11, <2>1 DEF Runs, Calm, Cancelling, Asks
  <2> QED
    BY <1>11, <1>8, <1>9, <2>2, <2>5, <2>6
<1>12. CASE ~Calm(m)
  <2>1. (n.at = "null" /\ n.stage = "exit") \/ Cancelling(n) \/ ~n.still
    BY <1>3, <1>4, <1>5 DEF Runs, Cancelling
  <2>2. fa2 => k \in {"molr", "x3p"} /\ Gave(n)
    <3> SUFFICES ASSUME fa2
                 PROVE  k \in {"molr", "x3p"} /\ Gave(n)
      OBVIOUS
    <3>1. fa /\ k \in {"molr", "x3p"} /\ Gave(m)
      BY <1>5 DEF GivenAfter, Runs
    <3>2. ~(m.proto = "cancelling" /\ m.at = "netClose")
      BY <3>1 DEF GivenAfter, Gave, IsNetworkConnectionError, Cancelling, MtLr
    <3> QED
      BY <1>4, <1>12, <3>1, <3>2 DEF Gave, Calm
  <2> QED
    BY <1>6, <1>12, <1>8, <2>1, <2>2
<1> QED
  BY <1>10, <1>11, <1>12

\* The second run ends with a move of its own, or one for the queue.
Settle(k, e) ==
    LET p == IF Transitory(k, e) THEN Perform(e) ELSE e
        n == [p EXCEPT !.pending = @ - 1]
    IN  IF p.run \/ p.pending = 0 THEN p
        ELSE IF k = "x3p" /\ p.still THEN n ELSE Perform(n)

\* n is e but for what moves it.
Alike(n, e) ==
    /\ n.proto = e.proto /\ n.at = e.at /\ n.cancel = e.cancel /\ n.source = e.source
    /\ n.session = e.session /\ n.queued = e.queued /\ n.next = e.next
    /\ n.locReq = e.locReq /\ n.recvd = e.recvd /\ n.first = e.first
    /\ n.answer = e.answer /\ n.reason = e.reason /\ n.still = e.still
    /\ n.timers = e.timers

Settled(k, n, e) ==
    /\ n \in State(k) /\ Alike(n, e)
    /\ n.stage \in {"null", "exit"} /\ (Moving(n) => n.run)
    /\ Transitory(k, e) \/ ~e.still =>
          /\ Load(n) = e.pending + B(Transitory(k, e))
          /\ Moving(n) <=> Load(n) # 0

LEMMA SettleIs ==
    ASSUME NEW k \in Machine, NEW e \in State(k), e.stage = "null", ~e.run
    PROVE  Settled(k, Settle(k, e), e)
<1>1. e.pending \in 0..KMaxQueueEntry /\ e.pending \in Nat
  BY DEF State, MachineState, KMaxQueueEntry
<1>2. CASE Transitory(k, e)
  <2> DEFINE p == Perform(e)
  <2>1. p \in State(k) /\ Forwarded(p, e) /\ p.stage = "exit" /\ p.pending = e.pending
    BY PerformIs
  <2> HIDE DEF p
  <2>2. Settle(k, e) = p
    BY <1>2, <2>1 DEF Settle, p, Forwarded
  <2>3. Load(p) = e.pending + 1 /\ Load(p) # 0 /\ Moving(p)
    BY <1>1, <2>1 DEF Load, Moving, B
  <2> QED
    BY <1>2, <2>1, <2>2, <2>3 DEF Settled, Alike, Forwarded, Steps, B
<1>3. CASE ~Transitory(k, e) /\ e.pending = 0
  <2>1. Settle(k, e) = e
    BY <1>3 DEF Settle
  <2> QED
    BY <1>3, <2>1 DEF Settled, Alike, Load, Moving, B
<1>4. CASE ~Transitory(k, e) /\ e.pending # 0
  <2> DEFINE j == e.pending - 1
             n == [e EXCEPT !.pending = j]
             q == Perform(n)
  <2>1. j \in 0..KMaxQueueEntry /\ j \in Nat
    BY <1>1, <1>4 DEF KMaxQueueEntry
  <2>2. Settle(k, e) = IF k = "x3p" /\ e.still THEN n ELSE q
    BY <1>4 DEF Settle
  <2> HIDE DEF j
  <2>3. n \in State(k)
    BY <2>1 DEF State, MachineState
  <2>4. Alike(n, e) /\ n.stage = e.stage /\ n.run = e.run /\ n.pending = j
    BY DEF Alike, State, MachineState
  <2> HIDE DEF n
  <2>5. q \in State(k) /\ Forwarded(q, n) /\ q.stage = "exit" /\ q.pending = n.pending
    BY <2>3, <2>4, PerformIs
  <2> HIDE DEF q
  <2>6. Load(q) = e.pending /\ Load(q) # 0 /\ Moving(q)
    BY <1>1, <1>4, <2>4, <2>5 DEF Load, Moving, B, j
  <2>7. Alike(q, e)
    BY <2>4, <2>5 DEF Alike, Forwarded, Steps
  <2>8. CASE k = "x3p" /\ e.still
    BY <1>4, <2>2, <2>3, <2>4, <2>8 DEF Settled, Moving
  <2>9. CASE ~(k = "x3p" /\ e.still)
    <3>1. e.pending = e.pending + 0
      BY <1>1
    <3> QED
      BY <1>4, <2>2, <2>5, <2>6, <2>7, <2>9, <3>1 DEF Settled, Forwarded, B
  <2> QED
    BY <2>8, <2>9
<1> QED
  BY <1>2, <1>3, <1>4

\* The machine at the beginning of its second run.
Entering(m) == [m EXCEPT !.run = FALSE, !.stage = "null"]

LEMMA EnteringIs ==
    ASSUME NEW k \in Machine, NEW m \in State(k)
    PROVE  /\ Entering(m) \in State(k) /\ Alike(Entering(m), m)
           /\ Entering(m).run = FALSE /\ Entering(m).stage = "null"
           /\ Entering(m).pending = m.pending
<1> DEFINE n == [m EXCEPT !.run = FALSE, !.stage = "null"]
<1>1. [m EXCEPT !.run = FALSE] \in State(k)
  BY FlagsAre
<1>2. n \in State(k)
  BY <1>1, StagesAre
<1>3. Alike(n, m) /\ n.run = FALSE /\ n.stage = "null" /\ n.pending = m.pending
  BY DEF Alike, State, MachineState
<1> QED
  BY <1>2, <1>3 DEF Entering

\* What no transition changes.
Kept(t, y) ==
    /\ t.session = y.session /\ t.queued = y.queued /\ t.next = y.next
    /\ t.pending = y.pending /\ t.run = y.run /\ t.stage = y.stage
    /\ t.source = y.source /\ t.still = y.still /\ t.locReq = y.locReq
    /\ t.reason = y.reason /\ t.recvd = y.recvd /\ t.answer = y.answer

\* The transition of a machine that was cancelled.
LEMMA ToCancelling ==
    ASSUME NEW k \in Machine, NEW y \in State(k), y.cancel
    PROVE  LET t == Transition(k, y) IN
           /\ t \in State(k) /\ Kept(t, y) /\ t.timers = y.timers /\ t.first = y.first
           /\ t.cancel = FALSE /\ t.proto = "cancelling" /\ t.at = "cancelling"
<1> DEFINE x == [y EXCEPT !.cancel = FALSE]
           t == [x EXCEPT !.proto = "cancelling", !.at = "cancelling"]
<1>1. x \in State(k)
  BY FlagsAre
<1>2. Kept(x, y) /\ x.timers = y.timers /\ x.first = y.first /\ x.cancel = FALSE
  BY DEF State, MachineState, Kept
<1>3. Transition(k, y) = t
  BY DEF Transition
<1> HIDE DEF x
<1>4. t \in State(k)
  <2>1. [x EXCEPT !.proto = "cancelling"] \in State(k)
    BY <1>1, ProtosAre
  <2> QED
    BY <2>1, PlaceIs DEF MtLrState, OriginatedState
<1>5. /\ Kept(t, x) /\ t.timers = x.timers /\ t.first = x.first /\ t.cancel = x.cancel
      /\ t.proto = "cancelling" /\ t.at = "cancelling"
  BY <1>1 DEF State, MachineState, Kept
<1> HIDE DEF t
<1> QED
  BY <1>2, <1>3, <1>4, <1>5 DEF Kept

LEMMA PlacesAre ==
    ASSUME NEW k \in Machine, NEW y \in State(k),
           NEW a, a \in IF k = MtLr THEN MtLrState ELSE OriginatedState
    PROVE  LET t == [y EXCEPT !.at = a] IN
           /\ t \in State(k) /\ Kept(t, y) /\ t.timers = y.timers /\ t.first = y.first
           /\ t.cancel = y.cancel /\ t.proto = y.proto /\ t.at = a
<1>1. [y EXCEPT !.at = a] \in State(k)
  BY PlaceIs
<1> DEFINE t == [y EXCEPT !.at = a]
<1>2. /\ Kept(t, y) /\ t.timers = y.timers /\ t.first = y.first
      /\ t.cancel = y.cancel /\ t.proto = y.proto /\ t.at = a
  BY DEF State, MachineState, Kept
<1> QED
  BY <1>1, <1>2

LEMMA CompleteIs ==
    ASSUME NEW k \in Machine, NEW y \in State(k)
    PROVE  LET t == Complete(y) IN
           /\ t \in State(k) /\ Kept(t, y) /\ t.timers = y.timers /\ t.first = y.first
           /\ t.cancel = y.cancel /\ t.proto = "ready" /\ t.at = "null"
<1> DEFINE t == [y EXCEPT !.at = "null", !.proto = "ready"]
<1>1. t \in State(k)
  <2>1. [y EXCEPT !.at = "null"] \in State(k)
    BY PlaceIs DEF MtLrState, OriginatedState
  <2> QED
    BY <2>1, ProtosAre
<1>2. /\ Kept(t, y) /\ t.timers = y.timers /\ t.first = y.first
      /\ t.cancel = y.cancel /\ t.proto = "ready" /\ t.at = "null"
  BY DEF State, MachineState, Kept
<1> QED
  BY <1>1, <1>2 DEF Complete

\* Where a machine that asks the network goes.
GoesTo(y, a) ==
    IF y.at = "netClose" THEN a \in {"resultSent", "clientClose"} ELSE a = Following[y.at]

LEMMA OriginatedGoes ==
    ASSUME NEW k \in Machine, k # MtLr, NEW y \in State(k), ~y.cancel
    PROVE  LET t == Transition(k, y) IN
           /\ t \in State(k) /\ Kept(t, y) /\ t.timers = y.timers /\ t.first = y.first
           /\ t.cancel = y.cancel
           /\ IF y.at = "closed" THEN t.proto = "ready" /\ t.at = "null"
              ELSE t.proto = y.proto /\ GoesTo(y, t.at)
<1>1. y.at \in OriginatedState
  BY DEF State, MachineState
<1>2. Transition(k, y) = OriginatedTransition(y)
  BY DEF Transition
<1>3. CASE y.at = "closed"
  BY <1>2, <1>3, CompleteIs DEF OriginatedTransition
<1>4. CASE y.at # "closed"
  <2> DEFINE a == IF y.at = "netClose" THEN IF y.result THEN "resultSent" ELSE "clientClose"
                  ELSE Following[y.at]
  <2>1. a \in OriginatedState /\ GoesTo(y, a)
    BY <1>1, <1>4 DEF OriginatedState, Following, GoesTo
  <2>2. OriginatedTransition(y) = [y EXCEPT !.at = a]
    BY <1>4 DEF OriginatedTransition
  <2> HIDE DEF a
  <2> QED
    BY <1>2, <1>4, <2>1, <2>2, PlacesAre
<1> QED
  BY <1>3, <1>4

\* A machine that asks the network gets there with a position.
Gives(k, t) == k # MtLr /\ k # "netloc" /\ t.at = "locSent" /\ LocRespReason(t) = "ok"

\* e is t after what the machine does on entering its state.
Entered(k, e, t) ==
    /\ e \in State(k) /\ e.proto = t.proto /\ e.at = t.at /\ e.cancel = t.cancel
    /\ e.first = t.first /\ Kept(e, t)
    /\ "location" \in e.timers <=> "location" \in t.timers \/ t.at = "locReq"
    /\ "result" \in e.timers <=> "result" \in t.timers \/ Gives(k, t)
    /\ k = MtLr /\ "request" \in e.timers => "request" \in t.timers

\* A machine that is calm is fit, if it is one of those that are.
LEMMA CalmFits ==
    ASSUME NEW k, NEW n, NEW fa, NEW la, NEW pa, NEW lo, NEW ind, NEW v,
           Calm(n), Moving(n) => n.run, n.at # "cancelling", ~n.still, n.source = "none",
           fa => k \in {"molr", "x3p"} /\ n.at = "locSent" /\ Load(n) = 0,
           IF k = MtLr THEN Serves(n, la, pa, lo, ind, v) ELSE Asks(n, la, lo)
    PROVE  Fit(k, n, fa, la, pa, lo, ind, v)
<1>1. fa => k \in {"molr", "x3p"} /\ Gave(n)
  BY DEF Gave
<1>2. ~n.cancel /\ ~Cancelling(n) /\ n.proto # "ready"
  BY DEF Calm, Cancelling
<1> QED
  BY <1>1, <1>2 DEF Fit, Runs

\* So is one that is cancelled.
LEMMA CancellingFits ==
    ASSUME NEW k, NEW n, NEW fa, NEW la, NEW pa, NEW lo, NEW ind, NEW v,
           Cancelling(n), Moving(n) => n.run, ~n.cancel, n.at \in Ends(k),
           n.timers \intersect Harm(k) = {},
           fa => /\ k \in {"molr", "x3p"} /\ n.source # "netError"
                 /\ n.at = "cancelling" \/ (n.at = "netClose" /\ n.stage # "enter")
    PROVE  Fit(k, n, fa, la, pa, lo, ind, v)
<1>1. fa => k \in {"molr", "x3p"} /\ Gave(n)
  BY DEF Gave, Cancelling
<1>2. ~Calm(n) /\ n.proto # "ready"
  BY DEF Calm, Cancelling
<1> QED
  BY <1>1, <1>2 DEF Fit, Runs

\* z is machine k, which was m, fit in its new state t, in which it only tells
\* what it may.
Newly(k, z, m, t, fa, la, pa, lo, ind, d) ==
    /\ Fit(k, z, fa, la, pa, lo, ind, d)
    /\ k # MtLr => (Past(z) => Past(m))
    /\ t.at = "locSent" /\ LocRespReason(t) = "ok" => lo
    /\ k = MtLr /\ t.at \in {"privRecvd", "privAfter"} => ~ind /\ t.answer = d

\* A machine that asks the network, after the second run of a transition.
LEMMA OriginatedEnters ==
    ASSUME NEW k \in Machine, k # MtLr, NEW m \in State(k),
           NEW fa, NEW la, NEW pa, NEW lo, NEW ind, NEW v,
           Fit(k, m, fa, la, pa, lo, ind, v), m.proto # "ready", m.stage = "enter",
           NEW t, t = Transition(k, Entering(m)), t.proto # "ready",
           NEW e, Entered(k, e, t),
           NEW fa2, fa2 => fa \/ Gives(k, t), NEW la2, la2 => la \/ t.at = "locReq", NEW pa2
    PROVE  Newly(k, Settle(k, e), m, t, fa2, la2, pa2, lo, ind, v)
<1> DEFINE y == Entering(m)
           n == Settle(k, e)
<1> SUFFICES /\ Fit(k, n, fa2, la2, pa2, lo, ind, v)
             /\ Settled(k, n, e)
             /\ Past(n) => Past(m)
             /\ t.at = "locSent" /\ LocRespReason(t) = "ok" => lo
  BY DEF Newly
<1>1. y \in State(k) /\ Alike(y, m) /\ y.run = FALSE /\ y.stage = "null" /\ y.pending = m.pending
  BY EnteringIs
<1> HIDE DEF y
<1>2. Runs(k, m, fa, la, pa, lo, ind, v)
  BY DEF Fit
<1>3. m.pending \in Nat /\ m.at \in OriginatedState /\ Moving(m)
  BY DEF State, MachineState, KMaxQueueEntry, Moving
<1>4. t = Transition(k, y)
  BY DEF y
<1>5. e \in State(k) /\ e.proto = t.proto /\ e.at = t.at /\ e.cancel = t.cancel /\ Kept(e, t)
  BY DEF Entered
<1>6. Kept(t, y) /\ t.timers = y.timers
  <2>1. CASE y.cancel
    BY <1>1, <1>4, <2>1, ToCancelling
  <2>2. CASE ~y.cancel
    BY <1>1, <1>4, <2>2, OriginatedGoes
  <2> QED
    BY <2>1, <2>2
<1>7. e.run = FALSE /\ e.stage = "null"
  BY <1>1, <1>5, <1>6 DEF Kept
<1>8. Settled(k, n, e)
  BY <1>5, <1>7, SettleIs
<1> HIDE DEF n
<1>9. /\ n.proto = t.proto /\ n.at = t.at /\ n.cancel = t.cancel
      /\ n.source = m.source /\ n.still = m.still /\ n.locReq = m.locReq
      /\ n.reason = m.reason /\ e.pending = m.pending /\ e.still = m.still
      /\ n.stage \in {"null", "exit"} /\ (Moving(n) => n.run)
  BY <1>1, <1>5, <1>6, <1>8 DEF Settled, Alike, Kept
<1>10. /\ "location" \in n.timers <=> "location" \in m.timers \/ t.at = "locReq"
       /\ "result" \in n.timers <=> "result" \in m.timers \/ Gives(k, t)
  BY <1>1, <1>6, <1>8 DEF Entered, Settled, Alike
<1>11. LocRespReason(t) = IF Cancelling(t) THEN LocRespReason(t) ELSE m.reason
  BY <1>1, <1>6 DEF LocRespReason, Kept, Alike
<1>12. CASE m.cancel
  <2>1. t.cancel = FALSE /\ t.proto = "cancelling" /\ t.at = "cancelling"
    BY <1>1, <1>4, <1>12, ToCancelling DEF Alike
  <2>2. n.timers \intersect Harm(k) = {}
    BY <1>2, <1>10, <1>12, <2>1 DEF Runs, Harm, Gives
  <2>3. fa2 => k \in {"molr", "x3p"} /\ n.source # "netError"
    BY <1>2, <1>9, <2>1 DEF Runs, Gave, Gives
  <2>4. Fit(k, n, fa2, la2, pa2, lo, ind, v)
    BY <1>9, <2>1, <2>2, <2>3, CancellingFits DEF Cancelling, Ends
  <2> QED
    BY <1>8, <1>9, <2>1, <2>4 DEF Past
<1>13. CASE ~m.cancel /\ Cancelling(m)
  <2>1. /\ t.cancel = y.cancel /\ m.at # "closed" /\ t.proto = "cancelling" /\ GoesTo(m, t.at)
    BY <1>1, <1>4, <1>13, OriginatedGoes DEF Alike, Cancelling, GoesTo
  <2>2. m.at \in Ends(k)
    BY <1>2, <1>13 DEF Runs
  <2>3. t.at \in Ends(k) /\ t.at # "cancelling" /\ (m.at = "cancelling" => t.at = "netClose")
        /\ (t.at = "closed" => m.at = "clientClose")
    BY <2>1, <2>2 DEF GoesTo, Following, Ends
  <2>4. n.timers \intersect Harm(k) = {}
    BY <1>2, <1>10, <1>13, <2>3 DEF Runs, Harm, Gives, Ends
  <2>5. fa2 => k \in {"molr", "x3p"} /\ n.source # "netError" /\ n.at = "netClose"
    BY <1>2, <1>9, <1>13, <2>3 DEF Runs, Gave, Gives, Ends, Calm, Cancelling
  <2>6. ~n.cancel
    BY <1>1, <1>9, <1>13, <2>1 DEF Alike
  <2>7. Fit(k, n, fa2, la2, pa2, lo, ind, v)
    BY <1>9, <2>1, <2>3, <2>4, <2>5, <2>6, CancellingFits DEF Cancelling
  <2> QED
    BY <1>8, <1>9, <2>3, <2>7 DEF Past, Ends
<1>14. CASE Calm(m)
  <2>1. /\ t.cancel = y.cancel /\ m.at # "closed" /\ t.proto = "active" /\ GoesTo(m, t.at)
    BY <1>1, <1>4, <1>14, OriginatedGoes DEF Alike, Calm, GoesTo
  <2>2. Asks(m, la, lo) /\ ~m.still /\ m.source = "none" /\ Load(m) = m.pending + 1
    BY <1>2, <1>3, <1>14 DEF Runs, Calm, Cancelling, Load, B
  <2>3. Calm(n) /\ ~Cancelling(n) /\ ~e.cancel /\ ~Cancelling(e)
    BY <1>1, <1>5, <1>9, <1>14, <2>1 DEF Calm, Cancelling, Alike
  <2>4. LocRespReason(t) = m.reason /\ LocRespReason(e) = m.reason /\ e.at = t.at
    <3>1. e.reason = m.reason
      BY <1>1, <1>5, <1>6 DEF Kept, Alike
    <3> QED
      BY <1>5, <1>11, <2>1, <2>3, <3>1 DEF LocRespReason, Cancelling
  <2>5. ~fa
    BY <1>2, <1>14, <2>2, <1>3 DEF Runs, Gave, Calm
  <2>6. Load(n) = m.pending + B(Transitory(k, e)) /\ (Moving(n) <=> Load(n) # 0)
    BY <1>8, <1>9, <2>2 DEF Settled
  <2>7. Transitory(k, e) <=>
           \/ t.at \in {"reqRecvd", "measured", "netLocSent", "locRecvd", "netClose",
                        "resultSent", "clientClose", "closed"}
           \/ k = "x3p" /\ t.at = "locSent" /\ m.reason # "ok"
           \/ k = "netloc" /\ t.at = "locSent"
    <3>1. t.at # "cancelling"
      BY <1>3, <2>1, <2>2 DEF GoesTo, Following, OriginatedState, Asks
    <3> QED
      BY <2>3, <2>4, <3>1 DEF Transitory
  <2>8. /\ Asks(n, la2, lo) /\ n.at # "cancelling"
        /\ Gives(k, t) => Load(n) = 0
        /\ t.at = "closed" => m.at = "clientClose"
        /\ t.at = "locSent" => m.at = "locRecvd"
    <3>8. m.reason = "ok" /\ "location" \notin m.timers /\ m.at = "locRecvd" => lo
      BY <2>2 DEF Asks
    <3>9. n.at = t.at /\ n.locReq = m.locReq /\ n.reason = m.reason
      BY <1>9
    <3>10. m.locReq \in BOOLEAN
      BY DEF State, MachineState
    <3>1. CASE m.at = "null"
      <4>1. t.at = "reqRecvd" /\ m.pending = B(m.locReq)
        BY <1>3, <2>1, <2>2, <3>10, <3>1 DEF Asks, GoesTo, Following, B
      <4>2. Load(n) = 1 + B(m.locReq) /\ Moving(n)
        BY <1>3, <2>6, <2>7, <3>10, <4>1 DEF B
      <4> QED
        BY <1>10, <2>2, <3>9, <3>1, <4>1, <4>2 DEF Asks, Gives, B
    <3>2. CASE m.at = "reqRecvd"
      <4>1. t.at = "netStarted" /\ m.pending = B(m.locReq)
        BY <1>3, <2>1, <2>2, <3>10, <3>2 DEF Asks, GoesTo, Following, B
      <4>2. Load(n) = B(m.locReq)
        BY <1>3, <2>6, <2>7, <3>10, <4>1 DEF B
      <4> QED
        BY <1>10, <2>2, <3>9, <3>2, <4>1, <4>2 DEF Asks, Gives, B
    <3>3. CASE m.at = "netStarted"
      <4>1. t.at = "measured" /\ m.pending = 0 /\ m.locReq
        BY <1>3, <2>1, <2>2, <3>10, <3>3 DEF Asks, GoesTo, Following, B
      <4>2. Load(n) = 1 /\ Moving(n)
        BY <1>3, <2>6, <2>7, <3>10, <4>1 DEF B
      <4> QED
        BY <1>10, <2>2, <3>9, <3>3, <4>1, <4>2 DEF Asks, Gives, B
    <3>4. CASE m.at = "measured"
      <4>1. t.at = "netLocSent" /\ m.pending = 0 /\ m.locReq
        BY <1>3, <2>1, <2>2, <3>10, <3>4 DEF Asks, GoesTo, Following, B
      <4>2. Load(n) = 1 /\ Moving(n)
        BY <1>3, <2>6, <2>7, <3>10, <4>1 DEF B
      <4> QED
        BY <1>10, <2>2, <3>9, <3>4, <4>1, <4>2 DEF Asks, Gives, B
    <3>5. CASE m.at = "netLocSent"
      <4>1. t.at = "locReq" /\ m.pending = 0 /\ m.locReq
        BY <1>3, <2>1, <2>2, <3>10, <3>5 DEF Asks, GoesTo, Following, B
      <4>2. Load(n) = 0
        BY <1>3, <2>6, <2>7, <3>10, <4>1 DEF B
      <4> QED
        BY <1>10, <2>2, <3>9, <3>5, <4>1, <4>2 DEF Asks, Gives, B
    <3>6. CASE m.at = "locReq"
      <4>1. t.at = "locRecvd" /\ m.pending = 0 /\ m.locReq /\ "location" \notin m.timers
        BY <1>3, <2>1, <2>2, <3>10, <3>6 DEF Asks, GoesTo, Following, B
      <4>2. Load(n) = 1 /\ Moving(n)
        BY <1>3, <2>6, <2>7, <3>10, <4>1 DEF B
      <4> QED
        BY <1>10, <2>2, <3>9, <3>6, <4>1, <4>2 DEF Asks, Gives, B
    <3>11. CASE m.at = "locRecvd"
      <4>1. t.at = "locSent" /\ m.pending = 0 /\ m.locReq /\ "location" \notin m.timers
        BY <1>3, <2>1, <2>2, <3>10, <3>11 DEF Asks, GoesTo, Following, B
      <4>2. Load(n) \in {0, 1} /\ (m.reason = "ok" /\ k # "netloc" => Load(n) = 0)
        BY <1>3, <2>6, <2>7, <3>10, <4>1 DEF B
      <4> QED
        BY <1>10, <2>2, <3>9, <3>11, <4>1, <4>2, <2>4 DEF Asks, Gives, B
    <3>12. CASE m.at = "locSent"
      <4>1. t.at = "netClose" /\ m.pending = 0 /\ m.locReq
        BY <1>3, <2>1, <2>2, <3>10, <3>12 DEF Asks, GoesTo, Following, B
      <4>2. Load(n) = 1 /\ Moving(n)
        BY <1>3, <2>6, <2>7, <3>10, <4>1 DEF B
      <4> QED
        BY <1>10, <2>2, <3>9, <3>12, <4>1, <4>2 DEF Asks, Gives, B
    <3>7. CASE m.at \in {"netClose", "resultSent", "clientClose"}
      BY <1>9, <1>10, <2>1, <2>2, <2>6, <2>7, <3>7 DEF Asks, GoesTo, Following, B, Gives
    <3> QED
      BY <1>3, <2>1, <2>2, <3>1, <3>2, <3>3, <3>4, <3>5, <3>6, <3>7, <3>11, <3>12
      DEF OriginatedState, Asks
  <2>9. fa2 => k \in {"molr", "x3p"} /\ n.at = "locSent" /\ Load(n) = 0
    BY <1>9, <2>5, <2>8 DEF Gives, Machine, Originated, MtLr
  <2>10. Fit(k, n, fa2, la2, pa2, lo, ind, v)
    BY <1>9, <2>2, <2>3, <2>8, <2>9, CalmFits
  <2> QED
    BY <1>8, <1>9, <2>2, <2>4, <2>8, <2>10 DEF Past, Asks
<1>15. m.proto \in {"active", "cancelling"}
  BY DEF State, MachineState
<1> QED
  BY <1>12, <1>13, <1>14, <1>15 DEF Calm, Cancelling, n

\* Where the machine that serves the network goes.
Serving(y, t) ==
    \/ /\ t.proto = "ready" /\ t.at = "null" /\ t.first = y.first
       /\ \/ y.at \in {"closeWaitLoc", "closeAfter", "cancelling"}
          \/ y.at = "netLocSent" /\ y.first /\ y.answer # "accepted"
    \/ /\ t.proto = y.proto /\ t.at # "null" /\ t.first = y.first
       /\ \/ y.at \in DOMAIN MtLrFollowing /\ t.at = MtLrFollowing[y.at]
          \/ y.at = "privStarted" /\ y.locReq /\ t.at = "measured"
          \/ y.at = "privStarted" /\ ~y.locReq /\ ~y.recvd /\ t.at = "privStarted"
          \/ y.at = "privRecvd" /\ t.at = IF y.answer = "accepted" THEN "measured" ELSE "reject"
          \/ y.at = "privAfter"
             /\ t.at = IF y.answer = "accepted" THEN "locRecvd" ELSE "rejectAfter"
          \/ y.at = "netLocSent" /\ ~(y.first /\ y.answer # "accepted") /\ t.at = "locReq"
          \/ y.at = "locReq" /\ t.at = IF y.first THEN "locRecvd" ELSE "privAfter"
          \/ y.at = "closeWaitLoc" /\ Cancelling(y) /\ t.at = "cancelling"
          \/ y.at = "cancelling" /\ t.at \in {"closeWaitLoc", "closeAfter"}
    \/ t.proto = y.proto /\ y.at = "reqRecvd" /\ t.at = "privStarted" /\ ~t.first
    \/ /\ t.proto = y.proto /\ y.at = "privStarted" /\ ~y.locReq /\ y.recvd
       /\ t.at = "privRecvd" /\ t.first

\* t is y gone on, with the timer of the measurement control perhaps.
Went(t, y) ==
    /\ t \in State(MtLr) /\ Kept(t, y) /\ t.cancel = y.cancel
    /\ t.timers \in {y.timers, y.timers \union {"measure"}}
    /\ Serving(y, t)

LEMMA WentTo ==
    ASSUME NEW y \in State(MtLr), NEW a \in MtLrState, NEW t, t = [y EXCEPT !.at = a],
           Serving(y, [proto |-> y.proto, at |-> a, first |-> y.first])
    PROVE  Went(t, y)
<1>1. /\ t \in State(MtLr) /\ Kept(t, y) /\ t.timers = y.timers /\ t.first = y.first
      /\ t.cancel = y.cancel /\ t.proto = y.proto /\ t.at = a
  BY PlacesAre DEF Machine
<1> QED
  BY <1>1 DEF Went, Serving

LEMMA WentDone ==
    ASSUME NEW y \in State(MtLr),
           \/ y.at \in {"closeWaitLoc", "closeAfter", "cancelling"}
           \/ y.at = "netLocSent" /\ y.first /\ y.answer # "accepted"
    PROVE  Went(Complete(y), y)
<1> DEFINE t == Complete(y)
<1>1. /\ t \in State(MtLr) /\ Kept(t, y) /\ t.timers = y.timers /\ t.first = y.first
      /\ t.cancel = y.cancel /\ t.proto = "ready" /\ t.at = "null"
  BY CompleteIs DEF Machine
<1> HIDE DEF t
<1>2. Went(t, y)
  BY <1>1 DEF Went, Serving
<1> QED
  BY <1>2 DEF t

LEMMA MtLrGoes ==
    ASSUME NEW y \in State(MtLr), ~y.cancel
    PROVE  Went(Transition(MtLr, y), y)
<1> DEFINE t == Transition(MtLr, y)
<1> SUFFICES Went(t, y)
  OBVIOUS
<1>1. y.at \in MtLrState
  BY DEF State, MachineState
<1>2. t = MtLrTransition(y)
  BY DEF Transition
<1> HIDE DEF t
<1>3. CASE y.at \in DOMAIN MtLrFollowing
  <2>1. t = [y EXCEPT !.at = MtLrFollowing[y.at]] /\ MtLrFollowing[y.at] \in MtLrState
        /\ MtLrFollowing[y.at] # "null"
    BY <1>2, <1>3 DEF MtLrTransition, MtLrFollowing, MtLrState
  <2> QED
    BY <1>3, <2>1, WentTo DEF Serving
<1>4. CASE y.at = "reqRecvd"
  <2> DEFINE x == [y EXCEPT !.first = FALSE]
  <2>1. x \in State(MtLr) /\ Kept(x, y) /\ x.cancel = y.cancel /\ x.timers = y.timers
        /\ x.proto = y.proto /\ ~x.first
    <3>1. x \in State(MtLr)
      BY FlagsAre DEF Machine
    <3> QED
      BY <3>1 DEF State, MachineState, Kept
  <2>2. t = [x EXCEPT !.at = "privStarted"]
    BY <1>2, <1>4 DEF MtLrTransition, MtLrFollowing
  <2> HIDE DEF x
  <2>3. /\ t \in State(MtLr) /\ Kept(t, x) /\ t.timers = x.timers /\ t.first = x.first
        /\ t.cancel = x.cancel /\ t.proto = x.proto /\ t.at = "privStarted"
    BY <2>1, <2>2, PlacesAre DEF Machine, MtLrState
  <2> QED
    BY <1>4, <2>1, <2>3 DEF Went, Serving, Kept
<1>5. CASE y.at = "privStarted" /\ y.locReq
  <2>1. t = [y EXCEPT !.at = "measured"]
    BY <1>2, <1>5 DEF MtLrTransition, MtLrFollowing
  <2> QED
    BY <1>5, <2>1, WentTo DEF Serving, MtLrState
<1>6. CASE y.at = "privStarted" /\ ~y.locReq /\ y.recvd
  <2> DEFINE q == y.timers \union {"measure"}
             x == [y EXCEPT !.first = TRUE, !.handled = TRUE, !.timers = q]
  <2>1. q \in SUBSET TimerOf(MtLr)
    <3>1. y.timers \in SUBSET TimerOf(MtLr)
      BY DEF State, MachineState
    <3>2. "measure" \in TimerOf(MtLr)
      BY DEF TimerOf, MtLr
    <3> QED
      BY <3>1, <3>2
  <2> HIDE DEF q
  <2>2. x \in State(MtLr) /\ Kept(x, y) /\ x.cancel = y.cancel /\ x.timers = q
        /\ x.proto = y.proto /\ x.first
    <3>1. [y EXCEPT !.first = TRUE] \in State(MtLr)
      BY FlagsAre DEF Machine
    <3>2. [y EXCEPT !.first = TRUE, !.handled = TRUE] \in State(MtLr)
      BY <3>1, FlagsAre DEF Machine
    <3>3. x \in State(MtLr)
      BY <2>1, <3>2, TimersAre DEF Machine
    <3> QED
      BY <3>3 DEF State, MachineState, Kept
  <2>3. t = [x EXCEPT !.at = "privRecvd"]
    BY <1>2, <1>6 DEF MtLrTransition, MtLrFollowing, q
  <2> HIDE DEF x
  <2>4. /\ t \in State(MtLr) /\ Kept(t, x) /\ t.timers = x.timers /\ t.first = x.first
        /\ t.cancel = x.cancel /\ t.proto = x.proto /\ t.at = "privRecvd"
    <3>1. x \in State(MtLr) /\ MtLr \in Machine /\ "privRecvd" \in MtLrState
      BY <2>2 DEF Machine, MtLrState
    <3> QED
      BY <2>3, <3>1, PlacesAre
  <2>5. Kept(t, y) /\ t.cancel = y.cancel /\ t.timers = q
    BY <2>2, <2>4 DEF Kept
  <2>6. Serving(y, t)
    BY <1>6, <2>2, <2>4 DEF Serving
  <2> QED
    BY <2>4, <2>5, <2>6 DEF Went, q
<1>7. CASE y.at = "privStarted" /\ ~y.locReq /\ ~y.recvd
  <2>1. t = y
    BY <1>2, <1>7 DEF MtLrTransition, MtLrFollowing
  <2> QED
    BY <1>7, <2>1 DEF Went, Serving, Kept
<1>8. CASE y.at = "privRecvd"
  <2>1. t = [y EXCEPT !.at = IF y.answer = "accepted" THEN "measured" ELSE "reject"]
    BY <1>2, <1>8 DEF MtLrTransition, MtLrFollowing
  <2> QED
    BY <1>8, <2>1, WentTo DEF Serving, MtLrState
<1>9. CASE y.at = "privAfter"
  <2>1. t = [y EXCEPT !.at = IF y.answer = "accepted" THEN "locRecvd" ELSE "rejectAfter"]
    BY <1>2, <1>9 DEF MtLrTransition, MtLrFollowing
  <2> QED
    BY <1>9, <2>1, WentTo DEF Serving, MtLrState
<1>10. CASE y.at = "netLocSent"
  <2> DEFINE x == [y EXCEPT !.served = TRUE]
  <2>1. x \in State(MtLr) /\ Kept(x, y) /\ x.cancel = y.cancel /\ x.timers = y.timers
        /\ x.proto = y.proto /\ x.first = y.first /\ x.at = y.at
    <3>1. x \in State(MtLr)
      BY FlagsAre DEF Machine
    <3> QED
      BY <3>1 DEF State, MachineState, Kept
  <2>2. t = IF y.first /\ y.answer # "accepted" THEN Complete(x) ELSE [x EXCEPT !.at = "locReq"]
    BY <1>2, <1>10 DEF MtLrTransition, MtLrFollowing
  <2> HIDE DEF x
  <2>3. Went(t, x)
    <3>1. CASE y.first /\ y.answer # "accepted"
      BY <1>10, <2>1, <2>2, <3>1, WentDone DEF Kept
    <3>2. CASE ~(y.first /\ y.answer # "accepted")
      <4>1. Serving(x, [proto |-> x.proto, at |-> "locReq", first |-> x.first])
        BY <1>10, <2>1, <3>2 DEF Serving, Kept
      <4> QED
        BY <2>1, <2>2, <3>2, <4>1, WentTo DEF MtLrState
    <3> QED
      BY <3>1, <3>2
  <2>4. Serving(y, t)
    BY <1>10, <2>1, <2>3 DEF Went, Serving, Kept
  <2> QED
    BY <2>1, <2>3, <2>4 DEF Went, Kept
<1>11. CASE y.at = "locReq"
  <2>1. t = [y EXCEPT !.at = IF y.first THEN "locRecvd" ELSE "privAfter"]
    BY <1>2, <1>11 DEF MtLrTransition, MtLrFollowing, AfterLocReq
  <2> QED
    BY <1>11, <2>1, WentTo DEF Serving, MtLrState
<1>12. CASE y.at = "closeWaitLoc"
  <2>1. t = IF Cancelling(y) /\ y.reason = "timeout" THEN [y EXCEPT !.at = "cancelling"]
            ELSE Complete(y)
    BY <1>2, <1>12 DEF MtLrTransition, MtLrFollowing
  <2>2. CASE Cancelling(y) /\ y.reason = "timeout"
    BY <1>12, <2>1, <2>2, WentTo DEF Serving, MtLrState
  <2>3. CASE ~(Cancelling(y) /\ y.reason = "timeout")
    BY <1>12, <2>1, <2>3, WentDone
  <2> QED
    BY <2>2, <2>3
<1>13. CASE y.at = "closeAfter"
  <2>1. t = Complete(y)
    BY <1>2, <1>13 DEF MtLrTransition, MtLrFollowing
  <2> QED
    BY <1>13, <2>1, WentDone
<1>14. CASE y.at = "cancelling"
  <2>1. t = MtLrCancelled(y)
    BY <1>2, <1>14 DEF MtLrTransition, MtLrFollowing
  <2>2. \/ t = Complete(y)
        \/ \E a \in {"closeWaitLoc", "closeAfter"} : t = [y EXCEPT !.at = a]
    BY <2>1 DEF MtLrCancelled
  <2>3. CASE t = Complete(y)
    BY <1>14, <2>3, WentDone
  <2>4. ASSUME NEW a \in {"closeWaitLoc", "closeAfter"}, t = [y EXCEPT !.at = a]
        PROVE  Went(t, y)
    BY <1>14, <2>4, WentTo DEF Serving, MtLrState
  <2> QED
    BY <2>2, <2>3, <2>4
<1> QED
  BY <1>1, <1>3, <1>4, <1>5, <1>6, <1>7, <1>8, <1>9, <1>10, <1>11, <1>12, <1>13, <1>14
     DEF MtLrState, MtLrFollowing

\* The machine that serves the network, after the second run of a transition.
LEMMA MtLrEnters ==
    ASSUME NEW m \in State(MtLr),
           NEW fa, NEW la, NEW pa, NEW lo, NEW ind, NEW v,
           Fit(MtLr, m, fa, la, pa, lo, ind, v), m.proto # "ready", m.stage = "enter",
           NEW t, t = Transition(MtLr, Entering(m)), t.proto # "ready",
           NEW e, Entered(MtLr, e, t),
           NEW fa2, fa2 => fa, NEW la2, la2 => la \/ t.at = "locReq",
           NEW pa2, pa2 <=> pa \/ t.at = "privStarted"
    PROVE  Newly(MtLr, Settle(MtLr, e), m, t, fa2, la2, pa2, lo, ind, v)
<1> DEFINE y == Entering(m)
           n == Settle(MtLr, e)
<1> SUFFICES /\ Fit(MtLr, n, fa2, la2, pa2, lo, ind, v)
             /\ Settled(MtLr, n, e)
             /\ t.at = "locSent" /\ LocRespReason(t) = "ok" => lo
             /\ t.at \in {"privRecvd", "privAfter"} => ~ind /\ t.answer = v
  BY DEF Newly
<1>0. MtLr \in Machine
  BY DEF Machine
<1>1. y \in State(MtLr) /\ Alike(y, m) /\ y.run = FALSE /\ y.stage = "null" /\ y.pending = m.pending
  BY <1>0, EnteringIs
<1>2. t = Transition(MtLr, y)
  OBVIOUS
<1> HIDE DEF y
<1>3. Runs(MtLr, m, fa, la, pa, lo, ind, v) /\ ~fa
  BY DEF Fit, Runs, MtLr
<1>4. m.pending \in Nat /\ m.at \in MtLrState /\ Moving(m)
      /\ {m.locReq, m.recvd, m.first} \subseteq BOOLEAN
  BY DEF State, MachineState, KMaxQueueEntry, Moving
<1>5. e \in State(MtLr) /\ e.proto = t.proto /\ e.at = t.at /\ e.cancel = t.cancel
      /\ e.first = t.first /\ Kept(e, t)
  BY DEF Entered
<1>6. /\ Kept(t, y) /\ t.cancel = FALSE
      /\ t.timers \in {y.timers, y.timers \union {"measure"}}
      /\ y.cancel => t.proto = "cancelling" /\ t.at = "cancelling"
      /\ ~y.cancel => Serving(y, t)
  <2>1. CASE y.cancel
    BY <1>0, <1>1, <1>2, <2>1, ToCancelling
  <2>2. CASE ~y.cancel
    <3>1. Went(t, y)
      BY <1>1, <1>2, <2>2, MtLrGoes
    <3>2. y.cancel = FALSE
      BY <1>1, <2>2 DEF State, MachineState
    <3> QED
      BY <2>2, <3>1, <3>2 DEF Went
  <2> QED
    BY <2>1, <2>2
<1>7. e.run = FALSE /\ e.stage = "null"
  BY <1>1, <1>5, <1>6 DEF Kept
<1>8. Settled(MtLr, n, e)
  BY <1>0, <1>5, <1>7, SettleIs
<1> HIDE DEF n
<1>9. /\ n.proto = t.proto /\ n.at = t.at /\ n.cancel = FALSE /\ n.first = t.first
      /\ n.source = m.source /\ n.still = m.still /\ n.locReq = m.locReq
      /\ n.recvd = m.recvd /\ n.answer = m.answer /\ t.answer = m.answer
      /\ n.reason = m.reason /\ t.reason = m.reason /\ e.pending = m.pending /\ e.still = m.still
      /\ n.stage \in {"null", "exit"} /\ (Moving(n) => n.run)
  BY <1>1, <1>5, <1>6, <1>8 DEF Settled, Alike, Kept
<1>10. /\ "location" \in n.timers <=> ("location" \in m.timers \/ t.at = "locReq")
       /\ "request" \in n.timers => "request" \in m.timers
  <2>1. n.timers = e.timers /\ y.timers = m.timers
    BY <1>1, <1>8 DEF Settled, Alike
  <2>2. /\ "location" \in t.timers <=> "location" \in y.timers
        /\ "request" \in t.timers <=> "request" \in y.timers
    BY <1>6
  <2> QED
    BY <2>1, <2>2 DEF Entered
<1>11. CASE m.cancel
  <2>1. t.proto = "cancelling" /\ t.at = "cancelling"
    BY <1>1, <1>6, <1>11 DEF Alike
  <2>2. n.timers \intersect Harm(MtLr) = {}
    BY <1>3, <1>10, <1>11, <2>1 DEF Runs, Harm
  <2>3. Fit(MtLr, n, fa2, la2, pa2, lo, ind, v)
    BY <1>3, <1>9, <2>1, <2>2, CancellingFits DEF Cancelling, Ends
  <2> QED
    BY <1>8, <2>1, <2>3
<1>12. CASE ~m.cancel /\ Cancelling(m)
  <2>1. Serving(y, t) /\ y.at = m.at /\ y.proto = "cancelling"
    BY <1>1, <1>6, <1>12 DEF Alike, Cancelling
  <2>2. m.at \in Ends(MtLr)
    BY <1>3, <1>12 DEF Runs
  <2>3. t.at \in Ends(MtLr) /\ t.proto = "cancelling"
    BY <2>1, <2>2 DEF Serving, Ends, MtLrFollowing
  <2>4. n.timers \intersect Harm(MtLr) = {}
    BY <1>3, <1>10, <1>12, <2>3 DEF Runs, Harm, Ends
  <2>5. Fit(MtLr, n, fa2, la2, pa2, lo, ind, v)
    BY <1>3, <1>9, <2>3, <2>4, CancellingFits DEF Cancelling
  <2> QED
    BY <1>8, <2>3, <2>5 DEF Ends
<1>13. CASE Calm(m)
  <2>1. Serving(y, t) /\ Alike(y, m) /\ y.proto = "active"
    BY <1>1, <1>6, <1>13 DEF Alike, Calm
  <2>2. /\ Serves(m, la, pa, lo, ind, v) /\ ~m.still /\ m.source = "none"
        /\ m.pending + 1 = Due(m)
    BY <1>3, <1>4, <1>13 DEF Runs, Calm, Cancelling, Load, B, Serves
  <2>3. t.proto = "active" /\ Calm(n) /\ ~e.cancel /\ ~Cancelling(e) /\ ~Cancelling(t)
    BY <1>5, <1>6, <1>9, <2>1 DEF Serving, Calm, Cancelling
  <2>4. e.reason = m.reason /\ e.at = t.at /\ e.answer = m.answer
    BY <1>1, <1>5, <1>6 DEF Kept, Alike
  <2>5. Load(n) = m.pending + B(Transitory(MtLr, e)) /\ (Moving(n) <=> Load(n) # 0)
    BY <1>8, <1>9, <2>2 DEF Settled
  <2>6. t.at # "cancelling"
    BY <2>1, <2>2 DEF Serving, MtLrFollowing, Alike, Serves
  <2>7. Transitory(MtLr, e) <=>
           \/ t.at \in {"reqRecvd", "measured", "netLocSent", "locRecvd", "reject", "locSent",
                        "closeAfter"}
           \/ t.at \in {"privRecvd", "privAfter"} /\ m.answer # "accepted"
    BY <2>3, <2>4, <2>6 DEF Transitory, MtLr
  <2>8. ASSUME Serves(n, la2, pa2, lo, ind, v)
        PROVE  Fit(MtLr, n, fa2, la2, pa2, lo, ind, v)
    BY <1>3, <1>9, <2>2, <2>3, <2>6, <2>8, CalmFits
  <2>9. y.at = m.at /\ y.first = m.first /\ y.locReq = m.locReq /\ y.recvd = m.recvd
        /\ y.answer = m.answer /\ ~Cancelling(y)
    BY <2>1 DEF Alike, Cancelling
  <2>10. \* What the other states leave.
         /\ n.at = t.at /\ n.locReq = m.locReq /\ n.recvd = m.recvd /\ n.answer = m.answer
         /\ n.reason = m.reason /\ n.first = t.first
    BY <1>9
  <2>11. CASE m.at = "null"
    <3>0. m.pending + 1 = Due(m) /\ m.recvd \in BOOLEAN /\ m.first \in BOOLEAN
      BY <1>4, <2>2
    <3>1. /\ t.at = "reqRecvd" /\ t.first = m.first /\ m.pending = B(m.locReq)
      BY <1>4, <2>1, <2>2, <2>3, <2>9, <2>11, <3>0 DEF Serving, MtLrFollowing, Serves, Due, B
    <3>2. Load(n) = Due(n)
      <4>1. Load(n) = m.pending + IF Transitory(MtLr, e) THEN 1 ELSE 0
        BY <2>5 DEF B
      <4> QED
        BY <1>4, <1>9, <1>10, <2>7, <2>11, <3>1, <4>1 DEF Due, B
    <3>3. /\ n.at \in {"null", "reqRecvd", "reject", "measured", "netLocSent", "locRecvd",
                      "locSent", "closeAfter"} => Moving(n)
          /\ n.at \in {"privRecvd", "privAfter"} /\ n.answer # "accepted" => Moving(n)
      BY <1>4, <2>5, <2>7, <2>10, <3>1 DEF B
    <3>4. Serves(n, la2, pa2, lo, ind, v)
      BY <1>4, <1>10, <2>2, <2>10, <2>11, <3>1, <3>2, <3>3 DEF Serves
    <3>5. /\ t.at = "locSent" /\ LocRespReason(t) = "ok" => lo
          /\ t.at \in {"privRecvd", "privAfter"} => ~ind /\ t.answer = v
      BY <1>4, <1>6, <1>9, <1>10, <2>2, <2>3, <2>4, <2>11, <3>1 DEF Serves, LocRespReason
    <3> QED
      BY <1>8, <2>8, <3>4, <3>5
  <2>12. CASE m.at = "reqRecvd"
    <3>0. m.pending + 1 = Due(m) /\ m.recvd \in BOOLEAN /\ m.first \in BOOLEAN
      BY <1>4, <2>2
    <3>1. /\ t.at = "privStarted" /\ ~t.first /\ m.pending = B(m.locReq) /\ ~m.recvd
      BY <1>4, <2>1, <2>2, <2>3, <2>9, <2>12, <3>0 DEF Serving, MtLrFollowing, Serves, Due, B
    <3>2. Load(n) = Due(n)
      <4>1. Load(n) = m.pending + IF Transitory(MtLr, e) THEN 1 ELSE 0
        BY <2>5 DEF B
      <4> QED
        BY <1>4, <1>9, <1>10, <2>7, <2>12, <3>1, <4>1 DEF Due, B
    <3>3. /\ n.at \in {"null", "reqRecvd", "reject", "measured", "netLocSent", "locRecvd",
                      "locSent", "closeAfter"} => Moving(n)
          /\ n.at \in {"privRecvd", "privAfter"} /\ n.answer # "accepted" => Moving(n)
      BY <1>4, <2>5, <2>7, <2>10, <3>1 DEF B
    <3>4. Serves(n, la2, pa2, lo, ind, v)
      BY <1>4, <1>10, <2>2, <2>10, <2>12, <3>1, <3>2, <3>3 DEF Serves
    <3>5. /\ t.at = "locSent" /\ LocRespReason(t) = "ok" => lo
          /\ t.at \in {"privRecvd", "privAfter"} => ~ind /\ t.answer = v
      BY <1>4, <1>6, <1>9, <1>10, <2>2, <2>3, <2>4, <2>12, <3>1 DEF Serves, LocRespReason
    <3> QED
      BY <1>8, <2>8, <3>4, <3>5
  <2>13. CASE m.at = "privStarted" /\ m.locReq
    <3>0. m.pending + 1 = Due(m) /\ m.recvd \in BOOLEAN /\ m.first \in BOOLEAN
      BY <1>4, <2>2
    <3>1. /\ t.at = "measured" /\ t.first = m.first /\ ~m.first /\ m.pending = B(m.recvd)
      BY <1>4, <2>1, <2>2, <2>3, <2>9, <2>13, <3>0 DEF Serving, MtLrFollowing, Serves, Due, B
    <3>2. Load(n) = Due(n)
      <4>1. Load(n) = m.pending + IF Transitory(MtLr, e) THEN 1 ELSE 0
        BY <2>5 DEF B
      <4> QED
        BY <1>4, <1>9, <1>10, <2>7, <2>13, <3>1, <4>1 DEF Due, B
    <3>3. /\ n.at \in {"null", "reqRecvd", "reject", "measured", "netLocSent", "locRecvd",
                      "locSent", "closeAfter"} => Moving(n)
          /\ n.at \in {"privRecvd", "privAfter"} /\ n.answer # "accepted" => Moving(n)
      BY <1>4, <2>5, <2>7, <2>10, <3>1 DEF B
    <3>4. Serves(n, la2, pa2, lo, ind, v)
      BY <1>4, <1>10, <2>2, <2>10, <2>13, <3>1, <3>2, <3>3 DEF Serves
    <3>5. /\ t.at = "locSent" /\ LocRespReason(t) = "ok" => lo
          /\ t.at \in {"privRecvd", "privAfter"} => ~ind /\ t.answer = v
      BY <1>4, <1>6, <1>9, <1>10, <2>2, <2>3, <2>4, <2>13, <3>1 DEF Serves, LocRespReason
    <3> QED
      BY <1>8, <2>8, <3>4, <3>5
  <2>14. CASE m.at = "privStarted" /\ ~m.locReq
    <3>0. m.pending + 1 = Due(m) /\ m.recvd \in BOOLEAN /\ m.first \in BOOLEAN
      BY <1>4, <2>2
    <3>1. /\ t.at = "privRecvd" /\ t.first /\ m.recvd /\ m.pending = 0
      BY <1>4, <2>1, <2>2, <2>3, <2>9, <2>14, <3>0 DEF Serving, MtLrFollowing, Serves, Due, B
    <3>2. Load(n) = Due(n)
      <4>1. Load(n) = m.pending + IF Transitory(MtLr, e) THEN 1 ELSE 0
        BY <2>5 DEF B
      <4> QED
        BY <1>4, <1>9, <1>10, <2>7, <2>14, <3>1, <4>1 DEF Due, B
    <3>3. /\ n.at \in {"null", "reqRecvd", "reject", "measured", "netLocSent", "locRecvd",
                      "locSent", "closeAfter"} => Moving(n)
          /\ n.at \in {"privRecvd", "privAfter"} /\ n.answer # "accepted" => Moving(n)
      BY <1>4, <2>5, <2>7, <2>10, <3>1 DEF B
    <3>4. Serves(n, la2, pa2, lo, ind, v)
      BY <1>4, <1>10, <2>2, <2>10, <2>14, <3>1, <3>2, <3>3 DEF Serves
    <3>5. /\ t.at = "locSent" /\ LocRespReason(t) = "ok" => lo
          /\ t.at \in {"privRecvd", "privAfter"} => ~ind /\ t.answer = v
      BY <1>4, <1>6, <1>9, <1>10, <2>2, <2>3, <2>4, <2>14, <3>1 DEF Serves, LocRespReason
    <3> QED
      BY <1>8, <2>8, <3>4, <3>5
  <2>15. CASE m.at = "privRecvd" /\ m.answer = "accepted"
    <3>0. m.pending + 1 = Due(m) /\ m.recvd \in BOOLEAN /\ m.first \in BOOLEAN
      BY <1>4, <2>2
    <3>1. /\ t.at = "measured" /\ t.first = m.first /\ m.first
             /\ m.recvd /\ m.locReq /\ m.pending = 0
      BY <1>4, <2>1, <2>2, <2>3, <2>9, <2>15, <3>0 DEF Serving, MtLrFollowing, Serves, Due, B
    <3>2. Load(n) = Due(n)
      <4>1. Load(n) = m.pending + IF Transitory(MtLr, e) THEN 1 ELSE 0
        BY <2>5 DEF B
      <4> QED
        BY <1>4, <1>9, <1>10, <2>7, <2>15, <3>1, <4>1 DEF Due, B
    <3>3. /\ n.at \in {"null", "reqRecvd", "reject", "measured", "netLocSent", "locRecvd",
                      "locSent", "closeAfter"} => Moving(n)
          /\ n.at \in {"privRecvd", "privAfter"} /\ n.answer # "accepted" => Moving(n)
      BY <1>4, <2>5, <2>7, <2>10, <3>1 DEF B
    <3>4. Serves(n, la2, pa2, lo, ind, v)
      BY <1>4, <1>10, <2>2, <2>10, <2>15, <3>1, <3>2, <3>3 DEF Serves
    <3>5. /\ t.at = "locSent" /\ LocRespReason(t) = "ok" => lo
          /\ t.at \in {"privRecvd", "privAfter"} => ~ind /\ t.answer = v
      BY <1>4, <1>6, <1>9, <1>10, <2>2, <2>3, <2>4, <2>15, <3>1 DEF Serves, LocRespReason
    <3> QED
      BY <1>8, <2>8, <3>4, <3>5
  <2>16. CASE m.at = "privRecvd" /\ m.answer # "accepted"
    <3>0. m.pending + 1 = Due(m) /\ m.recvd \in BOOLEAN /\ m.first \in BOOLEAN
      BY <1>4, <2>2
    <3>1. /\ t.at = "reject" /\ t.first = m.first /\ m.first
             /\ m.recvd /\ m.pending = B(m.locReq)
      BY <1>4, <2>1, <2>2, <2>3, <2>9, <2>16, <3>0 DEF Serving, MtLrFollowing, Serves, Due, B
    <3>2. Load(n) = Due(n)
      <4>1. Load(n) = m.pending + IF Transitory(MtLr, e) THEN 1 ELSE 0
        BY <2>5 DEF B
      <4> QED
        BY <1>4, <1>9, <1>10, <2>7, <2>16, <3>1, <4>1 DEF Due, B
    <3>3. /\ n.at \in {"null", "reqRecvd", "reject", "measured", "netLocSent", "locRecvd",
                      "locSent", "closeAfter"} => Moving(n)
          /\ n.at \in {"privRecvd", "privAfter"} /\ n.answer # "accepted" => Moving(n)
      BY <1>4, <2>5, <2>7, <2>10, <3>1 DEF B
    <3>4. Serves(n, la2, pa2, lo, ind, v)
      BY <1>4, <1>10, <2>2, <2>10, <2>16, <3>1, <3>2, <3>3 DEF Serves
    <3>5. /\ t.at = "locSent" /\ LocRespReason(t) = "ok" => lo
          /\ t.at \in {"privRecvd", "privAfter"} => ~ind /\ t.answer = v
      BY <1>4, <1>6, <1>9, <1>10, <2>2, <2>3, <2>4, <2>16, <3>1 DEF Serves, LocRespReason
    <3> QED
      BY <1>8, <2>8, <3>4, <3>5
  <2>17. CASE m.at = "reject"
    <3>0. m.pending + 1 = Due(m) /\ m.recvd \in BOOLEAN /\ m.first \in BOOLEAN
      BY <1>4, <2>2
    <3>1. /\ t.at = "closeWait" /\ t.first = m.first /\ m.first /\ m.recvd /\ m.pending = B(m.locReq)
      BY <1>4, <2>1, <2>2, <2>3, <2>9, <2>17, <3>0 DEF Serving, MtLrFollowing, Serves, Due, B
    <3>2. Load(n) = Due(n)
      <4>1. Load(n) = m.pending + IF Transitory(MtLr, e) THEN 1 ELSE 0
        BY <2>5 DEF B
      <4> QED
        BY <1>4, <1>9, <1>10, <2>7, <2>17, <3>1, <4>1 DEF Due, B
    <3>3. /\ n.at \in {"null", "reqRecvd", "reject", "measured", "netLocSent", "locRecvd",
                      "locSent", "closeAfter"} => Moving(n)
          /\ n.at \in {"privRecvd", "privAfter"} /\ n.answer # "accepted" => Moving(n)
      BY <1>4, <2>5, <2>7, <2>10, <3>1 DEF B
    <3>4. Serves(n, la2, pa2, lo, ind, v)
      BY <1>4, <1>10, <2>2, <2>10, <2>17, <3>1, <3>2, <3>3 DEF Serves
    <3>5. /\ t.at = "locSent" /\ LocRespReason(t) = "ok" => lo
          /\ t.at \in {"privRecvd", "privAfter"} => ~ind /\ t.answer = v
      BY <1>4, <1>6, <1>9, <1>10, <2>2, <2>3, <2>4, <2>17, <3>1 DEF Serves, LocRespReason
    <3> QED
      BY <1>8, <2>8, <3>4, <3>5
  <2>18. CASE m.at = "closeWait"
    <3>0. m.pending + 1 = Due(m) /\ m.recvd \in BOOLEAN /\ m.first \in BOOLEAN
      BY <1>4, <2>2
    <3>1. /\ t.at = "measured" /\ t.first = m.first /\ m.first /\ m.recvd /\ m.locReq /\ m.pending = 0
      BY <1>4, <2>1, <2>2, <2>3, <2>9, <2>18, <3>0 DEF Serving, MtLrFollowing, Serves, Due, B
    <3>2. Load(n) = Due(n)
      <4>1. Load(n) = m.pending + IF Transitory(MtLr, e) THEN 1 ELSE 0
        BY <2>5 DEF B
      <4> QED
        BY <1>4, <1>9, <1>10, <2>7, <2>18, <3>1, <4>1 DEF Due, B
    <3>3. /\ n.at \in {"null", "reqRecvd", "reject", "measured", "netLocSent", "locRecvd",
                      "locSent", "closeAfter"} => Moving(n)
          /\ n.at \in {"privRecvd", "privAfter"} /\ n.answer # "accepted" => Moving(n)
      BY <1>4, <2>5, <2>7, <2>10, <3>1 DEF B
    <3>4. Serves(n, la2, pa2, lo, ind, v)
      BY <1>4, <1>10, <2>2, <2>10, <2>18, <3>1, <3>2, <3>3 DEF Serves
    <3>5. /\ t.at = "locSent" /\ LocRespReason(t) = "ok" => lo
          /\ t.at \in {"privRecvd", "privAfter"} => ~ind /\ t.answer = v
      BY <1>4, <1>6, <1>9, <1>10, <2>2, <2>3, <2>4, <2>18, <3>1 DEF Serves, LocRespReason
    <3> QED
      BY <1>8, <2>8, <3>4, <3>5
  <2>19. CASE m.at = "measured"
    <3>0. m.pending + 1 = Due(m) /\ m.recvd \in BOOLEAN /\ m.first \in BOOLEAN
      BY <1>4, <2>2
    <3>1. /\ t.at = "netLocSent" /\ t.first = m.first /\ m.pending = B(~m.first /\ m.recvd) /\ m.locReq
      BY <1>4, <2>1, <2>2, <2>3, <2>9, <2>19, <3>0 DEF Serving, MtLrFollowing, Serves, Due, B
    <3>2. Load(n) = Due(n)
      <4>1. Load(n) = m.pending + IF Transitory(MtLr, e) THEN 1 ELSE 0
        BY <2>5 DEF B
      <4> QED
        BY <1>4, <1>9, <1>10, <2>7, <2>19, <3>1, <4>1 DEF Due, B
    <3>3. /\ n.at \in {"null", "reqRecvd", "reject", "measured", "netLocSent", "locRecvd",
                      "locSent", "closeAfter"} => Moving(n)
          /\ n.at \in {"privRecvd", "privAfter"} /\ n.answer # "accepted" => Moving(n)
      BY <1>4, <2>5, <2>7, <2>10, <3>1 DEF B
    <3>4. Serves(n, la2, pa2, lo, ind, v)
      BY <1>4, <1>10, <2>2, <2>10, <2>19, <3>1, <3>2, <3>3 DEF Serves
    <3>5. /\ t.at = "locSent" /\ LocRespReason(t) = "ok" => lo
          /\ t.at \in {"privRecvd", "privAfter"} => ~ind /\ t.answer = v
      BY <1>4, <1>6, <1>9, <1>10, <2>2, <2>3, <2>4, <2>19, <3>1 DEF Serves, LocRespReason
    <3> QED
      BY <1>8, <2>8, <3>4, <3>5
  <2>20. CASE m.at = "netLocSent"
    <3>0. m.pending + 1 = Due(m) /\ m.recvd \in BOOLEAN /\ m.first \in BOOLEAN
      BY <1>4, <2>2
    <3>1. /\ t.at = "locReq" /\ t.first = m.first /\ m.pending = B(~m.first /\ m.recvd) /\ m.locReq
      BY <1>4, <2>1, <2>2, <2>3, <2>9, <2>20, <3>0 DEF Serving, MtLrFollowing, Serves, Due, B
    <3>2. Load(n) = Due(n)
      <4>1. Load(n) = m.pending + IF Transitory(MtLr, e) THEN 1 ELSE 0
        BY <2>5 DEF B
      <4> QED
        BY <1>4, <1>9, <1>10, <2>7, <2>20, <3>1, <4>1 DEF Due, B
    <3>3. /\ n.at \in {"null", "reqRecvd", "reject", "measured", "netLocSent", "locRecvd",
                      "locSent", "closeAfter"} => Moving(n)
          /\ n.at \in {"privRecvd", "privAfter"} /\ n.answer # "accepted" => Moving(n)
      BY <1>4, <2>5, <2>7, <2>10, <3>1 DEF B
    <3>4. Serves(n, la2, pa2, lo, ind, v)
      BY <1>4, <1>10, <2>2, <2>10, <2>20, <3>1, <3>2, <3>3 DEF Serves
    <3>5. /\ t.at = "locSent" /\ LocRespReason(t) = "ok" => lo
          /\ t.at \in {"privRecvd", "privAfter"} => ~ind /\ t.answer = v
      BY <1>4, <1>6, <1>9, <1>10, <2>2, <2>3, <2>4, <2>20, <3>1 DEF Serves, LocRespReason
    <3> QED
      BY <1>8, <2>8, <3>4, <3>5
  <2>21. CASE m.at = "locReq" /\ m.first
    <3>0. m.pending + 1 = Due(m) /\ m.recvd \in BOOLEAN /\ m.first \in BOOLEAN
      BY <1>4, <2>2
    <3>1. /\ t.at = "locRecvd" /\ t.first = m.first /\ m.recvd /\ m.pending = 0
             /\ "location" \notin m.timers /\ m.locReq
      <4>1. m.pending + 1 = B("location" \notin m.timers)
        BY <2>21, <3>0 DEF Due, B
      <4>2. m.pending = 0 /\ "location" \notin m.timers
        BY <1>4, <4>1 DEF B
      <4>3. m.recvd /\ m.locReq
        BY <1>4, <2>2, <2>21, <4>2 DEF Serves
      <4> QED
        BY <2>1, <2>9, <2>21, <4>2, <4>3 DEF Serving, MtLrFollowing
    <3>2. Load(n) = Due(n)
      <4>1. Load(n) = m.pending + IF Transitory(MtLr, e) THEN 1 ELSE 0
        BY <2>5 DEF B
      <4> QED
        BY <1>4, <1>9, <1>10, <2>7, <2>21, <3>1, <4>1 DEF Due, B
    <3>3. /\ n.at \in {"null", "reqRecvd", "reject", "measured", "netLocSent", "locRecvd",
                      "locSent", "closeAfter"} => Moving(n)
          /\ n.at \in {"privRecvd", "privAfter"} /\ n.answer # "accepted" => Moving(n)
      BY <1>4, <2>5, <2>7, <2>10, <3>1 DEF B
    <3>4. Serves(n, la2, pa2, lo, ind, v)
      BY <1>4, <1>10, <2>2, <2>10, <2>21, <3>1, <3>2, <3>3 DEF Serves
    <3>5. /\ t.at = "locSent" /\ LocRespReason(t) = "ok" => lo
          /\ t.at \in {"privRecvd", "privAfter"} => ~ind /\ t.answer = v
      BY <1>4, <1>6, <1>9, <1>10, <2>2, <2>3, <2>4, <2>21, <3>1 DEF Serves, LocRespReason
    <3> QED
      BY <1>8, <2>8, <3>4, <3>5
  <2>22. CASE m.at = "locReq" /\ ~m.first
    <3>0. m.pending + 1 = Due(m) /\ m.recvd \in BOOLEAN /\ m.first \in BOOLEAN
      BY <1>4, <2>2
    <3>1. /\ t.at = "privAfter" /\ t.first = m.first /\ m.recvd /\ m.pending = B("location" \notin m.timers)
             /\ m.locReq
      BY <1>4, <2>1, <2>2, <2>3, <2>9, <2>22, <3>0 DEF Serving, MtLrFollowing, Serves, Due, B
    <3>2. Load(n) = Due(n)
      <4>1. Load(n) = m.pending + IF Transitory(MtLr, e) THEN 1 ELSE 0
        BY <2>5 DEF B
      <4> QED
        BY <1>4, <1>9, <1>10, <2>7, <2>22, <3>1, <4>1 DEF Due, B
    <3>3. /\ n.at \in {"null", "reqRecvd", "reject", "measured", "netLocSent", "locRecvd",
                      "locSent", "closeAfter"} => Moving(n)
          /\ n.at \in {"privRecvd", "privAfter"} /\ n.answer # "accepted" => Moving(n)
      BY <1>4, <2>5, <2>7, <2>10, <3>1 DEF B
    <3>4. Serves(n, la2, pa2, lo, ind, v)
      BY <1>4, <1>10, <2>2, <2>10, <2>22, <3>1, <3>2, <3>3 DEF Serves
    <3>5. /\ t.at = "locSent" /\ LocRespReason(t) = "ok" => lo
          /\ t.at \in {"privRecvd", "privAfter"} => ~ind /\ t.answer = v
      BY <1>4, <1>6, <1>9, <1>10, <2>2, <2>3, <2>4, <2>22, <3>1 DEF Serves, LocRespReason
    <3> QED
      BY <1>8, <2>8, <3>4, <3>5
  <2>23. CASE m.at = "privAfter" /\ m.answer = "accepted"
    <3>0. m.pending + 1 = Due(m) /\ m.recvd \in BOOLEAN /\ m.first \in BOOLEAN
      BY <1>4, <2>2
    <3>1. /\ t.at = "locRecvd" /\ t.first = m.first /\ ~m.first
             /\ m.recvd /\ m.locReq /\ m.pending = 0 /\ "location" \notin m.timers
      BY <1>4, <2>1, <2>2, <2>3, <2>9, <2>23, <3>0 DEF Serving, MtLrFollowing, Serves, Due, B
    <3>2. Load(n) = Due(n)
      <4>1. Load(n) = m.pending + IF Transitory(MtLr, e) THEN 1 ELSE 0
        BY <2>5 DEF B
      <4> QED
        BY <1>4, <1>9, <1>10, <2>7, <2>23, <3>1, <4>1 DEF Due, B
    <3>3. /\ n.at \in {"null", "reqRecvd", "reject", "measured", "netLocSent", "locRecvd",
                      "locSent", "closeAfter"} => Moving(n)
          /\ n.at \in {"privRecvd", "privAfter"} /\ n.answer # "accepted" => Moving(n)
      BY <1>4, <2>5, <2>7, <2>10, <3>1 DEF B
    <3>4. Serves(n, la2, pa2, lo, ind, v)
      BY <1>4, <1>10, <2>2, <2>10, <2>23, <3>1, <3>2, <3>3 DEF Serves
    <3>5. /\ t.at = "locSent" /\ LocRespReason(t) = "ok" => lo
          /\ t.at \in {"privRecvd", "privAfter"} => ~ind /\ t.answer = v
      BY <1>4, <1>6, <1>9, <1>10, <2>2, <2>3, <2>4, <2>23, <3>1 DEF Serves, LocRespReason
    <3> QED
      BY <1>8, <2>8, <3>4, <3>5
  <2>24. CASE m.at = "privAfter" /\ m.answer # "accepted"
    <3>0. m.pending + 1 = Due(m) /\ m.recvd \in BOOLEAN /\ m.first \in BOOLEAN
      BY <1>4, <2>2
    <3>1. /\ t.at = "rejectAfter" /\ t.first = m.first /\ ~m.first
             /\ m.recvd /\ m.locReq /\ m.pending = B("location" \notin m.timers)
      BY <1>4, <2>1, <2>2, <2>3, <2>9, <2>24, <3>0 DEF Serving, MtLrFollowing, Serves, Due, B
    <3>2. Load(n) = Due(n)
      <4>1. Load(n) = m.pending + IF Transitory(MtLr, e) THEN 1 ELSE 0
        BY <2>5 DEF B
      <4> QED
        BY <1>4, <1>9, <1>10, <2>7, <2>24, <3>1, <4>1 DEF Due, B
    <3>3. /\ n.at \in {"null", "reqRecvd", "reject", "measured", "netLocSent", "locRecvd",
                      "locSent", "closeAfter"} => Moving(n)
          /\ n.at \in {"privRecvd", "privAfter"} /\ n.answer # "accepted" => Moving(n)
      BY <1>4, <2>5, <2>7, <2>10, <3>1 DEF B
    <3>4. Serves(n, la2, pa2, lo, ind, v)
      BY <1>4, <1>10, <2>2, <2>10, <2>24, <3>1, <3>2, <3>3 DEF Serves
    <3>5. /\ t.at = "locSent" /\ LocRespReason(t) = "ok" => lo
          /\ t.at \in {"privRecvd", "privAfter"} => ~ind /\ t.answer = v
      BY <1>4, <1>6, <1>9, <1>10, <2>2, <2>3, <2>4, <2>24, <3>1 DEF Serves, LocRespReason
    <3> QED
      BY <1>8, <2>8, <3>4, <3>5
  <2>25. CASE m.at = "rejectAfter"
    <3>0. m.pending + 1 = Due(m) /\ m.recvd \in BOOLEAN /\ m.first \in BOOLEAN
      BY <1>4, <2>2
    <3>1. /\ t.at = "locRecvd" /\ t.first = m.first /\ m.recvd /\ m.pending = 0
             /\ "location" \notin m.timers /\ m.locReq
      BY <1>4, <2>1, <2>2, <2>3, <2>9, <2>25, <3>0 DEF Serving, MtLrFollowing, Serves, Due, B
    <3>2. Load(n) = Due(n)
      <4>1. Load(n) = m.pending + IF Transitory(MtLr, e) THEN 1 ELSE 0
        BY <2>5 DEF B
      <4> QED
        BY <1>4, <1>9, <1>10, <2>7, <2>25, <3>1, <4>1 DEF Due, B
    <3>3. /\ n.at \in {"null", "reqRecvd", "reject", "measured", "netLocSent", "locRecvd",
                      "locSent", "closeAfter"} => Moving(n)
          /\ n.at \in {"privRecvd", "privAfter"} /\ n.answer # "accepted" => Moving(n)
      BY <1>4, <2>5, <2>7, <2>10, <3>1 DEF B
    <3>4. Serves(n, la2, pa2, lo, ind, v)
      BY <1>4, <1>10, <2>2, <2>10, <2>25, <3>1, <3>2, <3>3 DEF Serves
    <3>5. /\ t.at = "locSent" /\ LocRespReason(t) = "ok" => lo
          /\ t.at \in {"privRecvd", "privAfter"} => ~ind /\ t.answer = v
      BY <1>4, <1>6, <1>9, <1>10, <2>2, <2>3, <2>4, <2>25, <3>1 DEF Serves, LocRespReason
    <3> QED
      BY <1>8, <2>8, <3>4, <3>5
  <2>26. CASE m.at = "locRecvd"
    <3>0. m.pending + 1 = Due(m) /\ m.recvd \in BOOLEAN /\ m.first \in BOOLEAN
      BY <1>4, <2>2
    <3>1. /\ t.at = "locSent" /\ t.first = m.first /\ m.recvd /\ m.pending = 0 /\ m.locReq
      BY <1>4, <2>1, <2>2, <2>3, <2>9, <2>26, <3>0 DEF Serving, MtLrFollowing, Serves, Due, B
    <3>2. Load(n) = Due(n)
      <4>1. Load(n) = m.pending + IF Transitory(MtLr, e) THEN 1 ELSE 0
        BY <2>5 DEF B
      <4> QED
        BY <1>4, <1>9, <1>10, <2>7, <2>26, <3>1, <4>1 DEF Due, B
    <3>3. /\ n.at \in {"null", "reqRecvd", "reject", "measured", "netLocSent", "locRecvd",
                      "locSent", "closeAfter"} => Moving(n)
          /\ n.at \in {"privRecvd", "privAfter"} /\ n.answer # "accepted" => Moving(n)
      BY <1>4, <2>5, <2>7, <2>10, <3>1 DEF B
    <3>4. Serves(n, la2, pa2, lo, ind, v)
      BY <1>4, <1>10, <2>2, <2>10, <2>26, <3>1, <3>2, <3>3 DEF Serves
    <3>5. /\ t.at = "locSent" /\ LocRespReason(t) = "ok" => lo
          /\ t.at \in {"privRecvd", "privAfter"} => ~ind /\ t.answer = v
      BY <1>4, <1>6, <1>9, <1>10, <2>2, <2>3, <2>4, <2>26, <3>1 DEF Serves, LocRespReason
    <3> QED
      BY <1>8, <2>8, <3>4, <3>5
  <2>27. CASE m.at = "locSent"
    <3>0. m.pending + 1 = Due(m) /\ m.recvd \in BOOLEAN /\ m.first \in BOOLEAN
      BY <1>4, <2>2
    <3>1. /\ t.at = "closeAfter" /\ t.first = m.first /\ m.recvd /\ m.pending = 0 /\ m.locReq
      BY <1>4, <2>1, <2>2, <2>3, <2>9, <2>27, <3>0 DEF Serving, MtLrFollowing, Serves, Due, B
    <3>2. Load(n) = Due(n)
      <4>1. Load(n) = m.pending + IF Transitory(MtLr, e) THEN 1 ELSE 0
        BY <2>5 DEF B
      <4> QED
        BY <1>4, <1>9, <1>10, <2>7, <2>27, <3>1, <4>1 DEF Due, B
    <3>3. /\ n.at \in {"null", "reqRecvd", "reject", "measured", "netLocSent", "locRecvd",
                      "locSent", "closeAfter"} => Moving(n)
          /\ n.at \in {"privRecvd", "privAfter"} /\ n.answer # "accepted" => Moving(n)
      BY <1>4, <2>5, <2>7, <2>10, <3>1 DEF B
    <3>4. Serves(n, la2, pa2, lo, ind, v)
      BY <1>4, <1>10, <2>2, <2>10, <2>27, <3>1, <3>2, <3>3 DEF Serves
    <3>5. /\ t.at = "locSent" /\ LocRespReason(t) = "ok" => lo
          /\ t.at \in {"privRecvd", "privAfter"} => ~ind /\ t.answer = v
      BY <1>4, <1>6, <1>9, <1>10, <2>2, <2>3, <2>4, <2>27, <3>1 DEF Serves, LocRespReason
    <3> QED
      BY <1>8, <2>8, <3>4, <3>5
  <2>28. m.at # "closeAfter"
    BY <1>4, <2>1, <2>2, <2>3, <2>9 DEF Serving, MtLrFollowing
  <2> QED
    BY <1>4, <1>8, <1>9, <2>2, <2>8, <2>11, <2>12, <2>13, <2>14, <2>15, <2>16, <2>17, <2>18, <2>19, <2>20, <2>21, <2>22, <2>23, <2>24, <2>25, <2>26, <2>27, <2>28
       DEF MtLrState, Serves
<1>14. m.proto \in {"active", "cancelling"}
  BY DEF State, MachineState
<1> QED
  BY <1>11, <1>12, <1>13, <1>14 DEF Calm, Cancelling

-----------------------------------------------------------------------------
(***************************************************************************)
(* A procedure starts.                                                     *)
(***************************************************************************)

\* n is m ready for a procedure of session s.
Fresh(n, m, s) ==
    /\ n.proto = "active" /\ n.stage = "null" /\ n.cancel = FALSE /\ n.source = "none"
    /\ n.locReq = FALSE /\ n.reason = "ok" /\ n.recvd = FALSE /\ n.queued = FALSE
    /\ n.session = s /\ n.at = m.at /\ n.run = m.run /\ n.pending = m.pending
    /\ n.next = m.next /\ n.timers = m.timers /\ n.answer = m.answer /\ n.still = m.still

LEMMA SessionIs ==
    ASSUME NEW k \in Machine, NEW m \in State(k), NEW s \in AllSessions \union {NoSession}
    PROVE  /\ [m EXCEPT !.session = s] \in State(k)
           /\ [m EXCEPT !.next = s] \in State(k)
<1>1. [m EXCEPT !.session = s] \in State(k)
  BY DEF State, MachineState
<1>2. [m EXCEPT !.next = s] \in State(k)
  BY DEF State, MachineState
<1> QED
  BY <1>1, <1>2

LEMMA SourceIs ==
    ASSUME NEW k \in Machine, NEW m \in State(k), NEW source \in Source
    PROVE  [m EXCEPT !.source = source] \in State(k)
BY DEF State, MachineState

LEMMA InitialiseIs ==
    ASSUME NEW k \in Machine, NEW m \in State(k), NEW s \in AllSessions
    PROVE  Initialise(k, m, s) \in State(k) /\ Fresh(Initialise(k, m, s), m, s)
<1> DEFINE f == m.result /\ k = "x3p"
           a == [m EXCEPT !.stage = "null", !.cancel = FALSE, !.source = "none",
                          !.locReq = FALSE, !.served = FALSE]
           b == [a EXCEPT !.expected = FALSE, !.assist = FALSE, !.reason = "ok",
                          !.proto = "active", !.queued = FALSE]
           c == [b EXCEPT !.session = s, !.recvd = FALSE, !.handled = FALSE, !.result = f]
<1>0. f \in BOOLEAN
  BY DEF State, MachineState
<1> HIDE DEF f
<1>1. a \in State(k)
  <2>1. [m EXCEPT !.stage = "null"] \in State(k)
    BY StagesAre
  <2>2. [m EXCEPT !.stage = "null", !.cancel = FALSE] \in State(k)
    BY <2>1, FlagsAre
  <2>3. [m EXCEPT !.stage = "null", !.cancel = FALSE, !.source = "none"] \in State(k)
    BY <2>2, SourceIs DEF Source
  <2>4. [m EXCEPT !.stage = "null", !.cancel = FALSE, !.source = "none", !.locReq = FALSE]
          \in State(k)
    BY <2>3, FlagsAre
  <2> QED
    BY <2>4, FlagsAre
<1>2. b \in State(k)
  <2> HIDE DEF a
  <2>1. [a EXCEPT !.expected = FALSE, !.assist = FALSE] \in State(k)
    BY <1>1, FlagsAre
  <2>2. [a EXCEPT !.expected = FALSE, !.assist = FALSE, !.reason = "ok"] \in State(k)
    BY <2>1, AnswersAre DEF Reason
  <2>3. [a EXCEPT !.expected = FALSE, !.assist = FALSE, !.reason = "ok", !.proto = "active"]
          \in State(k)
    BY <2>2, ProtosAre
  <2> QED
    BY <2>3, FlagsAre
<1>3. c \in State(k)
  <2> HIDE DEF b
  <2>1. [b EXCEPT !.session = s] \in State(k)
    BY <1>2, SessionIs
  <2>2. [b EXCEPT !.session = s, !.recvd = FALSE, !.handled = FALSE] \in State(k)
    BY <2>1, FlagsAre
  <2> QED
    BY <1>0, <2>2, FlagsAre
<1>4. Fresh(c, m, s)
  <2>1. /\ a.stage = "null" /\ a.cancel = FALSE /\ a.source = "none" /\ a.locReq = FALSE
        /\ a.at = m.at /\ a.run = m.run /\ a.pending = m.pending
        /\ a.next = m.next /\ a.timers = m.timers /\ a.answer = m.answer /\ a.still = m.still
    BY DEF State, MachineState
  <2> HIDE DEF a
  <2>2. /\ b.stage = a.stage /\ b.cancel = a.cancel /\ b.source = a.source
        /\ b.locReq = a.locReq /\ b.at = a.at /\ b.run = a.run /\ b.pending = a.pending
        /\ b.next = a.next /\ b.timers = a.timers /\ b.answer = a.answer /\ b.still = a.still
        /\ b.reason = "ok" /\ b.proto = "active" /\ b.queued = FALSE
    BY <1>1 DEF State, MachineState
  <2> HIDE DEF b
  <2>3. /\ c.stage = b.stage /\ c.cancel = b.cancel /\ c.source = b.source
        /\ c.locReq = b.locReq /\ c.at = b.at /\ c.run = b.run /\ c.pending = b.pending
        /\ c.next = b.next /\ c.timers = b.timers /\ c.answer = b.answer /\ c.still = b.still
        /\ c.reason = b.reason /\ c.proto = b.proto /\ c.queued = b.queued
        /\ c.session = s /\ c.recvd = FALSE
    BY <1>2 DEF State, MachineState
  <2> HIDE DEF c
  <2> QED
    BY <2>1, <2>2, <2>3 DEF Fresh
<1>5. Initialise(k, m, s) = c
  BY DEF Initialise, f
<1> QED
  BY <1>3, <1>4, <1>5

\* n is m, which does nothing, started for session s, with timers q.
Started(k, n, m, s) ==
    /\ n \in State(k) /\ n.proto = "active" /\ n.source = "none" /\ n.queued = FALSE
    /\ n.session = s /\ n.at = m.at /\ n.next = m.next /\ n.answer = m.answer
    /\ n.still = m.still

LEMMA StartIs ==
    ASSUME NEW k \in Machine, NEW m \in State(k), NEW s \in AllSessions,
           NEW x \in State(k), Fresh(x, m, s), NEW q \in SUBSET TimerOf(k)
    PROVE  Started(k, Perform([x EXCEPT !.timers = q]), m, s)
<1> DEFINE y == [x EXCEPT !.timers = q]
           n == Perform(y)
<1> SUFFICES Started(k, n, m, s)
  OBVIOUS
<1>1. y \in State(k)
  BY TimersAre
<1>2. /\ y.proto = "active" /\ y.source = "none" /\ y.queued = FALSE /\ y.stage = "null"
      /\ y.session = s /\ y.at = m.at /\ y.next = m.next /\ y.answer = m.answer
      /\ y.still = m.still
  BY DEF Fresh, State, MachineState
<1> HIDE DEF y
<1>3. CASE y.run
  <2>1. n = y
    BY <1>3 DEF Perform
  <2> QED
    BY <1>1, <1>2, <2>1 DEF Started
<1>4. CASE ~y.run
  <2>1. n \in State(k) /\ Forwarded(n, y)
    BY <1>1, <1>2, <1>4, PerformIs
  <2> HIDE DEF n
  <2> QED
    BY <1>2, <2>1 DEF Started, Forwarded, Steps
<1> QED
  BY <1>3, <1>4

LEMMA StartFits ==
    ASSUME NEW k \in Machine, NEW m \in State(k), NEW s \in AllSessions, Rest(k, m),
           NEW x \in State(k), Fresh(x, m, s), NEW q \in SUBSET TimerOf(k),
           q \intersect Harm(k) \subseteq IF k = MtLr THEN {"request"} ELSE {},
           NEW fa, NEW la, NEW pa, NEW lo, NEW ind, NEW v,
           ~fa, ~la, ~pa, ~ind, v = "unknown"
    PROVE  Fit(k, Perform([x EXCEPT !.timers = q]), fa, la, pa, lo, ind, v)
<1> DEFINE y == [x EXCEPT !.timers = q]
           n == Perform(y)
<1> SUFFICES Fit(k, n, fa, la, pa, lo, ind, v)
  OBVIOUS
<1>1. y \in State(k)
  BY TimersAre
<1>2. /\ y.proto = "active" /\ y.source = "none" /\ y.stage = "null" /\ y.cancel = FALSE
      /\ y.locReq = FALSE /\ y.reason = "ok" /\ y.recvd = FALSE /\ y.run = m.run
      /\ y.pending = m.pending /\ y.at = "null" /\ y.timers = q
  BY DEF Fresh, State, MachineState, Rest
<1> HIDE DEF y
<1>3. ~y.run /\ y.pending = 0
  BY <1>2 DEF Rest
<1>4. n \in State(k) /\ Forwarded(n, y) /\ n.stage = "exit" /\ n.pending = y.pending
  BY <1>1, <1>2, <1>3, PerformIs
<1> HIDE DEF n
<1>5. /\ n.proto = "active" /\ n.source = "none" /\ n.cancel = FALSE /\ n.locReq = FALSE
      /\ n.recvd = FALSE /\ n.run /\ n.at = "null" /\ n.timers = q /\ n.reason = "ok"
  BY <1>2, <1>4 DEF Forwarded, Steps
<1>6. Load(n) = 1 /\ Moving(n) /\ Calm(n) /\ ~Cancelling(n)
  BY <1>3, <1>4, <1>5 DEF Load, Moving, B, Calm, Cancelling
<1>7. "location" \notin q /\ (k # MtLr => "result" \notin q)
  BY DEF Harm
<1>8. k = MtLr => Serves(n, la, pa, lo, ind, v)
  <2>1. Due(n) = 1
    BY <1>5 DEF Due, B
  <2> QED
    BY <1>5, <1>6, <1>7, <2>1 DEF Serves
<1>9. k # MtLr => Asks(n, la, lo)
  <2>1. Load(n) = B(n.at # "netStarted") + B(n.locReq)
    BY <1>5, <1>6 DEF B
  <2> QED
    BY <1>5, <1>6, <1>7, <2>1 DEF Asks
<1>10. n.at = "null" /\ n.stage = "exit"
  BY <1>4, <1>5
<1> QED
  BY <1>5, <1>6, <1>8, <1>9, <1>10 DEF Fit, Runs

\* The network induces a procedure.
Inducing(x) ==
    MeasurementControlInd(MtLr, [x EXCEPT !.recvd = TRUE, !.handled = TRUE, !.first = TRUE,
                                          !.answer = "accepted", !.at = "privRecvd"])

\* Such a machine runs for s.
IsInduced(n, s, fa, la, pa, lo, ind, v) ==
    /\ n \in State(MtLr) /\ n.proto = "active" /\ n.session = s /\ n.queued = FALSE
    /\ n.source = "none" /\ ~n.still
    /\ Fit(MtLr, n, fa, la, pa, lo, ind, v)

LEMMA InducedFits ==
    ASSUME NEW m \in State(MtLr), NEW s \in AllSessions, Rest(MtLr, m), ~m.still,
           NEW x \in State(MtLr), Fresh(x, m, s),
           NEW fa, NEW la, NEW pa, NEW lo, NEW ind, NEW v,
           ~fa, ~la, ~pa, ind
    PROVE  IsInduced(Inducing(x), s, fa, la, pa, lo, ind, v)
<1> DEFINE y == [x EXCEPT !.recvd = TRUE, !.handled = TRUE, !.first = TRUE,
                          !.answer = "accepted", !.at = "privRecvd"]
           q == y.timers \ {"measure"}
           z == [y EXCEPT !.timers = q, !.assist = TRUE, !.locReq = TRUE, !.served = FALSE]
           n == Forward(z)
<1>0. MtLr \in Machine
  BY DEF Machine
<1>1. y \in State(MtLr)
  <2>1. [x EXCEPT !.recvd = TRUE, !.handled = TRUE, !.first = TRUE] \in State(MtLr)
    BY <1>0, FlagsAre
  <2>2. [x EXCEPT !.recvd = TRUE, !.handled = TRUE, !.first = TRUE, !.answer = "accepted"]
          \in State(MtLr)
    BY <1>0, <2>1, AnswersAre DEF Answer
  <2> QED
    BY <1>0, <2>2, PlaceIs DEF MtLrState
<1>2. /\ y.proto = "active" /\ y.source = "none" /\ y.stage = "null" /\ y.cancel = FALSE
      /\ y.reason = "ok" /\ y.recvd = TRUE /\ y.first = TRUE /\ y.answer = "accepted"
      /\ y.run = m.run /\ y.pending = m.pending /\ y.at = "privRecvd"
      /\ y.timers = m.timers /\ y.session = s /\ y.queued = FALSE /\ y.still = m.still
  BY DEF Fresh, State, MachineState
<1>3. Inducing(x) = n
  BY DEF Inducing, MeasurementControlInd
<1> HIDE DEF y
<1>4. q \in SUBSET TimerOf(MtLr)
  BY <1>1 DEF State, MachineState
<1> HIDE DEF q
<1>5. z \in State(MtLr)
  BY <1>0, <1>1, <1>4, TimersAre, FlagsAre
<1>6. /\ z.proto = "active" /\ z.source = "none" /\ z.stage = "null" /\ z.cancel = FALSE
      /\ z.reason = "ok" /\ z.recvd = TRUE /\ z.first = TRUE /\ z.answer = "accepted"
      /\ z.run = m.run /\ z.pending = m.pending /\ z.at = "privRecvd"
      /\ z.timers = q /\ z.session = s /\ z.queued = FALSE /\ z.locReq = TRUE
      /\ z.still = m.still
  BY <1>1, <1>2 DEF State, MachineState
<1> HIDE DEF z
<1>7. ~z.run /\ z.pending = 0
  BY <1>6 DEF Rest
<1>8. n \in State(MtLr) /\ Forwarded(n, z) /\ n.stage = "exit" /\ n.pending = 0
  BY <1>0, <1>5, <1>6, <1>7, PerformIs DEF Forward
<1> HIDE DEF n
<1>9. /\ n.proto = "active" /\ n.source = "none" /\ n.cancel = FALSE /\ n.locReq = TRUE
      /\ n.recvd = TRUE /\ n.first = TRUE /\ n.answer = "accepted" /\ n.run
      /\ n.at = "privRecvd" /\ n.timers = q /\ n.session = s /\ n.queued = FALSE
      /\ ~n.still
  BY <1>6, <1>8 DEF Forwarded, Steps
<1>10. Load(n) = 1 /\ Moving(n) /\ Calm(n)
  BY <1>8, <1>9 DEF Load, Moving, B, Calm
<1>11. "location" \notin q /\ "request" \notin q
  BY <1>2 DEF Rest, Harm, q
<1>12. Serves(n, la, pa, lo, ind, v)
  <2>1. Due(n) = 1
    BY <1>9 DEF Due, B
  <2> QED
    BY <1>9, <1>10, <1>11, <2>1 DEF Serves
<1>13. Fit(MtLr, n, fa, la, pa, lo, ind, v)
  BY <1>0, <1>9, <1>10, <1>12, CalmFits
<1> QED
  BY <1>3, <1>8, <1>9, <1>13 DEF IsInduced

-----------------------------------------------------------------------------
(***************************************************************************)
(* The module as a whole: what holds of a world, with what LBS answered    *)
(* (a) and the sessions it located (l).                                    *)
(***************************************************************************)

Ops == [kind : Machine \union {"nilr", "none"},
        prio : {"none", "low", "medium", "high", "emergency"}]

Worlds ==
    [mach : [Machine -> UNION {State(k) : k \in Machine}], op : Ops,
     tracking : BOOLEAN, missing : BOOLEAN, expecting : BOOLEAN, used : 0..Len(Internal),
     fac : BOOLEAN, lbs : [Session -> {"new", "open", "cancelled", "completed"}],
     locAsked : SUBSET AllSessions, privAsked : SUBSET InternalSession,
     induced : SUBSET InternalSession, leftover : BOOLEAN,
     sent : SUBSET (AllSessions \X {"position", "accepted"})]

Shaped(w) == w \in Worlds /\ \A k \in Machine : w.mach[k] \in State(k)

AllReady(w) == \A k \in Machine : w.mach[k].proto = "ready"

\* The ids that have been given to sessions.
Given(w) == {Internal[i] : i \in 1..w.used}

One(w) ==
    \A j, k \in Machine :
        w.mach[j].proto # "ready" /\ w.mach[k].proto # "ready" => j = k

\* TakenOver.
Over(w, s) ==
    \E t \in Session \ {s} :
        Kind[s] = "x3p" /\ Kind[t] = "x3p" /\ w.lbs[t] # "new" /\ Priority[s] # "high"

\* A running machine has a session of its kind, which LBS waits for until it is
\* told, but for one that is taken over.
Owns(k, m, w) ==
    LET s == m.session IN
    IF k = MtLr THEN s \in Given(w)
    ELSE /\ s \in Session /\ Kind[s] = k /\ w.lbs[s] # "new"
         /\ Past(m) /\ w.lbs[s] = "open" => Over(w, s)
         /\ m.source = "silent" => k = "x3p" /\ Over(w, s)

Owned(w) == \A k \in Machine : w.mach[k].proto # "ready" => Owns(k, w.mach[k], w)

\* What is queued has not been asked the location of.
Waiting(w) ==
    \A k \in Originated : w.mach[k].queued =>
        LET s == w.mach[k].next IN
        /\ s \in Session /\ Kind[s] = k /\ w.lbs[s] # "new" /\ s \notin w.locAsked
        /\ w.mach[k].proto # "ready" => w.mach[k].session # s

\* Nothing is known of a session that is to come, and LBS is asked once.
Unused(w, a) ==
    /\ \A s \in Session : w.lbs[s] = "new" => s \notin w.locAsked
    /\ (w.locAsked \union w.privAsked \union w.induced) \intersect InternalSession
          \subseteq Given(w)
    /\ \A s \in InternalSession : s \in w.privAsked \/ s \notin Given(w) => a[s] = "unknown"

\* An answer that is stored was given once, unless the network induced it.
Answered(w, a) ==
    w.mach[MtLr].answer = "accepted" =>
        w.induced # {} \/ \E s \in InternalSession : a[s] = "accepted"

Sound(w, a) ==
    /\ Shaped(w) /\ One(w) /\ Owned(w) /\ Waiting(w) /\ Unused(w, a) /\ Answered(w, a)
    /\ ~w.mach[MtLr].still

\* The manager knows which procedure runs.
Kinds(k) == {k} \union IF k = MtLr THEN {"nilr"} ELSE {}

Suits(o, k, s) == o.kind \in Kinds(k) /\ (k = "x3p" => o.prio \in {"none", Priority[s]})

Known(w) ==
    /\ \A k \in Machine : w.mach[k].proto # "ready" => Suits(w.op, k, w.mach[k].session)
    /\ AllReady(w) => w.op = NoOp

Holds(w, s) ==
    \/ \E k \in Machine : w.mach[k].proto # "ready" /\ w.mach[k].session = s
    \/ w.mach[Kind[s]].queued /\ w.mach[Kind[s]].next = s
    \/ Over(w, s)

\* The sessions of S are held.
Held(w, S) == \A s \in S : w.lbs[s] = "open" => Holds(w, s)

\* What waits, waits for something.
Follows(w) == \A k \in Machine \ {"x3p"} : w.mach[k].queued => ~AllReady(w)

\* There are ids for all that may come.
Room(w, b) ==
    w.used + B(w.mach[MtLr].queued) + b.mtlr + b.measurement <= Len(Internal)

FitIn(k, w, l, a) ==
    LET m == w.mach[k]
        s == m.session
    IN  Fit(k, m, w.fac, s \in w.locAsked, s \in w.privAsked, s \in l, s \in w.induced,
            IF s \in InternalSession THEN a[s] ELSE "unknown")

Fits(w, l, a) ==
    /\ \A k \in Machine : FitIn(k, w, l, a)
    /\ AllReady(w) => ~w.fac

-----------------------------------------------------------------------------
(***************************************************************************)
(* Worlds that differ in one part.                                         *)
(***************************************************************************)

\* v is w but for the machines.
Others(v, w) ==
    /\ v.op = w.op /\ v.tracking = w.tracking /\ v.missing = w.missing
    /\ v.expecting = w.expecting /\ v.used = w.used /\ v.fac = w.fac /\ v.lbs = w.lbs
    /\ v.locAsked = w.locAsked /\ v.privAsked = w.privAsked /\ v.induced = w.induced
    /\ v.leftover = w.leftover /\ v.sent = w.sent

\* v is w but for machine k, which is n.
With(v, w, k, n) ==
    /\ Shaped(v) /\ Others(v, w) /\ v.mach[k] = n
    /\ \A j \in Machine \ {k} : v.mach[j] = w.mach[j]

LEMMA MachIs ==
    ASSUME NEW w, Shaped(w), NEW k \in Machine, NEW n \in State(k)
    PROVE  With([w EXCEPT !.mach[k] = n], w, k, n)
<1> DEFINE f == [w.mach EXCEPT ![k] = n]
           v == [w EXCEPT !.mach = f]
<1>1. w.mach \in [Machine -> UNION {State(j) : j \in Machine}]
  BY DEF Shaped, Worlds
<1>2. f \in [Machine -> UNION {State(j) : j \in Machine}] /\ f[k] = n
      /\ \A j \in Machine \ {k} : f[j] = w.mach[j]
  BY <1>1
<1>3. [w EXCEPT !.mach[k] = n] = v
  OBVIOUS
<1> HIDE DEF f
<1>4. v \in Worlds /\ v.mach = f /\ Others(v, w)
  BY <1>2 DEF Shaped, Worlds, Others
<1> HIDE DEF v
<1>5. \A j \in Machine : v.mach[j] \in State(j)
  BY <1>2, <1>4 DEF Shaped
<1> QED
  BY <1>2, <1>3, <1>4, <1>5 DEF With, Shaped

\* v is w but for what only says whether assistance data are on their way, what
\* is sent, and the position the network has.
Data(v, w) ==
    /\ Shaped(v) /\ v.mach = w.mach /\ v.op = w.op /\ v.used = w.used /\ v.lbs = w.lbs
    /\ v.locAsked = w.locAsked /\ v.privAsked = w.privAsked /\ v.induced = w.induced
    /\ v.leftover = w.leftover

LEMMA DataIs ==
    ASSUME NEW w, Shaped(w), NEW b \in BOOLEAN, NEW c \in BOOLEAN
    PROVE  /\ Data([w EXCEPT !.tracking = b], w) /\ [w EXCEPT !.tracking = b].fac = w.fac
           /\ [w EXCEPT !.tracking = b].sent = w.sent
           /\ Data([w EXCEPT !.missing = b], w) /\ [w EXCEPT !.missing = b].fac = w.fac
           /\ [w EXCEPT !.missing = b].sent = w.sent
           /\ Data([w EXCEPT !.fac = b], w) /\ [w EXCEPT !.fac = b].fac = b
           /\ [w EXCEPT !.fac = b].sent = w.sent
           /\ Data([w EXCEPT !.missing = b, !.expecting = c], w)
           /\ [w EXCEPT !.missing = b, !.expecting = c].fac = w.fac
           /\ [w EXCEPT !.missing = b, !.expecting = c].sent = w.sent
<1>1. Data([w EXCEPT !.tracking = b], w)
  BY DEF Data, Shaped, Worlds
<1>2. Data([w EXCEPT !.missing = b], w)
  BY DEF Data, Shaped, Worlds
<1>3. Data([w EXCEPT !.fac = b], w)
  BY DEF Data, Shaped, Worlds
<1>4. Data([w EXCEPT !.missing = b, !.expecting = c], w)
  BY DEF Data, Shaped, Worlds
<1>5. /\ [w EXCEPT !.tracking = b].fac = w.fac /\ [w EXCEPT !.tracking = b].sent = w.sent
      /\ [w EXCEPT !.missing = b].fac = w.fac /\ [w EXCEPT !.missing = b].sent = w.sent
      /\ [w EXCEPT !.fac = b].fac = b /\ [w EXCEPT !.fac = b].sent = w.sent
      /\ [w EXCEPT !.missing = b, !.expecting = c].fac = w.fac
      /\ [w EXCEPT !.missing = b, !.expecting = c].sent = w.sent
  BY DEF Shaped, Worlds
<1> QED
  BY <1>1, <1>2, <1>3, <1>4, <1>5

\* v is w but for that, and the network has the same position, or none any more.
DataAlone(v, w) == Data(v, w) /\ v.fac = w.fac /\ v.sent = w.sent
DataGone(v, w) == Data(v, w) /\ ~v.fac /\ v.sent = w.sent

LEMMA DataAre ==
    ASSUME NEW w, Shaped(w), NEW b \in BOOLEAN, NEW c \in BOOLEAN
    PROVE  /\ DataAlone([w EXCEPT !.tracking = b], w)
           /\ DataAlone([w EXCEPT !.missing = b], w)
           /\ DataAlone([w EXCEPT !.missing = b, !.expecting = c], w)
           /\ DataAlone([w EXCEPT !.expecting = c, !.missing = b], w)
           /\ DataGone([w EXCEPT !.fac = FALSE], w)
<1>1. DataAlone([w EXCEPT !.tracking = b], w)
  BY DEF DataAlone, Data, Shaped, Worlds
<1>2. DataAlone([w EXCEPT !.missing = b], w)
  BY DEF DataAlone, Data, Shaped, Worlds
<1>3. DataAlone([w EXCEPT !.missing = b, !.expecting = c], w)
  BY DEF DataAlone, Data, Shaped, Worlds
<1>4. DataAlone([w EXCEPT !.expecting = c, !.missing = b], w)
  BY DEF DataAlone, Data, Shaped, Worlds
<1>5. DataGone([w EXCEPT !.fac = FALSE], w)
  BY DEF DataGone, Data, Shaped, Worlds
<1> QED
  BY <1>1, <1>2, <1>3, <1>4, <1>5

-----------------------------------------------------------------------------
(***************************************************************************)
(* What one machine does, and what LBS is told, leaves the world sound.    *)
(***************************************************************************)

\* LBS waits for less, and no session of its is new again.
Closer(v, w) ==
    \A s \in Session :
        (v.lbs[s] = "open" => w.lbs[s] = "open") /\ (v.lbs[s] = "new" => w.lbs[s] = "new")

\* n is where machine k, which is m, may go while its procedure lasts.
Goes(k, n, m, v) ==
    /\ n.proto = "ready" <=> m.proto = "ready"
    /\ n.session = m.session /\ n.queued = m.queued /\ n.next = m.next
    /\ k # MtLr /\ n.proto # "ready" =>
          /\ Past(n) => Past(m) \/ v.lbs[n.session] # "open" \/ Over(v, n.session)
          /\ n.source = "silent" => m.source = "silent" \/ (k = "x3p" /\ Over(v, n.session))
    /\ k = MtLr => (n.answer = "accepted" => m.answer = "accepted") /\ (~m.still => ~n.still)

Near(v, w, a) ==
    /\ Shaped(v) /\ v.op = w.op /\ v.used = w.used /\ v.induced = w.induced
    /\ Closer(v, w)
    /\ \A k \in Machine : Goes(k, v.mach[k], w.mach[k], v)
    /\ \A s \in v.locAsked : s \in w.locAsked
          \/ \E k \in Machine : v.mach[k].proto # "ready" /\ v.mach[k].session = s
    /\ \A s \in v.privAsked : s \in w.privAsked
          \/ (v.mach[MtLr].proto # "ready" /\ v.mach[MtLr].session = s /\ a[s] = "unknown")

\* What else holds of v if it does of w.
Carried(v, w) ==
    /\ Known(w) => Known(v)
    /\ Follows(w) => Follows(v)
    /\ AllReady(v) <=> AllReady(w)
    /\ \A S \in SUBSET Session : Held(w, S) => Held(v, S)
    /\ \A b : Room(w, b) => Room(v, b)

LEMMA GivenAreInternal ==
    ASSUME NEW w, Shaped(w)
    PROVE  Given(w) \subseteq InternalSession
BY ProtocolModuleAssumption DEF Given, InternalSession, Shaped, Worlds

LEMMA OverIsKept ==
    ASSUME NEW v, NEW w, Closer(v, w), NEW s, Over(w, s)
    PROVE  Over(v, s)
BY DEF Over, Closer

LEMMA NearIs ==
    ASSUME NEW v, NEW w, NEW a, Sound(w, a), Near(v, w, a)
    PROVE  Sound(v, a) /\ Carried(v, w)
<1>1. /\ Shaped(w) /\ One(w) /\ Owned(w) /\ Waiting(w) /\ Unused(w, a) /\ Answered(w, a)
      /\ ~w.mach[MtLr].still
  BY DEF Sound
<1>2. /\ Shaped(v) /\ v.op = w.op /\ v.used = w.used /\ v.induced = w.induced
      /\ Closer(v, w)
  BY DEF Near
<1>3. ASSUME NEW k \in Machine
      PROVE  /\ v.mach[k].proto = "ready" <=> w.mach[k].proto = "ready"
             /\ v.mach[k].session = w.mach[k].session /\ v.mach[k].queued = w.mach[k].queued
             /\ v.mach[k].next = w.mach[k].next
  BY DEF Near, Goes
<1>4. MtLr \in Machine /\ "x3p" \in Machine /\ "x3p" # MtLr
  BY DEF Machine, Originated, MtLr
<1>5. One(v)
  BY <1>1, <1>3 DEF One
<1>6. Given(v) = Given(w)
  BY <1>2 DEF Given
<1>7. \A s : Over(w, s) => Over(v, s)
  BY <1>2, OverIsKept
<1>8. Owned(v)
  <2> SUFFICES ASSUME NEW k \in Machine, v.mach[k].proto # "ready"
               PROVE  Owns(k, v.mach[k], v)
    BY DEF Owned
  <2>1. Owns(k, w.mach[k], w) /\ Goes(k, v.mach[k], w.mach[k], v)
    BY <1>1, <1>3 DEF Owned, Near
  <2>2. CASE k = MtLr
    BY <1>3, <1>6, <2>1, <2>2 DEF Owns
  <2>3. CASE k # MtLr
    BY <1>2, <1>3, <1>7, <2>1, <2>3 DEF Owns, Goes, Closer
  <2> QED
    BY <2>2, <2>3
<1>9. Given(w) \subseteq InternalSession /\ Session \intersect InternalSession = {}
  BY <1>1, GivenAreInternal, ProtocolModuleAssumption
<1>10. ASSUME NEW k \in Machine, v.mach[k].proto # "ready", NEW s \in Session,
              v.mach[k].session = s
       PROVE  k # MtLr /\ Kind[s] = k /\ v.lbs[s] # "new"
  BY <1>6, <1>8, <1>9, <1>10 DEF Owned, Owns
<1>11. Waiting(v)
  <2> SUFFICES ASSUME NEW k \in Originated, v.mach[k].queued
               PROVE  LET s == v.mach[k].next IN
                      /\ s \in Session /\ Kind[s] = k /\ v.lbs[s] # "new" /\ s \notin v.locAsked
                      /\ v.mach[k].proto # "ready" => v.mach[k].session # s
    BY DEF Waiting
  <2> DEFINE s == v.mach[k].next
  <2>1. k \in Machine
    BY DEF Machine
  <2>2. /\ s \in Session /\ Kind[s] = k /\ w.lbs[s] # "new" /\ s \notin w.locAsked
        /\ v.mach[k].proto # "ready" => v.mach[k].session # s
    BY <1>1, <1>3, <2>1 DEF Waiting
  <2> HIDE DEF s
  <2>3. v.lbs[s] # "new"
    BY <1>2, <2>2 DEF Closer
  <2>4. ASSUME s \in v.locAsked
        PROVE  FALSE
    <3>1. \E j \in Machine : v.mach[j].proto # "ready" /\ v.mach[j].session = s
      BY <2>2, <2>4 DEF Near
    <3> QED
      BY <1>10, <2>2, <3>1
  <2> QED
    BY <2>2, <2>3, <2>4 DEF s
<1>12. Unused(v, a)
  <2>1. \A s \in Session : v.lbs[s] = "new" => s \notin v.locAsked
    <3> SUFFICES ASSUME NEW s \in Session, v.lbs[s] = "new", s \in v.locAsked
                 PROVE  FALSE
      OBVIOUS
    <3>1. s \notin w.locAsked
      BY <1>1, <1>2 DEF Unused, Closer
    <3>2. \E j \in Machine : v.mach[j].proto # "ready" /\ v.mach[j].session = s
      BY <3>1 DEF Near
    <3> QED
      BY <1>10, <3>2
  <2>2. (v.locAsked \union v.privAsked \union v.induced) \intersect InternalSession
           \subseteq Given(v)
    <3> SUFFICES ASSUME NEW s \in InternalSession,
                        s \in v.locAsked \/ s \in v.privAsked \/ s \in v.induced,
                        s \notin Given(w)
                 PROVE  FALSE
      BY <1>6
    <3>1. s \notin w.locAsked /\ s \notin w.privAsked /\ s \notin w.induced
      BY <1>1 DEF Unused
    <3>2. \E j \in Machine : v.mach[j].proto # "ready" /\ v.mach[j].session = s
      BY <1>2, <1>4, <3>1 DEF Near
    <3> QED
      BY <1>6, <1>8, <1>9, <3>2 DEF Owned, Owns
  <2>3. \A s \in InternalSession : s \in v.privAsked \/ s \notin Given(v) => a[s] = "unknown"
    BY <1>1, <1>6 DEF Near, Unused
  <2> QED
    BY <2>1, <2>2, <2>3 DEF Unused
<1>13. Answered(v, a) /\ ~v.mach[MtLr].still
  BY <1>1, <1>2, <1>4 DEF Answered, Near, Goes
<1>14. Sound(v, a)
  BY <1>2, <1>5, <1>8, <1>11, <1>12, <1>13 DEF Sound
<1>15. AllReady(v) <=> AllReady(w)
  BY <1>3 DEF AllReady
<1>16. Known(w) => Known(v)
  BY <1>2, <1>3, <1>15 DEF Known
<1>17. Follows(w) => Follows(v)
  BY <1>3, <1>15 DEF Follows
<1>18. ASSUME NEW S \in SUBSET Session, Held(w, S)
       PROVE  Held(v, S)
  <2> SUFFICES ASSUME NEW s \in S, v.lbs[s] = "open"
               PROVE  Holds(v, s)
    BY DEF Held
  <2>1. Holds(w, s)
    BY <1>2, <1>18 DEF Held, Closer
  <2>2. Kind[s] \in Machine
    BY ProtocolModuleAssumption DEF Machine
  <2> QED
    BY <1>3, <1>7, <2>1, <2>2 DEF Holds
<1>19. \A b : Room(w, b) => Room(v, b)
  BY <1>2, <1>3, <1>4 DEF Room
<1> QED
  BY <1>14, <1>15, <1>16, <1>17, <1>18, <1>19 DEF Carried

\* What is asked of machine k moves it: n is what it becomes.
MovedIn(k, n, w, l, a) ==
    LET s == w.mach[k].session IN
    Moved(k, n, w.mach[k], w.fac, s \in w.locAsked, s \in w.privAsked, s \in l,
          s \in w.induced, IF s \in InternalSession THEN a[s] ELSE "unknown")

LEMMA MovesIs ==
    ASSUME NEW w, NEW a, Sound(w, a), NEW k \in Machine, NEW n, Becomes(k, n, w.mach[k]),
           NEW v, With(v, w, k, n)
    PROVE  Near(v, w, a)
<1>1. Shaped(v) /\ Others(v, w) /\ v.mach[k] = n
      /\ \A j \in Machine \ {k} : v.mach[j] = w.mach[j]
  BY DEF With
<1>2. Closer(v, w)
  BY <1>1 DEF Closer, Others
<1>3. Goes(k, n, w.mach[k], v)
  BY DEF Goes, Becomes, Steps, Past
<1>4. \A j \in Machine \ {k} : Goes(j, w.mach[j], w.mach[j], v)
  BY DEF Goes
<1>5. \A j \in Machine : Goes(j, v.mach[j], w.mach[j], v)
  BY <1>1, <1>3, <1>4
<1>6. v.op = w.op /\ v.used = w.used /\ v.induced = w.induced
      /\ v.locAsked = w.locAsked /\ v.privAsked = w.privAsked
  BY <1>1 DEF Others
<1> QED
  BY <1>1, <1>2, <1>5, <1>6 DEF Near

\* The machine that runs is fit, and the others do nothing.
LEMMA RunnerFits ==
    ASSUME NEW w, One(w), NEW l, NEW a, Fits(w, l, a), NEW k \in Machine,
           w.mach[k].proto # "ready",
           NEW v, \A j \in Machine \ {k} : v.mach[j] = w.mach[j],
           v.mach[k].proto # "ready", Shaped(w),
           NEW l2, NEW a2, FitIn(k, v, l2, a2)
    PROVE  Fits(v, l2, a2)
<1>1. ASSUME NEW j \in Machine, j # k
      PROVE  FitIn(j, v, l2, a2)
  <2>1. w.mach[j].proto = "ready" /\ v.mach[j] = w.mach[j] /\ v.mach[j] \in State(j)
    BY <1>1 DEF One, Shaped
  <2>2. FitIn(j, w, l, a)
    BY DEF Fits
  <2>3. Rest(j, v.mach[j])
    BY <2>1, <2>2 DEF FitIn, Fit
  <2> QED
    BY <2>1, <2>3 DEF FitIn, Fit
<1>2. ~AllReady(v)
  BY DEF AllReady
<1> QED
  BY <1>1, <1>2 DEF Fits

LEMMA MovesFit ==
    ASSUME NEW w, One(w), Shaped(w), NEW l, NEW a, Fits(w, l, a), NEW k \in Machine,
           w.mach[k].proto # "ready", NEW n, MovedIn(k, n, w, l, a), NEW v, With(v, w, k, n)
    PROVE  Fits(v, l, a)
<1>1. v.mach[k] = n /\ (\A j \in Machine \ {k} : v.mach[j] = w.mach[j]) /\ Others(v, w)
  BY DEF With
<1>2. n.proto = w.mach[k].proto /\ n.session = w.mach[k].session
  BY DEF MovedIn, Moved, Becomes, Steps
<1>3. FitIn(k, v, l, a)
  BY <1>1, <1>2 DEF FitIn, MovedIn, Moved, Others
<1> QED
  BY <1>1, <1>2, <1>3, RunnerFits

\* All that holds of a world between two steps; the sessions of S are held.
Live(w, S, l, a) ==
    /\ Sound(w, a) /\ Known(w) /\ Held(w, S) /\ Follows(w) /\ Fits(w, l, a)
    /\ ~w.leftover /\ w.sent = {}

\* It still does, and there still are ids.
Lives(v, w, S, l, a) == Live(v, S, l, a) /\ Carried(v, w)

LEMMA NearLives ==
    ASSUME NEW S \in SUBSET Session, NEW w, NEW l, NEW a, Live(w, S, l, a),
           NEW v, Near(v, w, a), v.leftover = w.leftover, v.sent = w.sent,
           NEW l2, Fits(v, l2, a)
    PROVE  Lives(v, w, S, l2, a)
<1>1. Sound(v, a) /\ Carried(v, w)
  BY NearIs DEF Live
<1> QED
  BY <1>1 DEF Live, Lives, Carried

LEMMA MovesLives ==
    ASSUME NEW S \in SUBSET Session, NEW w, NEW l, NEW a, Live(w, S, l, a), NEW k \in Machine,
           w.mach[k].proto # "ready", NEW n, MovedIn(k, n, w, l, a), NEW v, With(v, w, k, n)
    PROVE  Lives(v, w, S, l, a)
<1>1. Sound(w, a) /\ One(w) /\ Shaped(w) /\ Fits(w, l, a)
  BY DEF Live, Sound
<1>2. Becomes(k, n, w.mach[k])
  BY DEF MovedIn, Moved
<1>3. Near(v, w, a)
  BY <1>1, <1>2, MovesIs
<1>4. Fits(v, l, a)
  BY <1>1, MovesFit
<1>5. v.leftover = w.leftover /\ v.sent = w.sent
  BY DEF With, Others
<1> QED
  BY <1>3, <1>4, <1>5, NearLives

LEMMA DataLives ==
    ASSUME NEW S \in SUBSET Session, NEW w, NEW l, NEW a, Live(w, S, l, a), NEW v, Data(v, w),
           v.sent = w.sent, v.fac = w.fac \/ ~v.fac
    PROVE  Lives(v, w, S, l, a)
<1>1. Sound(w, a) /\ Fits(w, l, a)
  BY DEF Live
<1>2. Near(v, w, a)
  <2>1. \A k \in Machine : Goes(k, v.mach[k], w.mach[k], v)
    BY DEF Goes, Data
  <2>2. Closer(v, w)
    BY DEF Closer, Data
  <2>3. Shaped(v) /\ v.op = w.op /\ v.used = w.used /\ v.induced = w.induced
        /\ v.locAsked = w.locAsked /\ v.privAsked = w.privAsked
    BY DEF Data
  <2> QED
    BY <2>1, <2>2, <2>3 DEF Near
<1>3. CASE v.fac = w.fac
  <2>1. Fits(v, l, a)
    BY <1>1, <1>3 DEF Fits, FitIn, Data, AllReady
  <2> QED
    BY <1>2, <2>1, NearLives DEF Data
<1>4. CASE ~v.fac
  <2>1. ASSUME NEW k \in Machine
        PROVE  FitIn(k, v, l, a)
    <3> DEFINE s == w.mach[k].session
               u == IF s \in InternalSession THEN a[s] ELSE "unknown"
    <3>1. Fit(k, w.mach[k], w.fac, s \in w.locAsked, s \in w.privAsked, s \in l,
              s \in w.induced, u)
      BY <1>1 DEF Fits, FitIn
    <3> HIDE DEF u
    <3>2. Fit(k, w.mach[k], v.fac, s \in w.locAsked, s \in w.privAsked, s \in l,
              s \in w.induced, u)
      BY <1>4, <3>1, NothingGiven
    <3> QED
      BY <3>2 DEF FitIn, Data, u
  <2>2. Fits(v, l, a)
    BY <1>4, <2>1 DEF Fits
  <2> QED
    BY <1>2, <2>2, NearLives DEF Data
<1> QED
  BY <1>3, <1>4

-----------------------------------------------------------------------------
(***************************************************************************)
(* Which machine is meant.                                                 *)
(***************************************************************************)

LEMMA FirstIs ==
    ASSUME NEW K \in SUBSET Machine
    PROVE  IF K = {} THEN First(K) = "none" ELSE First(K) \in K
<1>1. CASE K = {}
  BY <1>1 DEF First
<1>2. CASE K # {}
  <2>1. \E k \in K : \A j \in K : Rank[k] <= Rank[j]
    <3>0. /\ Rank["mtlr"] = 0 /\ Rank["molr"] = 1 /\ Rank["x3p"] = 2 /\ Rank["netloc"] = 3
          /\ \A k \in K : k \in {"mtlr", "molr", "x3p", "netloc"}
      BY DEF Rank, Machine, Originated, MtLr
    <3>1. CASE "mtlr" \in K
      BY <3>0, <3>1
    <3>2. CASE "mtlr" \notin K /\ "molr" \in K
      BY <3>0, <3>2
    <3>3. CASE "mtlr" \notin K /\ "molr" \notin K /\ "x3p" \in K
      BY <3>0, <3>3
    <3>4. CASE "mtlr" \notin K /\ "molr" \notin K /\ "x3p" \notin K
      BY <1>2, <3>0, <3>4
    <3> QED
      BY <3>1, <3>2, <3>3, <3>4
  <2> DEFINE k == CHOOSE k \in K : \A j \in K : Rank[k] <= Rank[j]
  <2>2. k \in K
    BY <2>1
  <2> QED
    BY <1>2, <2>2 DEF First
<1> QED
  BY <1>1, <1>2

LEMMA InStateIs ==
    ASSUME NEW w, NEW p
    PROVE  IF \A k \in Machine : w.mach[k].proto # p THEN InState(w, p) = "none"
           ELSE InState(w, p) \in Machine /\ w.mach[InState(w, p)].proto = p
<1> DEFINE K == {k \in Machine : w.mach[k].proto = p}
<1>1. IF K = {} THEN First(K) = "none" ELSE First(K) \in K
  BY FirstIs
<1> QED
  BY <1>1 DEF InState

LEMMA ActiveIs ==
    ASSUME NEW w
    PROVE  IF Active(w) = "none" THEN \A k \in Machine : w.mach[k].proto # "active"
           ELSE Active(w) \in Machine /\ w.mach[Active(w)].proto = "active"
<1>1. "none" \notin Machine
  BY DEF Machine, Originated, MtLr
<1> QED
  BY <1>1, InStateIs DEF Active

LEMMA QueuedIs ==
    ASSUME NEW w
    PROVE  IF Queued(w) = "none" THEN \A k \in Machine : ~w.mach[k].queued
           ELSE Queued(w) \in Machine /\ w.mach[Queued(w)].queued
<1> DEFINE K == {k \in Machine : w.mach[k].queued}
<1>1. IF K = {} THEN First(K) = "none" ELSE First(K) \in K
  BY FirstIs
<1>2. "none" \notin Machine
  BY DEF Machine, Originated, MtLr
<1> QED
  BY <1>1, <1>2 DEF Queued

-----------------------------------------------------------------------------
(***************************************************************************)
(* What a machine is told.                                                 *)
(***************************************************************************)

LEMMA MachLives ==
    ASSUME NEW S \in SUBSET Session, NEW w, NEW l, NEW a, Live(w, S, l, a), NEW k \in Machine,
           w.mach[k].proto # "ready", NEW n, MovedIn(k, n, w, l, a)
    PROVE  /\ Lives([w EXCEPT !.mach[k] = n], w, S, l, a)
           /\ With([w EXCEPT !.mach[k] = n], w, k, n)
<1>1. Shaped(w) /\ n \in State(k)
  BY DEF Live, Sound, MovedIn, Moved, Becomes
<1>2. With([w EXCEPT !.mach[k] = n], w, k, n)
  BY <1>1, MachIs
<1> QED
  BY <1>2, MovesLives

LEMMA CancelsIn ==
    ASSUME NEW S \in SUBSET Session, NEW w, NEW l, NEW a, Live(w, S, l, a), NEW k \in Machine,
           w.mach[k].proto = "active", NEW source \in Source \ {"silent", "netError"},
           NEW x \in State(k), x.proto = w.mach[k].proto, x.at = w.mach[k].at,
           x.stage = w.mach[k].stage, x.run = w.mach[k].run, x.session = w.mach[k].session,
           x.queued = w.mach[k].queued, x.next = w.mach[k].next, x.still = w.mach[k].still,
           x.answer = "accepted" => w.mach[k].answer = "accepted"
    PROVE  MovedIn(k, CancelMachine(x, source), w, l, a)
<1> DEFINE m == w.mach[k]
           s == m.session
           u == IF s \in InternalSession THEN a[s] ELSE "unknown"
<1>1. Fit(k, m, w.fac, s \in w.locAsked, s \in w.privAsked, s \in l, s \in w.induced, u)
  BY DEF Live, Fits, FitIn
<1>2. Told(k, x, m, w.fac)
  <2> HIDE DEF u
  <2> QED
    BY <1>1, ToldIs
<1>3. Moved(k, CancelMachine(x, source), m, w.fac, s \in w.locAsked, s \in w.privAsked, s \in l,
            s \in w.induced, u)
  BY <1>2, CancelFits
<1> QED
  BY <1>3 DEF MovedIn

\* What moves a machine, but for what changes what LBS is asked.
LEMMA EventsIn ==
    ASSUME NEW S \in SUBSET Session, NEW w, NEW l, NEW a, Live(w, S, l, a), NEW k \in Machine
    PROVE  LET m == w.mach[k] IN
           /\ m.proto # "ready" => MovedIn(k, AssistanceDataReq(m), w, l, a)
           /\ m.proto # "ready" => MovedIn(k, AdditionalAssistDataInd(m), w, l, a)
           /\ (m.proto = "active" /\ ~m.locReq) \/ Cancelling(m) =>
                 MovedIn(k, MeasurementControlInd(k, m), w, l, a)
           /\ m.proto = "active" => \A cancelled \in BOOLEAN :
                 MovedIn(k, MeasurementControlErrorInd(k, m, cancelled), w, l, a)
           /\ m.proto = "active" => MovedIn(k, MeasurementControlTimeout(k, m), w, l, a)
<1> DEFINE m == w.mach[k]
           s == m.session
           u == IF s \in InternalSession THEN a[s] ELSE "unknown"
           M(n) == Moved(k, n, m, w.fac, s \in w.locAsked, s \in w.privAsked, s \in l,
                         s \in w.induced, u)
<1>1. /\ Fit(k, m, w.fac, s \in w.locAsked, s \in w.privAsked, s \in l, s \in w.induced, u)
      /\ m \in State(k)
  BY DEF Live, Fits, FitIn, Sound, Shaped
<1>2. \A n : M(n) => MovedIn(k, n, w, l, a)
  BY DEF MovedIn
<1> HIDE DEF u, m, s
<1>3. ASSUME m.proto # "ready"
      PROVE  M(AssistanceDataReq(m)) /\ M(AdditionalAssistDataInd(m))
  BY <1>1, <1>3, AssistanceFits
<1>4. ASSUME (m.proto = "active" /\ ~m.locReq) \/ Cancelling(m)
      PROVE  M(MeasurementControlInd(k, m))
  BY <1>1, <1>4, MeasurementFits
<1>5. ASSUME m.proto = "active", NEW cancelled \in BOOLEAN
      PROVE  M(MeasurementControlErrorInd(k, m, cancelled))
  BY <1>1, <1>5, MeasurementErrorFits
<1>6. ASSUME m.proto = "active"
      PROVE  M(MeasurementControlTimeout(k, m))
  BY <1>1, <1>6, TimeoutFits
<1> HIDE DEF M
<1> QED
  BY <1>2, <1>3, <1>4, <1>5, <1>6 DEF m

\* A timer is over, of any machine.
LEMMA SameLives ==
    ASSUME NEW S \in SUBSET Session, NEW w, NEW l, NEW a, Live(w, S, l, a), NEW k \in Machine,
           NEW x \in State(k), Same(x, w.mach[k]), x.run = w.mach[k].run
    PROVE  /\ Lives([w EXCEPT !.mach[k] = x], w, S, l, a)
           /\ With([w EXCEPT !.mach[k] = x], w, k, x)
<1> DEFINE v == [w EXCEPT !.mach[k] = x]
           m == w.mach[k]
           s == m.session
           u == IF s \in InternalSession THEN a[s] ELSE "unknown"
<1>1. Shaped(w) /\ Sound(w, a) /\ Fits(w, l, a) /\ m \in State(k)
  BY DEF Live, Sound, Shaped
<1>2. With(v, w, k, x)
  BY <1>1, MachIs
<1> HIDE DEF v
<1>3. Fit(k, m, w.fac, s \in w.locAsked, s \in w.privAsked, s \in l, s \in w.induced, u)
  BY <1>1 DEF Fits, FitIn
<1> HIDE DEF u
<1>4. CASE m.proto # "ready"
  <2>1. MovedIn(k, x, w, l, a)
    BY <1>3, <1>4, WokenFits DEF MovedIn, u
  <2> QED
    BY <1>2, <1>4, <2>1, MovesLives DEF v
<1>5. CASE m.proto = "ready"
  <2>1. Becomes(k, x, m)
    BY DEF Becomes, Same, Steps
  <2>2. Near(v, w, a)
    BY <1>1, <1>2, <2>1, MovesIs
  <2>3. x.timers \intersect Harm(k) \subseteq m.timers
    BY DEF Same, Harm
  <2>4. FitIn(k, v, l, a)
    BY <1>2, <1>3, <1>5, <2>3, RestIsKept DEF FitIn, With, Same
  <2>5. \A j \in Machine \ {k} : FitIn(j, v, l, a)
    BY <1>1, <1>2 DEF Fits, FitIn, With, Others
  <2>6. Fits(v, l, a)
    BY <1>1, <1>2, <2>1, <2>4, <2>5 DEF Fits, With, Others, AllReady, Becomes, Steps
  <2> QED
    BY <1>2, <2>2, <2>6, NearLives DEF With, Others, v
<1> QED
  BY <1>4, <1>5

-----------------------------------------------------------------------------
(***************************************************************************)
(* Assistance data.                                                        *)
(***************************************************************************)

LEMMA LivesTwice ==
    ASSUME NEW S \in SUBSET Session, NEW w, NEW l, NEW a, NEW v, Lives(v, w, S, l, a),
           NEW u, NEW l2, Lives(u, v, S, l2, a)
    PROVE  Lives(u, w, S, l2, a)
BY DEF Lives, Carried

LEMMA LivesAnyway ==
    ASSUME NEW S \in SUBSET Session, NEW w, NEW l, NEW a, Live(w, S, l, a)
    PROVE  Lives(w, w, S, l, a)
BY DEF Lives, Carried

\* n is m, with the timer of the assistance data perhaps.
Assisted(n, m) ==
    \/ n = m
    \/ m.proto = "active" /\ n = [m EXCEPT !.timers = m.timers \union {"assist"}]

\* v is w after assistance data were asked for.
Asked(v, w) ==
    /\ Shaped(v) /\ v.op = w.op /\ v.used = w.used /\ v.fac = w.fac /\ v.lbs = w.lbs
    /\ v.locAsked = w.locAsked /\ v.privAsked = w.privAsked /\ v.induced = w.induced
    /\ v.leftover = w.leftover /\ v.sent = w.sent
    /\ \A k \in Machine : Assisted(v.mach[k], w.mach[k])

LEMMA AssistTimerIs ==
    ASSUME NEW k \in Machine, NEW m \in State(k)
    PROVE  m.timers \union {"assist"} \in SUBSET TimerOf(k)
BY DEF State, MachineState, TimerOf

LEMMA DoAssistIs ==
    ASSUME NEW w, Shaped(w)
    PROVE  Asked(DoAssistanceDataActions(w), w)
<1> DEFINE n == [w EXCEPT !.missing = FALSE, !.expecting = TRUE]
           k == Active(w)
           q == w.mach[k].timers \union {"assist"}
           x == [w.mach[k] EXCEPT !.timers = q]
           v == [n EXCEPT !.mach[k] = x]
<1>1. Data(n, w) /\ n.fac = w.fac /\ n.sent = w.sent
  BY DataIs
<1>2. Asked(w, w)
  BY DEF Asked, Assisted
<1>3. Asked(n, w)
  BY <1>1 DEF Asked, Data, Assisted
<1>4. ASSUME k # "none"
      PROVE  Asked(v, w)
  <2>1. k \in Machine /\ w.mach[k].proto = "active" /\ w.mach[k] \in State(k)
    BY <1>4, ActiveIs DEF Shaped
  <2>2. x \in State(k)
    BY <2>1, AssistTimerIs, TimersAre
  <2> HIDE DEF n
  <2>3. With(v, n, k, x)
    BY <1>1, <2>1, <2>2, MachIs DEF Data
  <2>4. Assisted(x, w.mach[k])
    BY <2>1 DEF Assisted
  <2> HIDE DEF v, x
  <2>5. \A j \in Machine : Assisted(v.mach[j], w.mach[j])
    BY <1>1, <2>3, <2>4 DEF With, Data, Assisted
  <2> QED
    BY <1>1, <2>3, <2>5 DEF Asked, With, Others, Data
<1>5. n.mach = w.mach
  BY <1>1 DEF Data
<1>6. DoAssistanceDataActions(w) =
         IF ~w.missing \/ w.expecting THEN w ELSE IF k = "none" THEN n ELSE v
  BY <1>5 DEF DoAssistanceDataActions
<1> HIDE DEF n, k, v
<1> QED
  BY <1>2, <1>3, <1>4, <1>6

LEMMA AssistedIsSame ==
    ASSUME NEW k \in Machine, NEW m \in State(k), NEW n, Assisted(n, m)
    PROVE  n \in State(k) /\ Same(n, m) /\ n.run = m.run /\ n.assist = m.assist
<1>1. CASE n = m
  BY <1>1 DEF Same
<1>2. CASE n = [m EXCEPT !.timers = m.timers \union {"assist"}]
  <2> DEFINE q == m.timers \union {"assist"}
  <2>1. q \in SUBSET TimerOf(k)
    BY AssistTimerIs
  <2>2. /\ "location" \in q <=> "location" \in m.timers
        /\ "result" \in q <=> "result" \in m.timers
        /\ "request" \in q <=> "request" \in m.timers
    OBVIOUS
  <2> HIDE DEF q
  <2>3. n = [m EXCEPT !.timers = q]
    BY <1>2 DEF q
  <2>4. n \in State(k)
    BY <2>1, <2>3, TimersAre
  <2> QED
    BY <2>2, <2>3, <2>4 DEF Same, State, MachineState
<1> QED
  BY <1>1, <1>2 DEF Assisted

LEMMA DoAssistLives ==
    ASSUME NEW S \in SUBSET Session, NEW w, NEW l, NEW a, Live(w, S, l, a)
    PROVE  Lives(DoAssistanceDataActions(w), w, S, l, a)
<1> DEFINE v == DoAssistanceDataActions(w)
<1>1. Shaped(w) /\ Sound(w, a) /\ Fits(w, l, a) /\ One(w)
  BY DEF Live, Sound
<1>2. Asked(v, w)
  BY <1>1, DoAssistIs
<1> HIDE DEF v
<1>3. ASSUME NEW k \in Machine
      PROVE  /\ v.mach[k] \in State(k) /\ w.mach[k] \in State(k)
             /\ Same(v.mach[k], w.mach[k]) /\ v.mach[k].run = w.mach[k].run
  BY <1>1, <1>2, AssistedIsSame DEF Asked, Shaped
<1>4. Near(v, w, a)
  <2>1. \A k \in Machine : Goes(k, v.mach[k], w.mach[k], v)
    BY <1>1, <1>3 DEF Goes, Same, Past
  <2>2. Closer(v, w)
    BY <1>2 DEF Closer, Asked
  <2>3. Shaped(v) /\ v.op = w.op /\ v.used = w.used /\ v.induced = w.induced
        /\ v.locAsked = w.locAsked /\ v.privAsked = w.privAsked
    BY <1>2 DEF Asked
  <2> QED
    BY <2>1, <2>2, <2>3 DEF Near
<1>5. ASSUME NEW k \in Machine
      PROVE  FitIn(k, v, l, a)
  <2> DEFINE m == w.mach[k]
             s == m.session
             u == IF s \in InternalSession THEN a[s] ELSE "unknown"
             x == v.mach[k]
  <2>1. Fit(k, m, w.fac, s \in w.locAsked, s \in w.privAsked, s \in l, s \in w.induced, u)
    BY <1>1 DEF Fits, FitIn
  <2>2. x.session = s
    BY <1>3 DEF Same
  <2> HIDE DEF u
  <2>3. Fit(k, x, w.fac, s \in w.locAsked, s \in w.privAsked, s \in l, s \in w.induced, u)
    <3>1. CASE m.proto # "ready"
      <4>1. x \in State(k) /\ Same(x, m) /\ x.run = m.run
        BY <1>3
      <4> HIDE DEF x, m, s
      <4>2. Moved(k, x, m, w.fac, s \in w.locAsked, s \in w.privAsked, s \in l,
                  s \in w.induced, u)
        BY <2>1, <3>1, <4>1, WokenFits
      <4> QED
        BY <4>2 DEF Moved
    <3>2. CASE m.proto = "ready"
      <4>1. x.timers \intersect Harm(k) \subseteq m.timers
        BY <1>3 DEF Same, Harm
      <4>2. x.proto = m.proto /\ x.at = m.at /\ x.stage = m.stage /\ x.run = m.run
            /\ x.cancel = m.cancel /\ x.pending = m.pending
        BY <1>3 DEF Same
      <4> HIDE DEF x, m
      <4> QED
        BY <1>3, <2>1, <3>2, <4>1, <4>2, RestIsKept DEF x
    <3> QED
      BY <3>1, <3>2
  <2> QED
    BY <1>2, <2>2, <2>3 DEF FitIn, Asked, u
<1>6. AllReady(v) <=> AllReady(w)
  BY <1>3 DEF AllReady, Same
<1>7. Fits(v, l, a)
  BY <1>1, <1>2, <1>5, <1>6 DEF Fits, Asked
<1> QED
  BY <1>2, <1>4, <1>7, NearLives DEF Asked, v

-----------------------------------------------------------------------------
(***************************************************************************)
(* What LBS is told, and what LBS answers.                                 *)
(***************************************************************************)

\* v is w but for the sessions LBS waits for, which are fewer.
Heard(v, w) ==
    /\ Shaped(v) /\ v.mach = w.mach /\ v.op = w.op /\ v.used = w.used /\ v.fac = w.fac
    /\ v.locAsked = w.locAsked /\ v.privAsked = w.privAsked /\ v.induced = w.induced
    /\ v.leftover = w.leftover /\ v.sent = w.sent /\ v.tracking = w.tracking
    /\ Closer(v, w)

\* LBS has been told c of session s.
Tells(v, w, s, c) ==
    /\ Shaped(v) /\ v.mach = w.mach /\ v.op = w.op /\ v.used = w.used /\ v.fac = w.fac
    /\ v.locAsked = w.locAsked /\ v.privAsked = w.privAsked /\ v.induced = w.induced
    /\ v.leftover = w.leftover /\ v.sent = w.sent /\ v.tracking = w.tracking
    /\ v.missing = w.missing /\ v.expecting = w.expecting
    /\ v.lbs[s] = c /\ \A t \in Session \ {s} : v.lbs[t] = w.lbs[t]

LEMMA LbsIs ==
    ASSUME NEW w, Shaped(w), NEW s \in Session,
           NEW c \in {"new", "open", "cancelled", "completed"}
    PROVE  Tells([w EXCEPT !.lbs[s] = c], w, s, c)
<1> DEFINE f == [w.lbs EXCEPT ![s] = c]
           v == [w EXCEPT !.lbs = f]
<1>1. w.lbs \in [Session -> {"new", "open", "cancelled", "completed"}]
  BY DEF Shaped, Worlds
<1>2. /\ f \in [Session -> {"new", "open", "cancelled", "completed"}]
      /\ f[s] = c /\ \A t \in Session \ {s} : f[t] = w.lbs[t]
  BY <1>1
<1>3. [w EXCEPT !.lbs[s] = c] = v
  OBVIOUS
<1> HIDE DEF f
<1>4. /\ v \in Worlds /\ v.mach = w.mach /\ v.op = w.op /\ v.used = w.used /\ v.fac = w.fac
      /\ v.locAsked = w.locAsked /\ v.privAsked = w.privAsked /\ v.induced = w.induced
      /\ v.leftover = w.leftover /\ v.sent = w.sent /\ v.tracking = w.tracking /\ v.lbs = f
      /\ v.missing = w.missing /\ v.expecting = w.expecting
  BY <1>2 DEF Shaped, Worlds
<1> HIDE DEF v
<1> QED
  BY <1>2, <1>3, <1>4 DEF Shaped, Tells

LEMMA CompleteHeard ==
    ASSUME NEW w, Shaped(w), NEW s
    PROVE  /\ Heard(SessionCompleteInd(w, s), w)
           /\ s \in Session => SessionCompleteInd(w, s).lbs[s] = "completed"
<1>1. CASE s \notin Session
  BY <1>1 DEF SessionCompleteInd, Heard, Closer
<1>2. CASE s \in Session
  <2>1. Tells([w EXCEPT !.lbs[s] = "completed"], w, s, "completed")
    BY <1>2, LbsIs
  <2>2. SessionCompleteInd(w, s) = [w EXCEPT !.lbs[s] = "completed"]
    BY <1>2 DEF SessionCompleteInd
  <2> DEFINE v == SessionCompleteInd(w, s)
  <2>3. Tells(v, w, s, "completed")
    BY <2>1, <2>2
  <2> HIDE DEF v
  <2>4. Closer(v, w)
    BY <2>3 DEF Closer, Tells
  <2>5. Heard(v, w) /\ v.lbs[s] = "completed"
    BY <2>3, <2>4 DEF Heard, Tells
  <2> QED
    BY <2>5 DEF v
<1> QED
  BY <1>1, <1>2

LEMMA HeardLives ==
    ASSUME NEW S \in SUBSET Session, NEW w, NEW l, NEW a, Live(w, S, l, a), NEW v, Heard(v, w)
    PROVE  Lives(v, w, S, l, a)
<1>1. Sound(w, a) /\ Fits(w, l, a)
  BY DEF Live
<1>2. \A k \in Machine : Goes(k, v.mach[k], w.mach[k], v)
  BY DEF Goes, Heard
<1>3. Shaped(v) /\ v.op = w.op /\ v.used = w.used /\ v.induced = w.induced
      /\ v.locAsked = w.locAsked /\ v.privAsked = w.privAsked /\ Closer(v, w)
      /\ v.leftover = w.leftover /\ v.sent = w.sent
  BY DEF Heard
<1>4. Near(v, w, a)
  BY <1>2, <1>3 DEF Near
<1>5. Fits(v, l, a)
  BY <1>1 DEF Fits, FitIn, Heard, AllReady
<1> QED
  BY <1>3, <1>4, <1>5, NearLives

\* An error of the network.
LEMMA NetworkErrorIn ==
    ASSUME NEW S \in SUBSET Session, NEW w, NEW l, NEW a, Live(w, S, l, a), ~w.fac,
           NEW k \in Machine, w.mach[k].proto = "active"
    PROVE  MovedIn(k, NetworkErrorInd(k, w.mach[k]), w, l, a)
<1> DEFINE m == w.mach[k]
           s == m.session
           u == IF s \in InternalSession THEN a[s] ELSE "unknown"
<1>1. /\ Fit(k, m, w.fac, s \in w.locAsked, s \in w.privAsked, s \in l, s \in w.induced, u)
      /\ m \in State(k)
  BY DEF Live, Fits, FitIn, Sound, Shaped
<1>2. m.proto = "active"
  OBVIOUS
<1> HIDE DEF u, m, s
<1>3. Moved(k, NetworkErrorInd(k, m), m, w.fac, s \in w.locAsked, s \in w.privAsked, s \in l,
            s \in w.induced, u)
  BY <1>1, <1>2, NetworkErrorFits
<1> QED
  BY <1>3 DEF MovedIn, u, m, s

\* The network's result; it is for a machine that is active.
LEMMA ResultIn ==
    ASSUME NEW S \in SUBSET Session, NEW w, NEW l, NEW a, Live(w, S, l, a), w.fac,
           NEW z, Data(z, w), ~z.fac, NEW position \in BOOLEAN,
           NEW k \in Machine, w.mach[k].proto = "active"
    PROVE  MovedIn(k, SessionResult(w.mach[k], position), z, l, a)
<1> DEFINE m == w.mach[k]
           s == m.session
           u == IF s \in InternalSession THEN a[s] ELSE "unknown"
<1>1. /\ Fit(k, m, w.fac, s \in w.locAsked, s \in w.privAsked, s \in l, s \in w.induced, u)
      /\ m \in State(k)
  BY DEF Live, Fits, FitIn, Sound, Shaped
<1>2. m.proto = "active"
  OBVIOUS
<1> HIDE DEF u, m, s
<1>3. Moved(k, SessionResult(m, position), m, z.fac, s \in w.locAsked, s \in w.privAsked, s \in l,
            s \in w.induced, u)
  BY <1>1, <1>2, ResultFits
<1> QED
  BY <1>3 DEF MovedIn, u, m, s, Data

\* v is w but for what LBS is asked.
Unasked(v, w, p, q) ==
    /\ Shaped(v) /\ v.mach = w.mach /\ v.op = w.op /\ v.used = w.used /\ v.fac = w.fac
    /\ v.lbs = w.lbs /\ v.locAsked = p /\ v.privAsked = q /\ v.induced = w.induced
    /\ v.leftover = w.leftover /\ v.sent = w.sent
    /\ v.missing = w.missing /\ v.expecting = w.expecting /\ v.tracking = w.tracking

LEMMA UnaskedIs ==
    ASSUME NEW w, Shaped(w), NEW p \in SUBSET AllSessions, NEW q \in SUBSET InternalSession
    PROVE  /\ Unasked([w EXCEPT !.locAsked = p], w, p, w.privAsked)
           /\ Unasked([w EXCEPT !.privAsked = q], w, w.locAsked, q)
<1>1. Unasked([w EXCEPT !.locAsked = p], w, p, w.privAsked)
  BY DEF Unasked, Shaped, Worlds
<1>2. Unasked([w EXCEPT !.privAsked = q], w, w.locAsked, q)
  BY DEF Unasked, Shaped, Worlds
<1> QED
  BY <1>1, <1>2

\* LBS answers the request for the location of s.
Located(w, s) == [w EXCEPT !.locAsked = w.locAsked \ {s}]

Locatable(w) ==
    IF Active(w) = "none" /\ Cancelling(w.mach[MtLr]) THEN MtLr ELSE Active(w)

LEMMA LocatableIs ==
    ASSUME NEW w, Locatable(w) # "none"
    PROVE  Locatable(w) \in Machine /\ w.mach[Locatable(w)].proto # "ready"
<1>1. MtLr \in Machine
  BY DEF Machine
<1> QED
  BY <1>1, ActiveIs DEF Locatable, Cancelling

\* It is told to the machine of s.
LEMMA LocationTold ==
    ASSUME NEW S \in SUBSET Session, NEW w, NEW l, NEW a, Live(w, S, l, a),
           NEW s \in w.locAsked, s \notin w.privAsked, NEW reason \in Reason, NEW l2,
           s \in l \/ reason = "ok" => s \in l2,
           NEW k \in Machine, w.mach[k].proto # "ready", w.mach[k].session = s
    PROVE  Lives([Located(w, s) EXCEPT !.mach[k] = LocationResp(w.mach[k], reason)], w, S, l2, a)
<1> DEFINE m == w.mach[k]
           u == IF s \in InternalSession THEN a[s] ELSE "unknown"
           n == LocationResp(m, reason)
           p == w.locAsked \ {s}
           z == Located(w, s)
           v == [z EXCEPT !.mach[k] = n]
<1>1. /\ Fit(k, m, w.fac, s \in w.locAsked, s \in w.privAsked, s \in l, s \in w.induced, u)
      /\ m \in State(k) /\ Shaped(w) /\ Sound(w, a) /\ Fits(w, l, a) /\ One(w)
  BY DEF Live, Fits, FitIn, Sound, Shaped
<1>2. m.proto # "ready" /\ m.session = s /\ s \notin p /\ s \in w.locAsked
  OBVIOUS
<1>3. p \in SUBSET AllSessions /\ p \subseteq w.locAsked
  BY <1>1 DEF Shaped, Worlds
<1> HIDE DEF p, u, n
<1>4. Unasked(z, w, p, w.privAsked)
  BY <1>1, <1>3, UnaskedIs DEF Located, p, Shaped, Worlds
<1> HIDE DEF m, z
<1>5. Moved(k, n, m, w.fac, s \in p, s \in w.privAsked, s \in l2, s \in w.induced, u)
  BY <1>1, <1>2, LocationFits DEF n
<1>6. n \in State(k) /\ Becomes(k, n, m) /\ n.proto = m.proto /\ n.session = s
  BY <1>2, <1>5 DEF Moved, Becomes, Steps
<1>7. With(v, z, k, n)
  BY <1>4, <1>6, MachIs DEF Unasked
<1> HIDE DEF v
<1>8. /\ Shaped(v) /\ v.mach[k] = n /\ (\A j \in Machine \ {k} : v.mach[j] = w.mach[j])
      /\ v.op = w.op /\ v.used = w.used /\ v.induced = w.induced /\ v.lbs = w.lbs
      /\ v.locAsked = p /\ v.privAsked = w.privAsked /\ v.fac = w.fac
      /\ v.leftover = w.leftover /\ v.sent = w.sent
  BY <1>4, <1>7 DEF With, Others, Unasked
<1>9. Near(v, w, a)
  <2>1. Goes(k, n, m, v)
    BY <1>6 DEF Goes, Becomes, Steps, Past
  <2>2. \A j \in Machine \ {k} : Goes(j, w.mach[j], w.mach[j], v)
    BY DEF Goes
  <2>3. \A j \in Machine : Goes(j, v.mach[j], w.mach[j], v)
    BY <1>8, <2>1, <2>2 DEF m
  <2>4. Closer(v, w)
    BY <1>8 DEF Closer
  <2> QED
    BY <1>3, <1>8, <2>3, <2>4 DEF Near
<1>10. FitIn(k, v, l2, a)
  BY <1>5, <1>6, <1>8 DEF FitIn, Moved, u
<1>11. Fits(v, l2, a)
  BY <1>1, <1>2, <1>6, <1>8, <1>10, RunnerFits DEF m
<1>12. Lives(v, w, S, l2, a)
  BY <1>8, <1>9, <1>11, NearLives
<1> QED
  BY <1>12 DEF v, z, n, m

\* Nobody hears it.
LEMMA LocationUnheard ==
    ASSUME NEW S \in SUBSET Session, NEW w, NEW l, NEW a, Live(w, S, l, a),
           NEW s \in w.locAsked, NEW l2, l \subseteq l2, l2 \subseteq l \union {s},
           Locatable(w) # "none" => w.mach[Locatable(w)].session # s
    PROVE  Lives(Located(w, s), w, S, l2, a)
<1> DEFINE p == w.locAsked \ {s}
           z == Located(w, s)
<1>1. Shaped(w) /\ Sound(w, a) /\ Fits(w, l, a) /\ One(w)
  BY DEF Live, Sound
<1>2. p \in SUBSET AllSessions /\ p \subseteq w.locAsked
  BY <1>1 DEF Shaped, Worlds
<1>3. Unasked(z, w, p, w.privAsked)
  BY <1>1, <1>2, UnaskedIs DEF Located, Shaped, Worlds
<1> HIDE DEF z
<1>4. Near(z, w, a)
  <2>1. \A j \in Machine : Goes(j, z.mach[j], w.mach[j], z)
    BY <1>3 DEF Goes, Unasked
  <2>2. Closer(z, w)
    BY <1>3 DEF Closer, Unasked
  <2> QED
    BY <1>2, <1>3, <2>1, <2>2 DEF Near, Unasked
<1>5. ASSUME NEW k \in Machine
      PROVE  FitIn(k, z, l2, a)
  <2> DEFINE m == w.mach[k]
             r == m.session
             u == IF r \in InternalSession THEN a[r] ELSE "unknown"
  <2>1. Fit(k, m, w.fac, r \in w.locAsked, r \in w.privAsked, r \in l, r \in w.induced, u)
        /\ m \in State(k)
    BY <1>1 DEF Fits, FitIn, Shaped
  <2> HIDE DEF u, m
  <2>2. Fit(k, m, w.fac, r \in p, r \in w.privAsked, r \in l2, r \in w.induced, u)
    <3>1. CASE m.proto = "ready"
      BY <2>1, <3>1 DEF Fit
    <3>2. CASE r # s
      <4>1. (r \in p <=> r \in w.locAsked) /\ (r \in l2 <=> r \in l)
        BY <3>2
      <4> HIDE DEF p, r
      <4> QED
        BY <2>1, <4>1
    <3>3. CASE m.proto # "ready" /\ r = s
      <4>1. ~Calm(m)
        <5> SUFFICES ASSUME m.proto = "active"
                     PROVE  FALSE
          BY DEF Calm
        <5>1. Active(w) \in Machine /\ w.mach[Active(w)].proto = "active"
          BY ActiveIs DEF m
        <5>2. Active(w) = k
          BY <1>1, <5>1 DEF One, m
        <5>3. Active(w) # "none"
          BY <5>1 DEF Machine, Originated, MtLr
        <5> QED
          BY <3>3, <5>2, <5>3 DEF Locatable, m
      <4>2. Restless(k, m, m, w.fac, r \in w.locAsked, r \in w.privAsked, r \in l,
                     r \in w.induced, u, w.fac)
        BY <2>1, <3>3, <4>1 DEF Restless, Steps, Fit, Runs
      <4> HIDE DEF p, r
      <4> QED
        BY <4>2, RestlessFits
    <3> QED
      BY <3>1, <3>2, <3>3
  <2> QED
    BY <1>3, <2>2 DEF FitIn, Unasked, u, m
<1>6. Fits(z, l2, a)
  BY <1>1, <1>3, <1>5 DEF Fits, Unasked, AllReady
<1>7. Lives(z, w, S, l2, a)
  BY <1>3, <1>4, <1>6, NearLives DEF Unasked
<1> QED
  BY <1>7 DEF z

\* LBS answers x to the request for the privacy of s.
Decided(w, s) == [w EXCEPT !.privAsked = w.privAsked \ {s}]

\* a2 is a with that answer.
Decides(a2, a, s, x) == a2[s] = x /\ \A r \in InternalSession \ {s} : a2[r] = a[r]

\* v is w after it.
Hears(v, w, s, x) ==
    /\ Shaped(v) /\ v.op = w.op /\ v.used = w.used /\ v.induced = w.induced /\ v.lbs = w.lbs
    /\ v.locAsked = w.locAsked /\ v.privAsked = w.privAsked \ {s} /\ v.fac = w.fac
    /\ v.leftover = w.leftover /\ v.sent = w.sent
    /\ \A k \in Machine : Steps(v.mach[k], w.mach[k]) /\ v.mach[k].source = w.mach[k].source
    /\ v.mach[MtLr].answer = "accepted" => w.mach[MtLr].answer = "accepted" \/ x = "accepted"

LEMMA HearsSound ==
    ASSUME NEW w, NEW a, Sound(w, a), NEW s \in w.privAsked, NEW x, NEW a2, Decides(a2, a, s, x),
           NEW v, Hears(v, w, s, x)
    PROVE  Sound(v, a2) /\ Carried(v, w)
<1>1. /\ Shaped(w) /\ One(w) /\ Owned(w) /\ Waiting(w) /\ Unused(w, a) /\ Answered(w, a)
      /\ ~w.mach[MtLr].still
  BY DEF Sound
<1>2. /\ Shaped(v) /\ v.op = w.op /\ v.used = w.used /\ v.induced = w.induced /\ v.lbs = w.lbs
      /\ v.locAsked = w.locAsked /\ v.privAsked = w.privAsked \ {s}
  BY DEF Hears
<1>3. \A k \in Machine :
         /\ v.mach[k].proto = w.mach[k].proto /\ v.mach[k].source = w.mach[k].source
         /\ v.mach[k].session = w.mach[k].session /\ v.mach[k].queued = w.mach[k].queued
         /\ v.mach[k].next = w.mach[k].next /\ v.mach[k].still = w.mach[k].still
         /\ Past(v.mach[k]) => Past(w.mach[k])
  BY DEF Hears, Steps, Past
<1>4. MtLr \in Machine /\ s \in InternalSession /\ s \in Given(w)
  BY <1>1 DEF Machine, Unused, Shaped, Worlds
<1>5. Given(v) = Given(w) /\ \A t : Over(v, t) <=> Over(w, t)
  BY <1>2 DEF Given, Over
<1>6. One(v)
  BY <1>1, <1>3 DEF One
<1>7. Owned(v)
  BY <1>1, <1>2, <1>3, <1>5 DEF Owned, Owns
<1>8. Waiting(v)
  <2>1. \A k \in Originated : k \in Machine
    BY DEF Machine
  <2> QED
    BY <1>1, <1>2, <1>3, <2>1 DEF Waiting
<1>9. Unused(v, a2)
  BY <1>1, <1>2, <1>4, <1>5 DEF Unused, Decides
<1>10. Answered(v, a2)
  <2> SUFFICES ASSUME v.mach[MtLr].answer = "accepted", v.induced = {}
               PROVE  \E r \in InternalSession : a2[r] = "accepted"
    BY DEF Answered
  <2>1. CASE x = "accepted"
    BY <1>4, <2>1 DEF Decides
  <2>2. CASE w.mach[MtLr].answer = "accepted"
    <3>1. PICK r \in InternalSession : a[r] = "accepted"
      BY <1>1, <1>2, <2>2 DEF Answered
    <3>2. r # s
      BY <1>1, <1>4, <3>1 DEF Unused
    <3> QED
      BY <3>1, <3>2 DEF Decides
  <2> QED
    BY <2>1, <2>2 DEF Hears
<1>11. Sound(v, a2)
  BY <1>1, <1>2, <1>3, <1>4, <1>6, <1>7, <1>8, <1>9, <1>10 DEF Sound
<1>12. AllReady(v) <=> AllReady(w)
  BY <1>3 DEF AllReady
<1>13. Known(w) => Known(v)
  BY <1>2, <1>3, <1>12 DEF Known
<1>14. Follows(w) => Follows(v)
  BY <1>3, <1>12 DEF Follows
<1>15. ASSUME NEW S \in SUBSET Session, Held(w, S)
       PROVE  Held(v, S)
  <2> SUFFICES ASSUME NEW t \in S, v.lbs[t] = "open"
               PROVE  Holds(v, t)
    BY DEF Held
  <2>1. Holds(w, t)
    BY <1>2, <1>15 DEF Held
  <2>2. Kind[t] \in Machine
    BY ProtocolModuleAssumption DEF Machine
  <2> QED
    BY <1>3, <1>5, <2>1, <2>2 DEF Holds
<1>16. \A b : Room(w, b) => Room(v, b)
  BY <1>2, <1>3, <1>4 DEF Room
<1> QED
  BY <1>11, <1>12, <1>13, <1>14, <1>15, <1>16 DEF Carried

\* It is told to the machine that serves the network.
LEMMA PrivacyTold ==
    ASSUME NEW S \in SUBSET Session, NEW w, NEW l, NEW a, Live(w, S, l, a),
           NEW s \in w.privAsked, NEW x \in Answer, NEW a2, Decides(a2, a, s, x),
           w.mach[MtLr].proto = "active", w.mach[MtLr].session = s
    PROVE  Lives([Decided(w, s) EXCEPT !.mach[MtLr] = PrivacyResp(w.mach[MtLr], x)], w, S, l, a2)
<1> DEFINE m == w.mach[MtLr]
           u == IF s \in InternalSession THEN a[s] ELSE "unknown"
           n == PrivacyResp(m, x)
           q == w.privAsked \ {s}
           z == Decided(w, s)
           v == [z EXCEPT !.mach[MtLr] = n]
<1>0. MtLr \in Machine
  BY DEF Machine
<1>1. /\ Fit(MtLr, m, w.fac, s \in w.locAsked, s \in w.privAsked, s \in l, s \in w.induced, u)
      /\ m \in State(MtLr) /\ Shaped(w) /\ Sound(w, a) /\ Fits(w, l, a) /\ One(w)
  BY <1>0 DEF Live, Fits, FitIn, Sound, Shaped
<1>2. m.proto = "active" /\ m.session = s /\ s \notin q /\ s \in w.privAsked
  OBVIOUS
<1>3. q \in SUBSET InternalSession /\ s \in InternalSession
  BY <1>1 DEF Shaped, Worlds
<1> HIDE DEF q, u, n
<1>4. Unasked(z, w, w.locAsked, q)
  BY <1>1, <1>3, UnaskedIs DEF Decided, q, Shaped, Worlds
<1> HIDE DEF m, z
<1>5. /\ n \in State(MtLr) /\ Steps(n, m) /\ n.source = m.source /\ n.answer = x
      /\ Fit(MtLr, n, w.fac, s \in w.locAsked, s \in q, s \in l, s \in w.induced, x)
  BY <1>1, <1>2, PrivacyFits DEF n
<1>6. n.proto = m.proto /\ n.session = s
  BY <1>2, <1>5 DEF Steps
<1>7. With(v, z, MtLr, n)
  BY <1>0, <1>4, <1>5, MachIs DEF Unasked
<1> HIDE DEF v
<1>8. /\ Shaped(v) /\ v.mach[MtLr] = n /\ (\A j \in Machine \ {MtLr} : v.mach[j] = w.mach[j])
      /\ v.op = w.op /\ v.used = w.used /\ v.induced = w.induced /\ v.lbs = w.lbs
      /\ v.locAsked = w.locAsked /\ v.privAsked = q /\ v.fac = w.fac
      /\ v.leftover = w.leftover /\ v.sent = w.sent
  BY <1>4, <1>7 DEF With, Others, Unasked
<1>9. Hears(v, w, s, x)
  <2>1. \A j \in Machine : Steps(v.mach[j], w.mach[j]) /\ v.mach[j].source = w.mach[j].source
    BY <1>5, <1>8 DEF Steps, m
  <2> QED
    BY <1>5, <1>8, <2>1 DEF Hears, q
<1>10. Sound(v, a2) /\ Carried(v, w)
  BY <1>1, <1>9, HearsSound
<1>11. FitIn(MtLr, v, l, a2)
  BY <1>3, <1>5, <1>6, <1>8 DEF FitIn, Decides
<1>12. Fits(v, l, a2)
  BY <1>0, <1>1, <1>2, <1>6, <1>8, <1>11, RunnerFits DEF m
<1>13. Lives(v, w, S, l, a2)
  BY <1>8, <1>10, <1>12 DEF Lives, Live, Carried
<1> QED
  BY <1>13 DEF v, z, n, m

\* That machine serves another one, or is cancelled.
LEMMA PrivacyUnheard ==
    ASSUME NEW S \in SUBSET Session, NEW w, NEW l, NEW a, Live(w, S, l, a),
           NEW s \in w.privAsked, NEW x \in Answer, NEW a2, Decides(a2, a, s, x),
           ~(w.mach[MtLr].proto = "active" /\ w.mach[MtLr].session = s)
    PROVE  Lives(Decided(w, s), w, S, l, a2)
<1> DEFINE q == w.privAsked \ {s}
           z == Decided(w, s)
<1>1. Shaped(w) /\ Sound(w, a) /\ Fits(w, l, a) /\ Owned(w)
  BY DEF Live, Sound
<1>2. q \in SUBSET InternalSession /\ s \in InternalSession
  BY <1>1 DEF Shaped, Worlds
<1>3. Unasked(z, w, w.locAsked, q)
  BY <1>1, <1>2, UnaskedIs DEF Decided, Shaped, Worlds
<1> HIDE DEF z
<1>4. Hears(z, w, s, x)
  BY <1>3 DEF Hears, Unasked, Steps
<1>5. Sound(z, a2) /\ Carried(z, w)
  BY <1>1, <1>4, HearsSound
<1>6. ASSUME NEW k \in Machine
      PROVE  FitIn(k, z, l, a2)
  <2> DEFINE m == w.mach[k]
             r == m.session
             u == IF r \in InternalSession THEN a[r] ELSE "unknown"
             u2 == IF r \in InternalSession THEN a2[r] ELSE "unknown"
  <2>1. Fit(k, m, w.fac, r \in w.locAsked, r \in w.privAsked, r \in l, r \in w.induced, u)
        /\ m \in State(k)
    BY <1>1 DEF Fits, FitIn, Shaped
  <2>2. r # s => u2 = u
    BY DEF Decides
  <2> HIDE DEF u, u2, m
  <2>3. Fit(k, m, w.fac, r \in w.locAsked, r \in q, r \in l, r \in w.induced, u2)
    <3>1. CASE m.proto = "ready"
      BY <2>1, <3>1 DEF Fit
    <3>2. CASE r # s
      <4>1. r \in q <=> r \in w.privAsked
        BY <3>2
      <4> HIDE DEF q, r
      <4> QED
        BY <2>1, <2>2, <3>2, <4>1
    <3>3. CASE m.proto # "ready" /\ r = s
      <4>1. k = MtLr
        <5>1. Owns(k, m, w)
          BY <1>1, <3>3 DEF Owned, m
        <5> QED
          BY <1>2, <3>3, <5>1, ProtocolModuleAssumption DEF Owns
      <4>2. ~Calm(m)
        BY <3>3, <4>1 DEF Calm, m
      <4>3. Restless(k, m, m, w.fac, r \in w.locAsked, r \in w.privAsked, r \in l,
                     r \in w.induced, u, w.fac)
        BY <2>1, <3>3, <4>2 DEF Restless, Steps, Fit, Runs
      <4> HIDE DEF q, r
      <4> QED
        BY <4>3, RestlessFits
    <3> QED
      BY <3>1, <3>2, <3>3
  <2> QED
    BY <1>3, <2>3 DEF FitIn, Unasked, u2, m
<1>7. Fits(z, l, a2)
  BY <1>1, <1>3, <1>6 DEF Fits, Unasked, AllReady
<1>8. Lives(z, w, S, l, a2)
  BY <1>3, <1>5, <1>7 DEF Lives, Live, Carried, Unasked
<1> QED
  BY <1>8 DEF z

-----------------------------------------------------------------------------
(***************************************************************************)
(* The timers.                                                             *)
(***************************************************************************)

Put(v, k, n) == [v EXCEPT !.mach[k] = n]

LEMMA MachTwice ==
    ASSUME NEW v, Shaped(v), NEW k \in Machine, NEW x, NEW y
    PROVE  Put(v, k, x).mach[k] = x /\ Put(Put(v, k, x), k, y) = Put(v, k, y)
<1> DEFINE f == [v.mach EXCEPT ![k] = x]
           g == [v.mach EXCEPT ![k] = y]
           h == [f EXCEPT ![k] = y]
<1>1. v.mach = [j \in Machine |-> v.mach[j]]
  BY DEF Shaped, Worlds
<1>2. f[k] = x /\ h = g
  BY <1>1
<1>3. Put(v, k, x) = [v EXCEPT !.mach = f] /\ Put(v, k, y) = [v EXCEPT !.mach = g]
  BY DEF Put
<1> HIDE DEF f, g
<1>4. [v EXCEPT !.mach = f].mach = f
  BY DEF Shaped, Worlds
<1>5. [[v EXCEPT !.mach = f] EXCEPT !.mach = h] = [v EXCEPT !.mach = h]
  BY DEF Shaped, Worlds
<1>6. Put([v EXCEPT !.mach = f], k, y) = [[v EXCEPT !.mach = f] EXCEPT !.mach = h]
  BY <1>4 DEF Put
<1> QED
  BY <1>2, <1>3, <1>4, <1>5, <1>6

LEMMA MeasurementTimeoutLives ==
    ASSUME NEW S \in SUBSET Session, NEW w, NEW l, NEW a, Live(w, S, l, a)
    PROVE  Lives(MeasurementTimeout(w), w, S, l, a)
<1> DEFINE k == Active(w)
<1>1. CASE k = "none"
  BY <1>1, LivesAnyway DEF MeasurementTimeout
<1>2. CASE k # "none"
  <2>1. k \in Machine /\ w.mach[k].proto = "active"
    BY <1>2, ActiveIs
  <2> HIDE DEF k
  <2>2. MovedIn(k, MeasurementControlTimeout(k, w.mach[k]), w, l, a)
    BY <2>1, EventsIn
  <2>3. Lives([w EXCEPT !.mach[k] = MeasurementControlTimeout(k, w.mach[k])], w, S, l, a)
    BY <2>1, <2>2, MachLives
  <2> QED
    BY <1>2, <2>3 DEF MeasurementTimeout, k
<1> QED
  BY <1>1, <1>2

\* What becomes of world v when timer t of machine k is over: w is v without it.
Expire(w, k, t) ==
    LET m == w.mach[k]
        late == [m EXCEPT !.reason = "timeout"]
    IN  CASE t = "request" /\ k = MtLr ->
               Put(w, k, CancelMachine([m EXCEPT !.answer = "unknown"], "clientTimeout"))
          [] t = "measure" \/ (t = "request" /\ k # MtLr) -> MeasurementTimeout(w)
          [] t = "assist" ->
               MeasurementTimeout(Put(w, k, [IF k = MtLr THEN m ELSE late EXCEPT
                                           !.assist = @ \/ k # "molr"]))
          [] t = "result" -> Put(w, k, CancelMachine(m, "netTimeout"))
          [] t = "location" -> Put(w, k, CancelMachine(late, "clientTimeout"))

TimedOut(v, k, t) == Expire([v EXCEPT !.mach[k].timers = @ \ {t}], k, t)

\* x is m after timer t.
Expired(x, m, t) ==
    /\ x.proto = m.proto /\ x.at = m.at /\ x.stage = m.stage /\ x.run = m.run
    /\ x.session = m.session /\ x.queued = m.queued /\ x.next = m.next /\ x.still = m.still
    /\ x.answer = "accepted" => m.answer = "accepted"
    /\ x.timers = m.timers \ {t}

LEMMA ExpiredIs ==
    ASSUME NEW k \in Machine, NEW m \in State(k), NEW t, t \notin {"location", "result"}
    PROVE  LET x == [m EXCEPT !.timers = m.timers \ {t}]
               y == [IF k = MtLr THEN x ELSE [x EXCEPT !.reason = "timeout"] EXCEPT
                        !.assist = @ \/ k # "molr"]
           IN  x \in State(k) /\ Same(x, m) /\ x.run = m.run
               /\ y \in State(k) /\ Same(y, m) /\ y.run = m.run
<1> DEFINE q == m.timers \ {t}
           x == [m EXCEPT !.timers = q]
           z == [x EXCEPT !.reason = "timeout"]
           r == IF k = MtLr THEN x ELSE z
           y == [r EXCEPT !.assist = r.assist \/ k # "molr"]
<1>1. q \in SUBSET TimerOf(k) /\ q \subseteq m.timers
      /\ ("location" \in q <=> "location" \in m.timers)
      /\ ("result" \in q <=> "result" \in m.timers)
  BY DEF State, MachineState
<1> HIDE DEF q
<1>2. x \in State(k)
  BY <1>1, TimersAre
<1>3. Same(x, m) /\ x.run = m.run
  BY <1>1 DEF Same, State, MachineState
<1> HIDE DEF x
<1>4. z \in State(k)
  BY <1>2, AnswersAre DEF Reason
<1>5. Same(z, m) /\ z.run = m.run
  BY <1>2, <1>3 DEF Same, State, MachineState
<1> HIDE DEF z
<1>6. r \in State(k) /\ Same(r, m) /\ r.run = m.run
  BY <1>2, <1>3, <1>4, <1>5
<1> HIDE DEF r
<1>7. (r.assist \/ k # "molr") \in BOOLEAN
  BY <1>6 DEF State, MachineState
<1>8. y \in State(k)
  BY <1>6, <1>7, FlagsAre
<1>9. Same(y, m) /\ y.run = m.run
  BY <1>6 DEF Same, State, MachineState
<1> QED
  BY <1>2, <1>3, <1>8, <1>9 DEF x, y, z, r, q

LEMMA LateIs ==
    ASSUME NEW k \in Machine, NEW m \in State(k), NEW t
    PROVE  LET x == [m EXCEPT !.timers = m.timers \ {t}]
               y == [x EXCEPT !.reason = "timeout"]
               z == [x EXCEPT !.answer = "unknown"]
           IN  /\ x \in State(k) /\ y \in State(k) /\ z \in State(k)
               /\ Expired(x, m, t) /\ Expired(y, m, t) /\ Expired(z, m, t)
<1> DEFINE q == m.timers \ {t}
           x == [m EXCEPT !.timers = q]
           y == [x EXCEPT !.reason = "timeout"]
           z == [x EXCEPT !.answer = "unknown"]
<1>1. q \in SUBSET TimerOf(k)
  BY DEF State, MachineState
<1> HIDE DEF q
<1>2. x \in State(k)
  BY <1>1, TimersAre
<1>3. Expired(x, m, t)
  BY DEF Expired, State, MachineState, q
<1> HIDE DEF x
<1>4. y \in State(k) /\ z \in State(k)
  BY <1>2, AnswersAre DEF Reason, Answer
<1>5. Expired(y, m, t)
  BY <1>2, <1>3 DEF Expired, State, MachineState
<1>6. Expired(z, m, t)
  BY <1>2, <1>3 DEF Expired, State, MachineState
<1> QED
  BY <1>2, <1>3, <1>4, <1>5, <1>6 DEF x, y, z, q

\* What cancels the machine of the timer.
LEMMA ExpiryCancels ==
    ASSUME NEW S \in SUBSET Session, NEW w, NEW l, NEW a, Live(w, S, l, a), NEW k \in Machine,
           NEW t \in w.mach[k].timers, t \in Harm(k),
           NEW source \in {"clientTimeout", "netTimeout"},
           NEW x \in State(k), Expired(x, w.mach[k], t)
    PROVE  Lives([w EXCEPT !.mach[k] = CancelMachine(x, source)], w, S, l, a)
<1> DEFINE m == w.mach[k]
           s == m.session
           u == IF s \in InternalSession THEN a[s] ELSE "unknown"
<1>1. /\ Fit(k, m, w.fac, s \in w.locAsked, s \in w.privAsked, s \in l, s \in w.induced, u)
      /\ m \in State(k)
  BY DEF Live, Fits, FitIn, Sound, Shaped
<1> HIDE DEF u
<1>2. m.proto = "active"
  BY <1>1 DEF Fit, Rest, Runs, Cancelling, State, MachineState
<1>3. source \in Source \ {"silent", "netError"}
  BY DEF Source
<1>4. MovedIn(k, CancelMachine(x, source), w, l, a)
  BY <1>2, <1>3, CancelsIn DEF Expired
<1> QED
  BY <1>2, <1>4, MachLives

LEMMA TimedOutLives ==
    ASSUME NEW S \in SUBSET Session, NEW v, NEW l, NEW a, Live(v, S, l, a), NEW k \in Machine,
           NEW t \in v.mach[k].timers
    PROVE  Lives(TimedOut(v, k, t), v, S, l, a)
<1> DEFINE m == v.mach[k]
           x == [m EXCEPT !.timers = m.timers \ {t}]
           w == Put(v, k, x)
           late == [x EXCEPT !.reason = "timeout"]
           y == [IF k = MtLr THEN x ELSE late EXCEPT !.assist = @ \/ k # "molr"]
           z == [x EXCEPT !.answer = "unknown"]
<1>1. Shaped(v) /\ m \in State(k) /\ t \in TimerOf(k)
  BY DEF Live, Sound, Shaped, State, MachineState
<1>3. TimedOut(v, k, t) = Expire(w, k, t)
  BY DEF TimedOut, Put
<1>5. t \notin {"location", "result"} =>
         x \in State(k) /\ Same(x, m) /\ x.run = m.run
         /\ y \in State(k) /\ Same(y, m) /\ y.run = m.run
  BY <1>1, ExpiredIs
<1>6. /\ x \in State(k) /\ late \in State(k) /\ z \in State(k)
      /\ Expired(x, m, t) /\ Expired(late, m, t) /\ Expired(z, m, t)
  BY <1>1, LateIs
<1> HIDE DEF x
<1>2. w.mach[k] = x
  BY <1>1, MachTwice
<1>21. ASSUME NEW n
       PROVE  Put(w, k, n) = Put(v, k, n)
  BY <1>1, MachTwice
<1> HIDE DEF w
<1>4. TimedOut(v, k, t) =
        CASE t = "request" /\ k = MtLr -> Put(w, k, CancelMachine(z, "clientTimeout"))
          [] t = "measure" \/ (t = "request" /\ k # MtLr) -> MeasurementTimeout(w)
          [] t = "assist" -> MeasurementTimeout(Put(w, k, y))
          [] t = "result" -> Put(w, k, CancelMachine(x, "netTimeout"))
          [] t = "location" -> Put(w, k, CancelMachine(late, "clientTimeout"))
  BY <1>2, <1>3 DEF Expire
<1> HIDE DEF y, z, late
<1>7. t \in {"request", "location", "assist", "measure", "result"}
      /\ (t = "result" => k # MtLr)
  BY <1>1 DEF TimerOf, MtLr
<1>8. CASE t = "request" /\ k = MtLr
  <2>1. Lives(Put(v, k, CancelMachine(z, "clientTimeout")), v, S, l, a)
    BY <1>6, <1>8, ExpiryCancels DEF Harm, Put
  <2> QED
    BY <1>4, <1>8, <1>21, <2>1
<1>9. CASE t = "measure" \/ (t = "request" /\ k # MtLr)
  <2>1. Lives(w, v, S, l, a)
    BY <1>5, <1>9, SameLives DEF w, Put
  <2>2. Lives(MeasurementTimeout(w), w, S, l, a)
    BY <2>1, MeasurementTimeoutLives DEF Lives
  <2>3. Lives(MeasurementTimeout(w), v, S, l, a)
    BY <2>1, <2>2, LivesTwice
  <2>4. TimedOut(v, k, t) = MeasurementTimeout(w)
    BY <1>4, <1>9
  <2> QED
    BY <2>3, <2>4
<1>10. CASE t = "assist"
  <2> DEFINE e == Put(v, k, y)
  <2>1. Lives(e, v, S, l, a)
    BY <1>5, <1>10, SameLives DEF Put
  <2> HIDE DEF e
  <2>2. Lives(MeasurementTimeout(e), e, S, l, a)
    BY <2>1, MeasurementTimeoutLives DEF Lives
  <2>3. Lives(MeasurementTimeout(e), v, S, l, a)
    BY <2>1, <2>2, LivesTwice
  <2>4. TimedOut(v, k, t) = MeasurementTimeout(e)
    BY <1>4, <1>10, <1>21 DEF e
  <2> QED
    BY <2>3, <2>4
<1>11. CASE t = "result"
  <2>1. Lives(Put(v, k, CancelMachine(x, "netTimeout")), v, S, l, a)
    BY <1>6, <1>7, <1>11, ExpiryCancels DEF Harm, Put
  <2>2. TimedOut(v, k, t) = Put(v, k, CancelMachine(x, "netTimeout"))
    BY <1>4, <1>11, <1>21
  <2> QED
    BY <2>1, <2>2
<1>12. CASE t = "location"
  <2>1. Lives(Put(v, k, CancelMachine(late, "clientTimeout")), v, S, l, a)
    BY <1>6, <1>12, ExpiryCancels DEF Harm, Put
  <2>2. TimedOut(v, k, t) = Put(v, k, CancelMachine(late, "clientTimeout"))
    BY <1>4, <1>12, <1>21
  <2> QED
    BY <2>1, <2>2
<1> QED
  BY <1>7, <1>8, <1>9, <1>10, <1>11, <1>12

-----------------------------------------------------------------------------
(***************************************************************************)
(* A procedure starts.                                                     *)
(***************************************************************************)

\* v is w but for the current procedure.
OpOnly(v, w, o) ==
    /\ Shaped(v) /\ v.mach = w.mach /\ v.op = o /\ v.used = w.used /\ v.fac = w.fac
    /\ v.lbs = w.lbs /\ v.locAsked = w.locAsked /\ v.privAsked = w.privAsked
    /\ v.induced = w.induced /\ v.leftover = w.leftover /\ v.sent = w.sent

LEMMA OpIs ==
    ASSUME NEW w, Shaped(w), NEW o \in Ops
    PROVE  OpOnly([w EXCEPT !.op = o], w, o)
BY DEF OpOnly, Shaped, Worlds

\* v is w after machine k was started for session s.
Starts(v, w, k, s) ==
    /\ Shaped(v) /\ v.lbs = w.lbs /\ v.fac = w.fac /\ v.locAsked = w.locAsked
    /\ v.privAsked = w.privAsked /\ v.induced = w.induced /\ v.leftover = w.leftover
    /\ v.sent = w.sent
    /\ v.used = IF k = MtLr THEN w.used + 1 ELSE w.used
    /\ \A j \in Machine \ {k} : v.mach[j] = w.mach[j]
    /\ \E x \in State(k), q \in SUBSET TimerOf(k) :
          /\ Fresh(x, w.mach[k], s)
          /\ v.mach[k] = Perform([x EXCEPT !.timers = q])
          /\ q \subseteq w.mach[k].timers \union {"assist"}
                            \union IF k = MtLr THEN {"request"} ELSE {}

\* The session the network's next request gets.
NextId(w) == Internal[w.used + 1]

LEMMA NextIs ==
    ASSUME NEW w, Shaped(w), w.used < Len(Internal)
    PROVE  /\ w.used + 1 \in 0..Len(Internal)
           /\ NextId(w) \in InternalSession /\ NextId(w) \notin Given(w)
           /\ NextId(w) \in AllSessions
<1>1. w.used \in Nat /\ Len(Internal) \in Nat /\ DOMAIN Internal = 1..Len(Internal)
  BY ProtocolModuleAssumption DEF Shaped, Worlds
<1>2. w.used + 1 \in DOMAIN Internal
  BY <1>1
<1>3. NextId(w) \in InternalSession
  BY <1>2 DEF NextId, InternalSession
<1>4. ASSUME NEW i \in 1..w.used
      PROVE  Internal[i] # Internal[w.used + 1]
  BY <1>1, <1>2, ProtocolModuleAssumption
<1> QED
  BY <1>1, <1>3, <1>4 DEF Given, NextId, AllSessions

LEMMA StartMtLrIs ==
    ASSUME NEW w, Shaped(w), w.used < Len(Internal)
    PROVE  Starts(StartMtLr(w), w, MtLr, NextId(w)) /\ StartMtLr(w).op = w.op
<1> DEFINE s == NextId(w)
           m == w.mach[MtLr]
           x == Initialise(MtLr, m, s)
           q == x.timers \union {"request"}
           n == Perform([x EXCEPT !.timers = q])
           z == [w EXCEPT !.used = w.used + 1]
           v == [z EXCEPT !.mach[MtLr] = n]
<1>1. MtLr \in Machine /\ m \in State(MtLr)
  BY DEF Machine, Shaped
<1>2. w.used + 1 \in 0..Len(Internal) /\ s \in AllSessions
  BY NextIs
<1>3. /\ Shaped(z) /\ z.used = w.used + 1 /\ z.mach = w.mach /\ z.op = w.op
      /\ z.lbs = w.lbs /\ z.fac = w.fac /\ z.locAsked = w.locAsked
      /\ z.privAsked = w.privAsked /\ z.induced = w.induced /\ z.leftover = w.leftover
      /\ z.sent = w.sent
  BY <1>2 DEF Shaped, Worlds
<1>4. StartMtLr(w) = v
  BY DEF StartMtLr, NextId
<1> HIDE DEF s, m, z
<1>5. x \in State(MtLr) /\ Fresh(x, m, s)
  BY <1>1, <1>2, InitialiseIs
<1> HIDE DEF x
<1>6. q \in SUBSET TimerOf(MtLr) /\ q \subseteq m.timers \union {"assist"} \union {"request"}
  BY <1>5 DEF State, MachineState, TimerOf, Fresh
<1> HIDE DEF q
<1>7. n \in State(MtLr)
  BY <1>1, <1>2, <1>5, <1>6, StartIs DEF Started
<1>8. \E y \in State(MtLr), r \in SUBSET TimerOf(MtLr) :
         /\ Fresh(y, m, s) /\ n = Perform([y EXCEPT !.timers = r])
         /\ r \subseteq m.timers \union {"assist"} \union {"request"}
  BY <1>5, <1>6
<1> HIDE DEF n
<1>9. With(v, z, MtLr, n)
  BY <1>1, <1>3, <1>7, MachIs
<1> HIDE DEF v
<1>10. Starts(v, w, MtLr, s) /\ v.op = w.op
  BY <1>3, <1>8, <1>9 DEF Starts, With, Others, m
<1> QED
  BY <1>4, <1>10 DEF s

LEMMA StartOriginatedIs ==
    ASSUME NEW w, Shaped(w), AllReady(w), NEW k \in Originated, NEW s \in Session
    PROVE  Starts(StartOriginated(w, k, s), w, k, s) /\ StartOriginated(w, k, s).op = w.op
<1> DEFINE m == w.mach[k]
           x == Initialise(k, m, s)
           n == [w EXCEPT !.mach[k] = x]
           d == IF k = "molr" THEN DoAssistanceDataActions(n) ELSE n
           y == d.mach[k]
           v == [d EXCEPT !.mach[k] = Perform(y)]
<1>1. k \in Machine /\ m \in State(k) /\ s \in AllSessions /\ k # MtLr
  BY DEF Machine, Shaped, AllSessions, Originated, MtLr
<1>2. StartOriginated(w, k, s) = v
  BY DEF StartOriginated
<1> HIDE DEF m
<1>3. x \in State(k) /\ Fresh(x, m, s)
  BY <1>1, InitialiseIs
<1> HIDE DEF x
<1>4. With(n, w, k, x)
  BY <1>1, <1>3, MachIs
<1> HIDE DEF n
<1>5. Asked(d, n)
  <2>1. Asked(DoAssistanceDataActions(n), n)
    BY <1>4, DoAssistIs DEF With
  <2>2. Asked(n, n)
    BY <1>4 DEF Asked, Assisted, With
  <2> QED
    BY <2>1, <2>2
<1> HIDE DEF d
<1>6. Assisted(y, x) /\ \A j \in Machine \ {k} : d.mach[j] = w.mach[j]
  <2>1. ASSUME NEW j \in Machine, j # k
        PROVE  d.mach[j] = w.mach[j]
    <3>1. n.mach[j] = w.mach[j] /\ Assisted(d.mach[j], n.mach[j])
      BY <1>4, <1>5, <2>1 DEF With, Asked
    <3> QED
      BY <3>1 DEF Assisted, AllReady
  <2>2. Assisted(y, x)
    BY <1>1, <1>4, <1>5 DEF With, Asked
  <2> QED
    BY <2>1, <2>2
<1> HIDE DEF y
<1>7. PICK q \in SUBSET TimerOf(k) :
         y = [x EXCEPT !.timers = q] /\ q \subseteq m.timers \union {"assist"}
  <2>1. CASE y = x
    <3>1. x = [x EXCEPT !.timers = x.timers]
      BY <1>3 DEF State, MachineState
    <3>2. x.timers \in SUBSET TimerOf(k) /\ x.timers = m.timers
      BY <1>3 DEF State, MachineState, Fresh
    <3> QED
      BY <2>1, <3>1, <3>2
  <2>2. CASE y = [x EXCEPT !.timers = x.timers \union {"assist"}]
    <3>1. x.timers \union {"assist"} \in SUBSET TimerOf(k) /\ x.timers = m.timers
      BY <1>1, <1>3, AssistTimerIs DEF Fresh
    <3> QED
      BY <2>2, <3>1
  <2> QED
    BY <1>6, <2>1, <2>2 DEF Assisted
<1>8. Perform(y) \in State(k)
  BY <1>1, <1>3, <1>7, StartIs DEF Started
<1>9. With(v, d, k, Perform(y))
  BY <1>1, <1>5, <1>8, MachIs DEF Asked, y
<1> HIDE DEF v
<1>10. \E r \in State(k), p \in SUBSET TimerOf(k) :
          /\ Fresh(r, m, s) /\ v.mach[k] = Perform([r EXCEPT !.timers = p])
          /\ p \subseteq m.timers \union {"assist"} \union {}
  BY <1>3, <1>7, <1>9 DEF With
<1>11. /\ Shaped(v) /\ v.lbs = w.lbs /\ v.fac = w.fac /\ v.locAsked = w.locAsked
       /\ v.privAsked = w.privAsked /\ v.induced = w.induced /\ v.leftover = w.leftover
       /\ v.sent = w.sent /\ v.used = w.used /\ v.op = w.op
       /\ \A j \in Machine \ {k} : v.mach[j] = w.mach[j]
  BY <1>4, <1>5, <1>6, <1>9 DEF With, Others, Asked
<1>12. Starts(v, w, k, s) /\ v.op = w.op
  BY <1>1, <1>10, <1>11 DEF Starts, m
<1> QED
  BY <1>2, <1>12

AtNull(w) == \A k \in Machine : w.mach[k].at = "null"

\* A session machine k may be started for.
Startable(w, k, s) ==
    IF k = MtLr THEN w.used < Len(Internal) /\ s = NextId(w)
    ELSE s \in Session /\ Kind[s] = k /\ w.lbs[s] # "new" /\ s \notin w.locAsked

\* What gives way in the queue of machine k to s.
Replaces(w, k, s, S) ==
    \A t \in S \ {s} : w.lbs[t] = "open" /\ Kind[t] = k /\ w.mach[k].queued /\ w.mach[k].next = t
                          => Over(w, t)

Begun(v, w, k, s, S, a) ==
    /\ Sound(v, a) /\ Known(v) /\ Held(v, S) /\ Follows(v) /\ ~AllReady(v)
    /\ v.mach[k].proto # "ready"
    /\ \A b : (IF k = MtLr THEN w.used + 1 + b.mtlr + b.measurement <= Len(Internal)
               ELSE Room(w, b)) => Room(v, b)

\* v is w after machine k was started in one way or the other.
Launched(v, w, k, s) ==
    /\ Shaped(v) /\ v.lbs = w.lbs /\ v.locAsked = w.locAsked /\ v.privAsked = w.privAsked
    /\ v.used = IF k = MtLr THEN w.used + 1 ELSE w.used
    /\ v.induced = w.induced \/ (k = MtLr /\ v.induced = w.induced \union {s})
    /\ \A j \in Machine \ {k} : v.mach[j] = w.mach[j]
    /\ v.mach[k].proto = "active" /\ v.mach[k].source = "none" /\ v.mach[k].queued = FALSE
    /\ v.mach[k].session = s /\ v.mach[k].still = w.mach[k].still
    /\ k # MtLr => ~Past(v.mach[k])
    /\ v.mach[k].answer = "accepted" => w.mach[k].answer = "accepted" \/ v.induced # {}

LEMMA RunsSound ==
    ASSUME NEW S \in SUBSET Session, NEW w, NEW a, Sound(w, a), Held(w, S), AllReady(w),
           NEW k \in Machine, NEW s, Startable(w, k, s), NEW v, Launched(v, w, k, s),
           Suits(v.op, k, s), Replaces(w, k, s, S)
    PROVE  Begun(v, w, k, s, S, a)
<1>1. /\ Shaped(w) /\ One(w) /\ Owned(w) /\ Waiting(w) /\ Unused(w, a) /\ Answered(w, a)
      /\ ~w.mach[MtLr].still
  BY DEF Sound
<1>2. /\ Shaped(v) /\ v.lbs = w.lbs /\ v.locAsked = w.locAsked /\ v.privAsked = w.privAsked
      /\ v.used = (IF k = MtLr THEN w.used + 1 ELSE w.used)
      /\ v.induced = w.induced \/ (k = MtLr /\ v.induced = w.induced \union {s})
      /\ \A j \in Machine \ {k} : v.mach[j] = w.mach[j]
      /\ v.mach[k].proto = "active" /\ v.mach[k].source = "none" /\ v.mach[k].queued = FALSE
      /\ v.mach[k].session = s /\ v.mach[k].still = w.mach[k].still
      /\ k # MtLr => ~Past(v.mach[k])
      /\ v.mach[k].answer = "accepted" => w.mach[k].answer = "accepted" \/ v.induced # {}
  BY DEF Launched
<1>3. MtLr \in Machine /\ MtLr \notin Originated /\ \A j \in Originated : j \in Machine
  BY DEF Machine, Originated, MtLr
<1>4. \A j \in Machine \ {k} : v.mach[j].proto = "ready"
  BY <1>2 DEF AllReady
<1>5. One(v)
  BY <1>4 DEF One
<1>6. w.used \in Nat
  BY <1>1 DEF Shaped, Worlds
<1>7. Given(w) \subseteq Given(v) /\ (k = MtLr => s \in Given(v))
  <2>1. CASE k = MtLr
    <3>1. 1..w.used \subseteq 1..(w.used + 1) /\ w.used + 1 \in 1..(w.used + 1)
      BY <1>6
    <3>2. s = Internal[w.used + 1] /\ v.used = w.used + 1
      BY <1>2, <2>1 DEF Startable, NextId
    <3> QED
      BY <3>1, <3>2 DEF Given
  <2>2. CASE k # MtLr
    BY <1>2, <2>2 DEF Given
  <2> QED
    BY <2>1, <2>2
<1>8. \A t : Over(v, t) <=> Over(w, t)
  BY <1>2 DEF Over
<1>9. Owned(v)
  <2> SUFFICES Owns(k, v.mach[k], v)
    BY <1>4 DEF Owned
  <2>1. CASE k = MtLr
    BY <1>2, <1>7, <2>1 DEF Owns
  <2>2. CASE k # MtLr
    BY <1>2, <2>2 DEF Owns, Startable
  <2> QED
    BY <2>1, <2>2
<1>10. Waiting(v)
  <2> SUFFICES ASSUME NEW j \in Originated, v.mach[j].queued
               PROVE  LET t == v.mach[j].next IN
                      /\ t \in Session /\ Kind[t] = j /\ v.lbs[t] # "new" /\ t \notin v.locAsked
                      /\ v.mach[j].proto # "ready" => v.mach[j].session # t
    BY DEF Waiting
  <2>1. j # k /\ v.mach[j] = w.mach[j] /\ v.mach[j].proto = "ready"
    BY <1>2, <1>3, <1>4
  <2> QED
    BY <1>1, <1>2, <2>1 DEF Waiting
<1>11. Unused(v, a)
  <2>1. v.induced \intersect InternalSession \subseteq Given(v)
    BY <1>1, <1>2, <1>7 DEF Unused
  <2> QED
    BY <1>1, <1>2, <1>7, <2>1 DEF Unused
<1>12. Answered(v, a)
  <2> SUFFICES ASSUME v.mach[MtLr].answer = "accepted", v.induced = {}
               PROVE  \E r \in InternalSession : a[r] = "accepted"
    BY DEF Answered
  <2>1. w.mach[MtLr].answer = "accepted" /\ w.induced = {}
    BY <1>2, <1>3
  <2> QED
    BY <1>1, <2>1 DEF Answered
<1>13. ~v.mach[MtLr].still
  BY <1>1, <1>2, <1>3
<1>14. Sound(v, a)
  BY <1>2, <1>5, <1>9, <1>10, <1>11, <1>12, <1>13 DEF Sound
<1>15. ~AllReady(v) /\ v.mach[k].proto # "ready"
  BY <1>2 DEF AllReady
<1>16. Known(v)
  BY <1>2, <1>4, <1>15 DEF Known
<1>17. Follows(v)
  BY <1>15 DEF Follows
<1>18. Held(v, S)
  <2> SUFFICES ASSUME NEW t \in S, v.lbs[t] = "open"
               PROVE  Holds(v, t)
    BY DEF Held
  <2>1. Holds(w, t) /\ w.lbs[t] = "open"
    BY <1>2 DEF Held
  <2>2. CASE t = s
    BY <1>2, <2>2 DEF Holds
  <2>3. CASE t # s /\ w.mach[Kind[t]].queued /\ w.mach[Kind[t]].next = t
    <3>1. Kind[t] \in Machine
      BY ProtocolModuleAssumption DEF Machine
    <3>2. CASE Kind[t] # k
      BY <1>2, <2>3, <3>1, <3>2 DEF Holds
    <3>3. CASE Kind[t] = k
      BY <1>8, <2>1, <2>3, <3>3 DEF Holds, Replaces
    <3> QED
      BY <3>2, <3>3
  <2>4. CASE Over(w, t)
    BY <1>8, <2>4 DEF Holds
  <2> QED
    BY <2>1, <2>2, <2>3, <2>4 DEF Holds, AllReady
<1>19. ASSUME NEW b, IF k = MtLr THEN w.used + 1 + b.mtlr + b.measurement <= Len(Internal)
                     ELSE Room(w, b)
       PROVE  Room(v, b)
  <2>1. CASE k = MtLr
    <3>1. B(v.mach[MtLr].queued) = 0 /\ v.used = w.used + 1
      BY <1>2, <2>1 DEF B
    <3>2. w.used + 1 + 0 = w.used + 1
      BY <1>6
    <3> QED
      BY <1>19, <2>1, <3>1, <3>2 DEF Room
  <2>2. CASE k # MtLr
    <3>1. v.mach[MtLr] = w.mach[MtLr] /\ v.used = w.used
      BY <1>2, <1>3, <2>2
    <3> QED
      BY <1>19, <2>2, <3>1 DEF Room
  <2> QED
    BY <2>1, <2>2
<1>20. /\ Sound(v, a) /\ Known(v) /\ Held(v, S) /\ Follows(v) /\ ~AllReady(v)
       /\ v.mach[k].proto # "ready"
  BY <1>14, <1>15, <1>16, <1>17, <1>18
<1> QED
  BY <1>19, <1>20 DEF Begun

\* The id of the session machine k is started for.
IdOf(w, k, s) == IF k = MtLr THEN NextId(w) ELSE s

LEMMA StartOf ==
    ASSUME NEW w, Shaped(w), AllReady(w), NEW k \in Machine, NEW s,
           Startable(w, k, IdOf(w, k, s))
    PROVE  Starts(Start(w, k, s), w, k, IdOf(w, k, s)) /\ Start(w, k, s).op = w.op
<1>1. CASE k = MtLr
  BY <1>1, StartMtLrIs DEF Start, Startable, IdOf
<1>2. CASE k # MtLr
  <2>1. k \in Originated
    BY <1>2 DEF Machine
  <2> QED
    BY <1>2, <2>1, StartOriginatedIs DEF Start, Startable, IdOf
<1> QED
  BY <1>1, <1>2

\* v is w after the start of procedure o.
Begins(v, w, k, t, o) == Starts(v, w, k, t) /\ v.op = o

\* What is current is set after the start, or before it.
LEMMA BeginIs ==
    ASSUME NEW w, Shaped(w), AllReady(w), NEW k \in Machine, NEW s,
           Startable(w, k, IdOf(w, k, s)), NEW o \in Ops
    PROVE  /\ Begins([Start(w, k, s) EXCEPT !.op = o], w, k, IdOf(w, k, s), o)
           /\ Begins(Start([w EXCEPT !.op = o], k, s), w, k, IdOf(w, k, s), o)
<1> DEFINE t == IdOf(w, k, s)
           x == Start(w, k, s)
           v == [x EXCEPT !.op = o]
           z == [w EXCEPT !.op = o]
           u == Start(z, k, s)
<1>1. Starts(x, w, k, t)
  BY StartOf
<1>2. OpOnly(z, w, o)
  BY OpIs
<1> HIDE DEF x, z
<1>3. OpOnly(v, x, o)
  BY <1>1, OpIs DEF Starts
<1> HIDE DEF v
<1>4. AllReady(z) /\ IdOf(z, k, s) = t /\ Startable(z, k, t)
  BY <1>2 DEF OpOnly, AllReady, IdOf, NextId, Startable
<1>5. Starts(u, z, k, t) /\ u.op = o
  BY <1>2, <1>4, StartOf DEF OpOnly
<1> HIDE DEF t, u
<1>6. Starts(v, w, k, t) /\ v.op = o
  BY <1>1, <1>3 DEF Starts, OpOnly
<1>7. Starts(u, w, k, t)
  BY <1>2, <1>5 DEF Starts, OpOnly
<1> QED
  BY <1>5, <1>6, <1>7 DEF t, u, v, x, z, Begins

LEMMA StartsRuns ==
    ASSUME NEW w, Shaped(w), AtNull(w), NEW k \in Machine, NEW s \in AllSessions,
           NEW v, Starts(v, w, k, s)
    PROVE  Launched(v, w, k, s)
<1> DEFINE m == w.mach[k]
           n == v.mach[k]
<1>1. m \in State(k) /\ m.at = "null"
  BY DEF Shaped, AtNull
<1> HIDE DEF m
<1>2. PICK x \in State(k), q \in SUBSET TimerOf(k) :
         Fresh(x, m, s) /\ n = Perform([x EXCEPT !.timers = q])
  BY DEF Starts, m
<1>3. Started(k, n, m, s)
  BY <1>1, <1>2, StartIs
<1>4. ~Past(n)
  BY <1>1, <1>3 DEF Started, Past
<1> QED
  BY <1>3, <1>4 DEF Starts, Launched, Started, m

LEMMA StartsFit ==
    ASSUME NEW w, NEW l, NEW a, Sound(w, a), Fits(w, l, a), AllReady(w),
           NEW k \in Machine, NEW s, Startable(w, k, s), NEW v, Starts(v, w, k, s)
    PROVE  Fits(v, l, a)
<1> DEFINE m == w.mach[k]
           u == IF s \in InternalSession THEN a[s] ELSE "unknown"
<1>1. Shaped(w) /\ Unused(w, a) /\ ~w.fac /\ Shaped(v)
  BY DEF Sound, Fits, Starts
<1>2. \A j \in Machine : Rest(j, w.mach[j])
  BY DEF Fits, FitIn, Fit, AllReady
<1>3. m \in State(k) /\ Rest(k, m)
  BY <1>1, <1>2 DEF Shaped
<1>4. /\ s \in AllSessions /\ s \notin w.locAsked /\ s \notin w.privAsked
      /\ s \notin w.induced /\ u = "unknown"
  <2>1. CASE k = MtLr
    <3>1. s \in InternalSession /\ s \notin Given(w) /\ s \in AllSessions
      BY <1>1, <2>1, NextIs DEF Startable
    <3> QED
      BY <1>1, <3>1 DEF Unused
  <2>2. CASE k # MtLr
    <3>1. s \in Session /\ s \notin w.locAsked /\ s \notin InternalSession
      BY <2>2, ProtocolModuleAssumption DEF Startable
    <3>2. w.privAsked \subseteq InternalSession /\ w.induced \subseteq InternalSession
      BY <1>1 DEF Shaped, Worlds
    <3> QED
      BY <3>1, <3>2 DEF AllSessions
  <2> QED
    BY <2>1, <2>2
<1> HIDE DEF u
<1>5. PICK x \in State(k), q \in SUBSET TimerOf(k) :
         /\ Fresh(x, m, s) /\ v.mach[k] = Perform([x EXCEPT !.timers = q])
         /\ q \subseteq m.timers \union {"assist"}
                           \union IF k = MtLr THEN {"request"} ELSE {}
  BY DEF Starts
<1> HIDE DEF m
<1>6. q \intersect Harm(k) \subseteq IF k = MtLr THEN {"request"} ELSE {}
  BY <1>3, <1>5 DEF Rest, Harm
<1> DEFINE n == Perform([x EXCEPT !.timers = q])
<1>7. Started(k, n, m, s)
  BY <1>3, <1>4, <1>5, StartIs
<1>8. Fit(k, n, w.fac, s \in w.locAsked, s \in w.privAsked, s \in l, s \in w.induced, u)
  BY <1>1, <1>3, <1>4, <1>5, <1>6, StartFits
<1> HIDE DEF n
<1>9. v.mach[k] = n /\ n.session = s /\ n.proto = "active"
  BY <1>5, <1>7 DEF n, Started
<1>10. /\ v.fac = w.fac /\ v.locAsked = w.locAsked /\ v.privAsked = w.privAsked
       /\ v.induced = w.induced /\ \A j \in Machine \ {k} : v.mach[j] = w.mach[j]
  BY DEF Starts
<1>11. FitIn(k, v, l, a)
  BY <1>8, <1>9, <1>10 DEF FitIn, u
<1>12. \A j \in Machine \ {k} : FitIn(j, v, l, a)
  BY <1>2, <1>10 DEF FitIn, Fit, AllReady
<1>13. ~AllReady(v)
  BY <1>9 DEF AllReady
<1> QED
  BY <1>11, <1>12, <1>13 DEF Fits

LEMMA RestIsNull ==
    ASSUME NEW w, NEW l, NEW a, Fits(w, l, a), AllReady(w)
    PROVE  AtNull(w)
BY DEF Fits, FitIn, Fit, Rest, AllReady, AtNull

\* A start in a world where nothing runs.
LEMMA BeginLives ==
    ASSUME NEW S \in SUBSET Session, NEW w, NEW l, NEW a, Sound(w, a), Held(w, S), Fits(w, l, a),
           AllReady(w), ~w.leftover, w.sent = {}, NEW k \in Machine, NEW s,
           Startable(w, k, s), NEW v, Starts(v, w, k, s), Suits(v.op, k, s),
           Replaces(w, k, s, S)
    PROVE  Live(v, S, l, a) /\ Begun(v, w, k, s, S, a)
<1>1. s \in AllSessions
  <2>1. CASE k = MtLr
    BY <2>1, NextIs DEF Startable, Sound
  <2>2. CASE k # MtLr
    BY <2>2 DEF Startable, AllSessions
  <2> QED
    BY <2>1, <2>2
<1>2. Shaped(w) /\ AtNull(w)
  BY RestIsNull DEF Sound
<1>3. Launched(v, w, k, s)
  BY <1>1, <1>2, StartsRuns
<1>4. Begun(v, w, k, s, S, a)
  BY <1>3, RunsSound
<1>5. Fits(v, l, a)
  BY StartsFit
<1>6. ~v.leftover /\ v.sent = {}
  BY DEF Starts
<1> QED
  BY <1>4, <1>5, <1>6 DEF Live, Begun

\* The network induces a procedure in world z.
Induction(z, o) ==
    LET s == NextId(z) IN
    [z EXCEPT !.used = @ + 1, !.op = o, !.induced = @ \union {s},
              !.mach[MtLr] = Inducing(Initialise(MtLr, z.mach[MtLr], s))]

LEMMA InductionLives ==
    ASSUME NEW S \in SUBSET Session, NEW z, NEW l, NEW a, Sound(z, a), Held(z, S), Fits(z, l, a),
           AllReady(z), ~z.leftover, z.sent = {}, z.used < Len(Internal),
           NEW o \in Ops, o.kind = "nilr"
    PROVE  /\ Live(Induction(z, o), S, l, a)
           /\ Begun(Induction(z, o), z, MtLr, NextId(z), S, a)
<1> DEFINE s == NextId(z)
           m == z.mach[MtLr]
           u == IF s \in InternalSession THEN a[s] ELSE "unknown"
           x == Initialise(MtLr, m, s)
           n == Inducing(x)
           y == [z EXCEPT !.used = z.used + 1, !.op = o, !.induced = z.induced \union {s}]
           v == [y EXCEPT !.mach[MtLr] = n]
<1>1. /\ Shaped(z) /\ Unused(z, a) /\ ~z.fac /\ ~z.mach[MtLr].still
      /\ MtLr \in Machine /\ z.used + 1 \in 0..Len(Internal)
  BY NextIs DEF Sound, Fits, Machine
<1>2. \A j \in Machine : Rest(j, z.mach[j])
  BY DEF Fits, FitIn, Fit, AllReady
<1>3. m \in State(MtLr) /\ Rest(MtLr, m) /\ ~m.still
  BY <1>1, <1>2 DEF Shaped
<1>4. /\ s \in InternalSession /\ s \in AllSessions /\ s \notin z.locAsked
      /\ s \notin z.privAsked
  BY <1>1, NextIs DEF Unused
<1>5. /\ Shaped(y) /\ y.used = z.used + 1 /\ y.mach = z.mach /\ y.op = o
      /\ y.lbs = z.lbs /\ y.fac = z.fac /\ y.locAsked = z.locAsked
      /\ y.privAsked = z.privAsked /\ y.induced = z.induced \union {s}
      /\ y.leftover = z.leftover /\ y.sent = z.sent
  BY <1>1, <1>4 DEF Shaped, Worlds
<1>6. Induction(z, o) = v
  BY DEF Induction
<1> HIDE DEF s, m, u, y
<1>7. x \in State(MtLr) /\ Fresh(x, m, s)
  BY <1>1, <1>3, <1>4, InitialiseIs
<1> HIDE DEF x
<1>8. s \in y.induced
  BY <1>5
<1>85. IsInduced(n, s, z.fac, s \in z.locAsked, s \in z.privAsked, s \in l, s \in y.induced, u)
  BY <1>1, <1>3, <1>4, <1>7, <1>8, InducedFits
<1>9. /\ n \in State(MtLr) /\ n.proto = "active" /\ n.session = s /\ n.queued = FALSE
      /\ n.source = "none" /\ ~n.still
      /\ Fit(MtLr, n, z.fac, s \in z.locAsked, s \in z.privAsked, s \in l, s \in y.induced, u)
  BY <1>85 DEF IsInduced
<1> HIDE DEF n
<1>10. With(v, y, MtLr, n)
  BY <1>1, <1>5, <1>9, MachIs
<1> HIDE DEF v
<1>11. /\ Shaped(v) /\ v.lbs = z.lbs /\ v.locAsked = z.locAsked /\ v.privAsked = z.privAsked
       /\ v.used = z.used + 1 /\ v.op = o /\ v.induced = z.induced \union {s}
       /\ v.leftover = z.leftover /\ v.sent = z.sent /\ v.fac = z.fac
       /\ v.mach[MtLr] = n /\ \A j \in Machine \ {MtLr} : v.mach[j] = z.mach[j]
  BY <1>5, <1>10 DEF With, Others
<1>12. Launched(v, z, MtLr, s)
  <2>1. n.still = m.still
    BY <1>3, <1>7, <1>9 DEF State, MachineState
  <2>2. v.induced # {}
    BY <1>11
  <2> QED
    BY <1>9, <1>11, <2>1, <2>2 DEF Launched, m
<1>13. Begun(v, z, MtLr, s, S, a)
  <2>1. Startable(z, MtLr, s)
    BY DEF Startable, s
  <2>2. Suits(v.op, MtLr, s)
    BY <1>11 DEF Suits, Kinds, MtLr
  <2>3. Replaces(z, MtLr, s, S)
    BY ProtocolModuleAssumption DEF Replaces, Originated, MtLr
  <2> QED
    BY <1>1, <1>12, <2>1, <2>2, <2>3, RunsSound
<1>14. Fits(v, l, a)
  <2>1. FitIn(MtLr, v, l, a)
    BY <1>5, <1>9, <1>11 DEF FitIn, u
  <2>2. \A j \in Machine \ {MtLr} : FitIn(j, v, l, a)
    BY <1>2, <1>11 DEF FitIn, Fit, AllReady
  <2>3. ~AllReady(v)
    BY <1>1, <1>9, <1>11 DEF AllReady
  <2> QED
    BY <2>1, <2>2, <2>3 DEF Fits
<1>15. Live(v, S, l, a)
  BY <1>11, <1>13, <1>14 DEF Live, Begun
<1> QED
  BY <1>6, <1>13, <1>15 DEF s

-----------------------------------------------------------------------------
(***************************************************************************)
(* Conflicts.                                                              *)
(***************************************************************************)

LEMMA IndexIs ==
    ASSUME NEW o \in Ops
    PROVE  /\ Index(o) \in {"molr", "mtlr", "emergency", "low", "medium", "high", "none"}
           /\ Index(o) \in {"low", "medium", "high"} => o.kind = "x3p" /\ o.prio = Index(o)
<1>1. o.kind \in {"mtlr", "molr", "x3p", "netloc", "nilr", "none"}
      /\ o.prio \in {"none", "low", "medium", "high", "emergency"}
  BY DEF Ops, Machine, Originated, MtLr
<1> QED
  BY <1>1 DEF Index

LEMMA DecisionIs ==
    ASSUME NEW o \in Ops, NEW n \in Ops
    PROVE  LET d == ConflictDecision(o, n) IN
           /\ d \in {"reject", "queueNew", "cancel", "queueCurrent"}
           /\ d = "queueCurrent" => /\ o.kind = "x3p" /\ o.prio = "low"
                                    /\ n.kind = "x3p" /\ n.prio = "high"
           /\ Index(o) = "molr" /\ d = "queueNew" => n.kind = "x3p"
<1> DEFINE i == Index(o)
           j == Index(n)
           d == ConflictDecision(o, n)
<1>1. /\ i \in {"molr", "mtlr", "emergency", "low", "medium", "high", "none"}
      /\ j \in {"molr", "mtlr", "emergency", "low", "medium", "high", "none"}
      /\ i \in {"low", "medium", "high"} => o.kind = "x3p" /\ o.prio = i
      /\ j \in {"low", "medium", "high"} => n.kind = "x3p" /\ n.prio = j
  BY IndexIs
<1>2. d = IF "none" \in {i, j} THEN "reject" ELSE Decision[i][j]
  BY DEF ConflictDecision
<1> HIDE DEF i, j
<1>3. CASE "none" \in {i, j}
  BY <1>2, <1>3
<1>4. CASE "none" \notin {i, j}
  <2>1. j \in {"molr", "mtlr", "emergency", "low", "medium", "high"}
    BY <1>1, <1>4
  <2>2. d = Decision[i][j]
    BY <1>2, <1>4
  <2> HIDE DEF d
  <2>3. /\ d \in {"reject", "queueNew", "cancel", "queueCurrent"}
        /\ d = "queueCurrent" => i = "low" /\ j = "high"
        /\ i = "molr" /\ d = "queueNew" => j = "low"
    <3>1. CASE i = "molr"
      BY <2>1, <2>2, <3>1 DEF Decision
    <3>2. CASE i = "mtlr"
      BY <2>1, <2>2, <3>2 DEF Decision
    <3>3. CASE i = "emergency"
      BY <2>1, <2>2, <3>3 DEF Decision
    <3>4. CASE i = "low"
      BY <2>1, <2>2, <3>4 DEF Decision
    <3>5. CASE i = "medium"
      BY <2>1, <2>2, <3>5 DEF Decision
    <3>6. CASE i = "high"
      BY <2>1, <2>2, <3>6 DEF Decision
    <3> QED
      BY <1>1, <1>4, <3>1, <3>2, <3>3, <3>4, <3>5, <3>6
  <2> QED
    BY <1>1, <2>3 DEF d, i
<1> QED
  BY <1>3, <1>4

\* v is w but for cancels and what LBS is told.
Untouched(v, w) ==
    /\ Closer(v, w) /\ v.locAsked = w.locAsked /\ v.used = w.used
    /\ \A k \in Machine :
          /\ v.mach[k].proto = w.mach[k].proto /\ v.mach[k].session = w.mach[k].session
          /\ v.mach[k].queued = w.mach[k].queued /\ v.mach[k].next = w.mach[k].next

LEMMA UntouchedTwice ==
    ASSUME NEW w, NEW v, Untouched(v, w), NEW u, Untouched(u, v)
    PROVE  Untouched(u, w)
BY DEF Untouched, Closer

LEMMA WithUntouched ==
    ASSUME NEW w, NEW k \in Machine, NEW n, Steps(n, w.mach[k]), NEW v, With(v, w, k, n)
    PROVE  Untouched(v, w)
BY DEF Untouched, With, Others, Closer, Steps

\* A machine is cancelled.
LEMMA CancelLives ==
    ASSUME NEW S \in SUBSET Session, NEW w, NEW l, NEW a, Live(w, S, l, a), NEW k \in Machine,
           w.mach[k].proto = "active", NEW source \in Source \ {"netError"},
           source = "silent" => k = "x3p" /\ Over(w, w.mach[k].session),
           NEW v, v = [w EXCEPT !.mach[k] = CancelMachine(w.mach[k], source)]
    PROVE  Lives(v, w, S, l, a) /\ Untouched(v, w)
<1> DEFINE m == w.mach[k]
           s == m.session
           u == IF s \in InternalSession THEN a[s] ELSE "unknown"
           n == CancelMachine(m, source)
<1>1. /\ Fit(k, m, w.fac, s \in w.locAsked, s \in w.privAsked, s \in l, s \in w.induced, u)
      /\ m \in State(k) /\ Shaped(w) /\ Sound(w, a) /\ Fits(w, l, a) /\ One(w)
  BY DEF Live, Fits, FitIn, Sound, Shaped
<1>2. m.proto = "active" /\ m.session = s
  OBVIOUS
<1> HIDE DEF u, s, m
<1>3. Told(k, m, m, w.fac)
  BY <1>1, <1>2, ToldIs
<1>4. /\ n \in State(k) /\ Steps(n, m) /\ n.source = source
      /\ n.answer = "accepted" => m.answer = "accepted"
      /\ Fit(k, n, w.fac, s \in w.locAsked, s \in w.privAsked, s \in l, s \in w.induced, u)
  BY <1>3, CancelStays
<1>5. v = [w EXCEPT !.mach[k] = n]
  BY DEF m
<1> HIDE DEF n
<1>6. With(v, w, k, n)
  BY <1>1, <1>4, <1>5, MachIs
<1>7. Shaped(v) /\ Others(v, w) /\ v.mach[k] = n
      /\ \A j \in Machine \ {k} : v.mach[j] = w.mach[j]
  BY <1>6 DEF With
<1>8. Closer(v, w) /\ \A t : Over(w, t) => Over(v, t)
  BY <1>7 DEF Closer, Others, Over
<1>9. Near(v, w, a)
  <2>1. Goes(k, n, m, v)
    BY <1>4, <1>8 DEF Goes, Steps, Past, m, s
  <2>2. \A j \in Machine \ {k} : Goes(j, w.mach[j], w.mach[j], v)
    BY DEF Goes
  <2>3. \A j \in Machine : Goes(j, v.mach[j], w.mach[j], v)
    BY <1>7, <2>1, <2>2 DEF m
  <2> QED
    BY <1>7, <1>8, <2>3 DEF Near, Others
<1>10. FitIn(k, v, l, a)
  BY <1>2, <1>4, <1>7 DEF FitIn, Others, Steps, u
<1>11. Fits(v, l, a)
  BY <1>1, <1>2, <1>4, <1>7, <1>10, RunnerFits DEF Steps, m
<1>12. Lives(v, w, S, l, a)
  BY <1>7, <1>9, <1>11, NearLives DEF Others
<1>13. Untouched(v, w)
  BY <1>4, <1>6, WithUntouched DEF m
<1> QED
  BY <1>12, <1>13

LEMMA GivesWayLives ==
    ASSUME NEW S \in SUBSET Session, NEW w, NEW l, NEW a, Live(w, S, l, a), NEW k \in Machine,
           w.mach[k].proto = "active", NEW new, NEW result,
           result = "queueCurrent" => k = "x3p" /\ Over(w, w.mach[k].session),
           NEW v, v = GivesWay(w, k, new, result)
    PROVE  Lives(v, w, S, l, a) /\ Untouched(v, w)
<1> DEFINE source == CASE result = "queueCurrent" -> "silent"
                       [] new.kind \in {"mtlr", "nilr"} -> "network"
                       [] OTHER -> "client"
<1>1. source \in Source \ {"netError"}
      /\ (source = "silent" => k = "x3p" /\ Over(w, w.mach[k].session))
  <2>1. CASE result = "queueCurrent" /\ new.kind \in {"mtlr", "nilr"}
    <3>1. source \in {"silent", "network"}
      BY <2>1
    <3> QED
      BY <2>1, <3>1 DEF Source
  <2>2. CASE result = "queueCurrent" /\ new.kind \notin {"mtlr", "nilr"}
    BY <2>2 DEF Source
  <2>3. CASE result # "queueCurrent" /\ new.kind \in {"mtlr", "nilr"}
    BY <2>3 DEF Source
  <2>4. CASE result # "queueCurrent" /\ new.kind \notin {"mtlr", "nilr"}
    BY <2>4 DEF Source
  <2> QED
    BY <2>1, <2>2, <2>3, <2>4
<1>2. CASE result \notin {"cancel", "queueCurrent"}
  BY <1>2, LivesAnyway DEF GivesWay, Untouched, Closer
<1>3. CASE result \in {"cancel", "queueCurrent"}
  <2>1. v = [w EXCEPT !.mach[k] = CancelMachine(w.mach[k], source)]
    BY <1>3 DEF GivesWay
  <2> HIDE DEF source
  <2> QED
    BY <1>1, <2>1, CancelLives
<1> QED
  BY <1>2, <1>3

\* What there is after a conflict was resolved.
Settles(r, w, new, S, l, a) ==
    /\ Lives(r.world, w, S, l, a) /\ Untouched(r.world, w)
    /\ r.result = "none" => AllReady(r.world)
    /\ r.result \notin {"none", "reject"} /\ new.kind # "x3p" => ~AllReady(r.world)

LEMMA CancelledIsBusy ==
    ASSUME NEW w, NEW v, Untouched(v, w), NEW k \in Machine, w.mach[k].proto # "ready"
    PROVE  ~AllReady(v)
BY DEF Untouched, AllReady

\* A tracking client counts as an MO-LR.
LEMMA TrackingSettles ==
    ASSUME NEW S \in SUBSET Session, NEW w, NEW l, NEW a, Live(w, S, l, a), NEW new \in Ops,
           NEW k, k = Active(w), InState(w, "cancelling") = "none"
    PROVE  Settles(ResolveTracking(w, k, new), w, new, S, l, a)
<1> DEFINE o == [kind |-> "molr", prio |-> "none"]
           result == ConflictDecision(o, new)
           off == [w EXCEPT !.tracking = FALSE]
           s == w.mach["molr"].session
           y == IF s = NoSession THEN off ELSE SessionCompleteInd(off, s)
           r == ResolveTracking(w, k, new)
<1>1. o \in Ops /\ Index(o) = "molr" /\ o.kind # "x3p"
  BY DEF Ops, Index, Machine, Originated
<1> HIDE DEF o
<1>2. /\ result \in {"reject", "queueNew", "cancel", "queueCurrent"}
      /\ result # "queueCurrent"
      /\ result = "queueNew" => new.kind = "x3p"
  BY <1>1, DecisionIs
<1>3. r = CASE result \notin {"cancel", "queueCurrent"} -> Resolved(w, result)
            [] result \in {"cancel", "queueCurrent"} /\ k # "none" ->
                  Resolved(GivesWay(off, k, new, result), result)
            [] OTHER -> Resolved(y, "none")
  BY DEF ResolveTracking, o
<1> SUFFICES Settles(r, w, new, S, l, a)
  OBVIOUS
<1> HIDE DEF result, r
<1>4. Shaped(w)
  BY DEF Live, Sound
<1>5. Data(off, w) /\ off.fac = w.fac /\ off.sent = w.sent
  BY <1>4, DataIs
<1> HIDE DEF off
<1>6. Lives(off, w, S, l, a) /\ Untouched(off, w)
  BY <1>5, DataLives DEF Untouched, Closer, Data
<1>7. CASE result \notin {"cancel", "queueCurrent"}
  <2>1. r.world = w /\ r.result = result
    BY <1>3, <1>7 DEF Resolved
  <2>2. Untouched(w, w)
    BY DEF Untouched, Closer
  <2> QED
    BY <1>2, <1>7, <2>1, <2>2, LivesAnyway DEF Settles
<1>8. CASE result \in {"cancel", "queueCurrent"} /\ k # "none"
  <2> DEFINE v == GivesWay(off, k, new, result)
  <2>1. r.world = v /\ r.result = result
    BY <1>3, <1>8 DEF Resolved
  <2>2. k \in Machine /\ off.mach[k].proto = "active" /\ w.mach[k].proto = "active"
    BY <1>5, <1>8, ActiveIs DEF Data
  <2>3. Lives(v, off, S, l, a) /\ Untouched(v, off)
    BY <1>2, <1>6, <2>2, GivesWayLives DEF Lives
  <2> HIDE DEF v
  <2>4. Lives(v, w, S, l, a) /\ Untouched(v, w)
    BY <1>6, <2>3, LivesTwice, UntouchedTwice
  <2>5. ~AllReady(v)
    BY <2>2, <2>4, CancelledIsBusy
  <2> QED
    BY <1>2, <2>1, <2>4, <2>5 DEF Settles
<1>9. CASE result \in {"cancel", "queueCurrent"} /\ k = "none"
  <2>1. r.world = y /\ r.result = "none"
    BY <1>3, <1>9 DEF Resolved
  <2>2. Lives(y, off, S, l, a) /\ Untouched(y, off)
    <3>1. CASE s = NoSession
      BY <1>6, <3>1, LivesAnyway DEF Untouched, Closer, Lives
    <3>2. CASE s # NoSession
      <4>1. Heard(y, off)
        BY <1>5, <3>2, CompleteHeard DEF Data
      <4> QED
        BY <1>6, <4>1, HeardLives DEF Untouched, Heard, Lives
    <3> QED
      BY <3>1, <3>2
  <2> HIDE DEF y
  <2>3. Lives(y, w, S, l, a) /\ Untouched(y, w)
    BY <1>6, <2>2, LivesTwice, UntouchedTwice
  <2>4. AllReady(w)
    <3>1. ASSUME NEW j \in Machine
          PROVE  w.mach[j].proto = "ready"
      <4>1. w.mach[j].proto # "active"
        BY <1>9, ActiveIs
      <4>2. w.mach[j].proto # "cancelling"
        BY InStateIs DEF Machine, Originated, MtLr
      <4>3. w.mach[j] \in State(j)
        BY <1>4 DEF Shaped
      <4> QED
        BY <4>1, <4>2, <4>3 DEF State, MachineState
    <3> QED
      BY <3>1 DEF AllReady
  <2>5. AllReady(y)
    BY <2>3, <2>4 DEF Untouched, AllReady
  <2> QED
    BY <2>1, <2>3, <2>5 DEF Settles
<1> QED
  BY <1>7, <1>8, <1>9

\* The new procedure is of the kinds there are, and an X3P of a session that
\* does not run.
NewIs(w, new) ==
    /\ new \in Ops
    /\ new.kind = "x3p" =>
          \E s \in Session : /\ Kind[s] = "x3p" /\ w.lbs[s] # "new"
                             /\ w.mach["x3p"].proto # "ready" => w.mach["x3p"].session # s

LEMMA ConflictSettles ==
    ASSUME NEW S \in SUBSET Session, NEW w, NEW l, NEW a, Live(w, S, l, a), NEW new,
           NewIs(w, new)
    PROVE  Settles(ResolveConflict(w, new), w, new, S, l, a)
<1> DEFINE k == Active(w)
           c == k = MtLr /\ w.mach[MtLr].at = "closeWait"
           r == ResolveConflict(w, new)
           result == ConflictDecision(w.op, new)
           e == [w EXCEPT !.mach[MtLr] = CancelMachine(w.mach[MtLr], "none")]
           f == IF w.tracking /\ new.kind # "molr" /\ k \in {"none", "molr"}
                THEN ResolveTracking(w, k, new)
                ELSE IF k = "none" THEN Resolved(w, "none")
                ELSE Resolved(GivesWay(w, k, new, result), result)
<1>1. r = CASE c -> Resolved(e, "cancel")
            [] ~c /\ InState(w, "cancelling") # "none" -> Resolved(w, "queueNew")
            [] OTHER -> f
  BY DEF ResolveConflict
<1>2. new \in Ops /\ Shaped(w) /\ w.op \in Ops /\ Owned(w) /\ Known(w)
  BY DEF NewIs, Live, Sound, Shaped, Worlds
<1>3. Lives(w, w, S, l, a) /\ Untouched(w, w)
  BY LivesAnyway DEF Untouched, Closer
<1> SUFFICES Settles(r, w, new, S, l, a)
  OBVIOUS
<1> HIDE DEF r
<1>4. CASE c
  <2>1. MtLr \in Machine /\ w.mach[MtLr].proto = "active"
    BY <1>4, ActiveIs DEF Machine, MtLr
  <2>2. "none" \in Source \ {"netError"}
    BY DEF Source
  <2>3. Lives(e, w, S, l, a) /\ Untouched(e, w)
    BY <2>1, <2>2, CancelLives
  <2>4. r.world = e /\ r.result = "cancel"
    BY <1>1, <1>4 DEF Resolved
  <2>5. ~AllReady(e)
    BY <2>1, <2>3, CancelledIsBusy
  <2> QED
    BY <2>3, <2>4, <2>5 DEF Settles
<1>5. CASE ~c /\ InState(w, "cancelling") # "none"
  <2>1. r.world = w /\ r.result = "queueNew"
    BY <1>1, <1>5 DEF Resolved
  <2>2. ~AllReady(w)
    BY <1>5, InStateIs DEF AllReady
  <2> QED
    BY <1>3, <2>1, <2>2 DEF Settles
<1>6. CASE ~c /\ InState(w, "cancelling") = "none"
  <2>1. r = f
    BY <1>1, <1>6
  <2>2. CASE w.tracking /\ new.kind # "molr" /\ k \in {"none", "molr"}
    <3>1. r = ResolveTracking(w, k, new)
      BY <2>1, <2>2
    <3> QED
      BY <1>2, <1>6, <3>1, TrackingSettles
  <2>3. CASE ~(w.tracking /\ new.kind # "molr" /\ k \in {"none", "molr"}) /\ k = "none"
    <3>1. r = Resolved(w, "none")
      BY <2>1, <2>3
    <3>2. r.world = w /\ r.result = "none"
      BY <3>1 DEF Resolved
    <3>3. AllReady(w)
      <4> SUFFICES ASSUME NEW j \in Machine
                   PROVE  w.mach[j].proto = "ready"
        BY DEF AllReady
      <4>1. w.mach[j].proto # "active"
        BY <2>3, ActiveIs
      <4>2. w.mach[j].proto # "cancelling"
        BY <1>6, InStateIs DEF Machine, Originated, MtLr
      <4>3. w.mach[j] \in State(j)
        BY <1>2 DEF Shaped
      <4> QED
        BY <4>1, <4>2, <4>3 DEF State, MachineState
    <3> QED
      BY <1>3, <3>2, <3>3 DEF Settles
  <2>4. CASE ~(w.tracking /\ new.kind # "molr" /\ k \in {"none", "molr"}) /\ k # "none"
    <3> DEFINE v == GivesWay(w, k, new, result)
    <3>1. r = Resolved(v, result)
      BY <2>1, <2>4
    <3>2. r.world = v /\ r.result = result
      BY <3>1 DEF Resolved
    <3>3. k \in Machine /\ w.mach[k].proto = "active"
      BY <2>4, ActiveIs
    <3> HIDE DEF k
    <3>4. /\ result \in {"reject", "queueNew", "cancel", "queueCurrent"}
          /\ result = "queueCurrent" => /\ w.op.kind = "x3p" /\ w.op.prio = "low"
                                        /\ new.kind = "x3p" /\ new.prio = "high"
      BY <1>2, DecisionIs
    <3> HIDE DEF result
    <3>5. ASSUME result = "queueCurrent"
          PROVE  k = "x3p" /\ Over(w, w.mach[k].session)
      <4>1. Suits(w.op, k, w.mach[k].session) /\ Owns(k, w.mach[k], w)
        BY <1>2, <3>3 DEF Known, Owned
      <4>2. k = "x3p"
        BY <3>4, <3>5, <4>1 DEF Suits, Kinds, MtLr
      <4>3. /\ w.mach[k].session \in Session /\ Kind[w.mach[k].session] = "x3p"
            /\ Priority[w.mach[k].session] = "low"
        BY <3>4, <3>5, <4>1, <4>2 DEF Suits, Owns, MtLr
      <4>4. PICK s \in Session : /\ Kind[s] = "x3p" /\ w.lbs[s] # "new"
                                 /\ w.mach["x3p"].session # s
        BY <3>3, <3>4, <3>5, <4>2 DEF NewIs
      <4> QED
        BY <4>2, <4>3, <4>4 DEF Over
    <3>6. Lives(v, w, S, l, a) /\ Untouched(v, w)
      BY <3>3, <3>5, GivesWayLives
    <3> HIDE DEF v
    <3>7. ~AllReady(v)
      BY <3>3, <3>6, CancelledIsBusy
    <3> QED
      BY <3>2, <3>4, <3>6, <3>7 DEF Settles
  <2> QED
    BY <2>2, <2>3, <2>4
<1> QED
  BY <1>4, <1>5, <1>6

-----------------------------------------------------------------------------
(***************************************************************************)
(* A request is started, refused, or waits.                                *)
(***************************************************************************)

\* A request for machine k, of session s if LBS makes it.
Requests(w, k, s, new) ==
    /\ NewIs(w, new) /\ new.kind \in Kinds(k)
    /\ IF k = MtLr THEN s = NoSession
       ELSE /\ s \in Session /\ Kind[s] = k /\ w.lbs[s] # "new" /\ s \notin w.locAsked
            /\ \A j \in Machine : w.mach[j].proto # "ready" => w.mach[j].session # s
            /\ k = "x3p" => new.prio \in {"none", Priority[s]}
    /\ Replaces(w, k, s, Session)

\* There is an id for it besides those for b.
Fetches(w, k, b) ==
    IF k = MtLr
    THEN w.used + B(w.mach[MtLr].queued) + 1 + b.mtlr + b.measurement <= Len(Internal)
    ELSE Room(w, b)

LEMMA LiveOne ==
    ASSUME NEW w, NEW s, NEW l, NEW a, Live(w, Session \ {s}, l, a),
           s \in Session /\ w.lbs[s] = "open" => Holds(w, s)
    PROVE  Live(w, Session, l, a)
BY DEF Live, Held

\* The same, of a world the conflict has left like this.
LEMMA RequestsStay ==
    ASSUME NEW w, NEW k \in Machine, NEW s, NEW new, Requests(w, k, s, new),
           NEW v, Untouched(v, w)
    PROVE  /\ k # MtLr => /\ s \in Session /\ Kind[s] = k /\ v.lbs[s] # "new"
                          /\ s \notin v.locAsked
                          /\ \A j \in Machine : v.mach[j].proto # "ready" => v.mach[j].session # s
           /\ Replaces(v, k, s, Session)
<1>1. \A t : Over(w, t) => Over(v, t)
  BY DEF Over, Untouched, Closer
<1>2. Replaces(v, k, s, Session)
  BY <1>1 DEF Requests, Replaces, Untouched, Closer
<1> QED
  BY <1>2 DEF Requests, Untouched, Closer

LEMMA FetchesStay ==
    ASSUME NEW w, NEW k, NEW b, Fetches(w, k, b), NEW v, Untouched(v, w)
    PROVE  Fetches(v, k, b)
<1>1. MtLr \in Machine
  BY DEF Machine
<1> QED
  BY <1>1 DEF Fetches, Room, Untouched

\* Machine k has a request that waits: n is what it was in z.
QueuedIn(v, z, k, s, n) ==
    /\ With(v, z, k, n) /\ n.queued = TRUE /\ n.next = s
    /\ n.proto = z.mach[k].proto /\ n.session = z.mach[k].session
    /\ n.at = z.mach[k].at /\ n.stage = z.mach[k].stage /\ n.source = z.mach[k].source
    /\ n.run = z.mach[k].run /\ n.cancel = z.mach[k].cancel
    /\ n.pending = z.mach[k].pending /\ n.timers = z.mach[k].timers
    /\ n.answer = z.mach[k].answer /\ n.still = z.mach[k].still
    /\ n.locReq = z.mach[k].locReq /\ n.reason = z.mach[k].reason
    /\ n.recvd = z.mach[k].recvd /\ n.first = z.mach[k].first

LEMMA QueueIs ==
    ASSUME NEW w, Shaped(w), NEW k \in Machine, NEW s \in AllSessions \union {NoSession},
           NEW v, v = [w EXCEPT !.mach[k].queued = TRUE, !.mach[k].next = s]
    PROVE  \E n : QueuedIn(v, w, k, s, n)
<1>0. PICK n : n = [w.mach[k] EXCEPT !.queued = TRUE, !.next = s]
  OBVIOUS
<1> DEFINE m == w.mach[k]
           x == [m EXCEPT !.queued = TRUE]
<1>1. m \in State(k) /\ w.mach \in [Machine -> UNION {State(j) : j \in Machine}]
  BY DEF Shaped, Worlds
<1>2. v = [[w EXCEPT !.mach[k] = x] EXCEPT !.mach[k].next = s]
  BY DEF Put
<1>3. v = Put(Put(w, k, x), k, [Put(w, k, x).mach[k] EXCEPT !.next = s])
  BY <1>2 DEF Put
<1>4. Put(w, k, x).mach[k] = x
  BY MachTwice
<1>5. n = [x EXCEPT !.next = s]
  BY <1>0
<1>6. x \in State(k)
  BY <1>1, FlagsAre
<1> HIDE DEF x
<1>7. v = Put(w, k, n)
  <2>1. v = Put(Put(w, k, x), k, [x EXCEPT !.next = s])
    BY <1>3, <1>4
  <2>2. v = Put(Put(w, k, x), k, n)
    BY <1>5, <2>1
  <2>3. Put(Put(w, k, x), k, n) = Put(w, k, n)
    BY MachTwice
  <2> QED
    BY <2>2, <2>3
<1>8. n \in State(k)
  <2>1. [x EXCEPT !.next = s] \in State(k)
    BY <1>6, SessionIs
  <2> QED
    BY <1>5, <2>1
<1>9. With(v, w, k, n)
  <2>1. \A y \in State(k) : With(Put(w, k, y), w, k, y)
    BY MachIs DEF Put
  <2>2. With(Put(w, k, n), w, k, n)
    BY <1>8, <2>1
  <2> QED
    BY <1>7, <2>2
<1> HIDE DEF m
<1>10. /\ n.queued = TRUE /\ n.next = s
       /\ n.proto = m.proto /\ n.session = m.session /\ n.at = m.at /\ n.stage = m.stage
       /\ n.source = m.source /\ n.run = m.run /\ n.cancel = m.cancel
       /\ n.pending = m.pending /\ n.timers = m.timers /\ n.answer = m.answer
       /\ n.still = m.still /\ n.locReq = m.locReq /\ n.reason = m.reason
       /\ n.recvd = m.recvd /\ n.first = m.first
  BY <1>0, <1>1 DEF State, MachineState, m
<1> QED
  BY <1>9, <1>10 DEF m, QueuedIn

\* What is queued is no business of a machine.
LEMMA FitAlike ==
    ASSUME NEW k, NEW m, NEW n, NEW fa, NEW la, NEW pa, NEW lo, NEW ind, NEW u,
           Fit(k, m, fa, la, pa, lo, ind, u),
           n.proto = m.proto, n.at = m.at, n.stage = m.stage, n.source = m.source,
           n.run = m.run, n.cancel = m.cancel, n.pending = m.pending, n.timers = m.timers,
           n.answer = m.answer, n.still = m.still, n.locReq = m.locReq,
           n.reason = m.reason, n.recvd = m.recvd, n.first = m.first
    PROVE  Fit(k, n, fa, la, pa, lo, ind, u)
<1>1. Load(n) = Load(m) /\ (Moving(n) <=> Moving(m)) /\ (Cancelling(n) <=> Cancelling(m))
      /\ (Calm(n) <=> Calm(m))
  BY DEF Load, Moving, Cancelling, Calm
<1>2. Due(n) = Due(m)
  BY DEF Due
<1>3. (Gave(n) <=> Gave(m)) /\ (Asks(n, la, lo) <=> Asks(m, la, lo))
  BY <1>1 DEF Gave, Asks
<1>4. Serves(n, la, pa, lo, ind, u) <=> Serves(m, la, pa, lo, ind, u)
  BY <1>1, <1>2 DEF Serves
<1> QED
  BY <1>1, <1>3, <1>4 DEF Fit, Rest, Runs

\* s may wait on machine k.
MayWait(z, k, s) ==
    k # MtLr =>
        /\ s \in Session /\ Kind[s] = k /\ z.lbs[s] # "new" /\ s \notin z.locAsked
        /\ \A j \in Machine : z.mach[j].proto # "ready" => z.mach[j].session # s

LEMMA QueuedSound ==
    ASSUME NEW z, NEW a, Sound(z, a), NEW k \in Machine, NEW s, NEW n, NEW v,
           QueuedIn(v, z, k, s, n), MayWait(z, k, s)
    PROVE  Sound(v, a) /\ (AllReady(v) <=> AllReady(z))
<1>1. /\ Shaped(v) /\ Others(v, z) /\ v.mach[k] = n
      /\ \A j \in Machine \ {k} : v.mach[j] = z.mach[j]
  BY DEF QueuedIn, With
<1>2. \A j \in Machine :
         /\ v.mach[j].proto = z.mach[j].proto /\ v.mach[j].session = z.mach[j].session
         /\ v.mach[j].at = z.mach[j].at /\ v.mach[j].stage = z.mach[j].stage
         /\ v.mach[j].source = z.mach[j].source /\ v.mach[j].answer = z.mach[j].answer
         /\ v.mach[j].still = z.mach[j].still
  BY <1>1 DEF QueuedIn
<1>3. One(v) /\ (AllReady(v) <=> AllReady(z))
  BY <1>2 DEF Sound, One, AllReady
<1>4. Given(v) = Given(z) /\ \A t : Over(z, t) <=> Over(v, t)
  BY <1>1 DEF Given, Others, Over
<1>5. Owned(v)
  <2>1. \A j \in Machine : Past(v.mach[j]) <=> Past(z.mach[j])
    BY <1>2 DEF Past
  <2>2. ASSUME NEW j \in Machine, v.mach[j].proto # "ready"
        PROVE  Owns(j, v.mach[j], v)
    <3>1. Owns(j, z.mach[j], z)
      BY <1>2, <2>2 DEF Sound, Owned
    <3> QED
      BY <1>1, <1>2, <1>4, <2>1, <3>1 DEF Owns, Others
  <2> QED
    BY <2>2 DEF Owned
<1>6. Waiting(v)
  <2>1. ASSUME NEW j \in Originated, v.mach[j].queued
        PROVE  LET t == v.mach[j].next IN
               /\ t \in Session /\ Kind[t] = j /\ v.lbs[t] # "new" /\ t \notin v.locAsked
               /\ v.mach[j].proto # "ready" => v.mach[j].session # t
    <3>1. j \in Machine /\ j # MtLr
      BY DEF Machine, Originated, MtLr
    <3>2. CASE j = k
      BY <1>1, <1>2, <3>1, <3>2 DEF QueuedIn, MayWait, Others
    <3>3. CASE j # k
      BY <1>1, <1>2, <2>1, <3>1, <3>3 DEF Sound, Waiting, Others
    <3> QED
      BY <3>2, <3>3
  <2> QED
    BY <2>1 DEF Waiting
<1>7. Unused(v, a)
  BY <1>1, <1>4 DEF Sound, Unused, Others
<1>8. MtLr \in Machine
  BY DEF Machine
<1>9. Answered(v, a) /\ ~v.mach[MtLr].still
  BY <1>1, <1>2, <1>8 DEF Sound, Answered, Others
<1> QED
  BY <1>1, <1>3, <1>5, <1>6, <1>7, <1>9 DEF Sound

LEMMA QueuedHeld ==
    ASSUME NEW z, NEW k \in Machine, NEW s, Held(z, Session \ {s}), Follows(z), Known(z),
           NEW n, NEW v, QueuedIn(v, z, k, s, n), MayWait(z, k, s), s \in Session => Kind[s] = k,
           Replaces(z, k, s, Session), k # "x3p" => ~AllReady(z)
    PROVE  Held(v, Session) /\ Follows(v) /\ Known(v)
<1>1. /\ Shaped(v) /\ Others(v, z) /\ v.mach[k] = n
      /\ \A j \in Machine \ {k} : v.mach[j] = z.mach[j]
  BY DEF QueuedIn, With
<1>2. /\ \A j \in Machine : v.mach[j].proto = z.mach[j].proto
                            /\ v.mach[j].session = z.mach[j].session
      /\ v.lbs = z.lbs /\ v.op = z.op
  BY <1>1 DEF QueuedIn, Others
<1>3. \A t : Over(z, t) <=> Over(v, t)
  BY <1>2 DEF Over
<1>4. AllReady(v) <=> AllReady(z)
  BY <1>2 DEF AllReady
<1>5. Held(v, Session)
  <2>1. ASSUME NEW t \in Session, v.lbs[t] = "open"
        PROVE  Holds(v, t)
    <3>1. CASE t = s
      BY <1>1, <3>1 DEF Holds, QueuedIn
    <3>2. CASE t # s
      <4>1. Holds(z, t)
        BY <1>2, <2>1, <3>2 DEF Held
      <4>2. Kind[t] \in Machine
        BY ProtocolModuleAssumption DEF Machine
      <4>3. CASE z.mach[Kind[t]].queued /\ z.mach[Kind[t]].next = t
        <5>1. CASE Kind[t] = k
          BY <1>2, <1>3, <2>1, <3>2, <4>3, <5>1 DEF Replaces, Holds
        <5>2. CASE Kind[t] # k
          BY <1>1, <4>2, <4>3, <5>2 DEF Holds
        <5> QED
          BY <5>1, <5>2
      <4>4. CASE ~(z.mach[Kind[t]].queued /\ z.mach[Kind[t]].next = t)
        BY <1>2, <1>3, <4>1, <4>4 DEF Holds
      <4> QED
        BY <4>3, <4>4
    <3> QED
      BY <3>1, <3>2
  <2> QED
    BY <2>1 DEF Held
<1>6. Follows(v)
  BY <1>1, <1>4 DEF Follows
<1>7. Known(v)
  BY <1>2, <1>4 DEF Known
<1> QED
  BY <1>5, <1>6, <1>7

\* A request waits, which changes nothing else of this.
Queues(v, z, k) ==
    /\ v.used = z.used /\ v.mach[k].queued = TRUE
    /\ \A j \in Machine \ {k} : v.mach[j] = z.mach[j]

LEMMA QueueLives ==
    ASSUME NEW z, NEW k \in Machine, NEW s \in AllSessions \union {NoSession},
           NEW l, NEW a, Live(z, Session \ {s}, l, a), MayWait(z, k, s),
           s \in Session => Kind[s] = k,
           Replaces(z, k, s, Session), k # "x3p" => ~AllReady(z),
           NEW v, v = [z EXCEPT !.mach[k].queued = TRUE, !.mach[k].next = s]
    PROVE  Live(v, Session, l, a) /\ Queues(v, z, k)
<1>1. Shaped(z)
  BY DEF Live, Sound
<1>2. PICK n : QueuedIn(v, z, k, s, n)
  BY <1>1, QueueIs
<1>3. Sound(v, a) /\ (AllReady(v) <=> AllReady(z))
  BY <1>2, QueuedSound DEF Live
<1>4. Held(v, Session) /\ Follows(v) /\ Known(v)
  BY <1>2, QueuedHeld DEF Live
<1>5. Others(v, z) /\ v.mach[k] = n /\ \A j \in Machine \ {k} : v.mach[j] = z.mach[j]
  BY <1>2 DEF QueuedIn, With
<1>6. Fits(v, l, a)
  <2>1. FitIn(k, v, l, a)
    <3>1. FitIn(k, z, l, a)
      BY DEF Live, Fits
    <3> QED
      <4> DEFINE r == z.mach[k].session
                 la == r \in z.locAsked
                 pa == r \in z.privAsked
                 lo == r \in l
                 ind == r \in z.induced
                 u == IF r \in InternalSession THEN a[r] ELSE "unknown"
      <4>1. Fit(k, z.mach[k], z.fac, la, pa, lo, ind, u)
        BY <3>1 DEF FitIn
      <4> HIDE DEF la, pa, lo, ind, u
      <4>2. Fit(k, n, z.fac, la, pa, lo, ind, u)
        BY <1>2, <4>1, FitAlike DEF QueuedIn
      <4> QED
        BY <1>2, <1>5, <4>2 DEF FitIn, Others, QueuedIn, la, pa, lo, ind, u
  <2>2. \A j \in Machine \ {k} : FitIn(j, v, l, a)
    <3>1. \A j \in Machine : FitIn(j, z, l, a)
      BY DEF Live, Fits
    <3> QED
      BY <1>5, <3>1 DEF FitIn, Others
  <2>3. AllReady(v) => ~v.fac
    BY <1>3, <1>5 DEF Live, Fits, Others
  <2> QED
    BY <2>1, <2>2, <2>3 DEF Fits
<1>7. ~v.leftover /\ v.sent = {}
  BY <1>5 DEF Live, Others
<1> QED
  BY <1>2, <1>3, <1>4, <1>5, <1>6, <1>7 DEF Live, Others, QueuedIn, Queues

\* The request after the conflict, in world z: nothing runs.
LEMMA LaunchLives ==
    ASSUME NEW k \in Machine, NEW s, NEW l, NEW a,
           NEW z, Live(z, Session \ {s}, l, a), AllReady(z), MayWait(z, k, s),
           IF k = MtLr THEN s = NoSession ELSE s \in Session,
           Replaces(z, k, s, Session), NEW new \in Ops, new.kind \in Kinds(k),
           k = "x3p" => new.prio \in {"none", Priority[s]},
           NEW b \in Budget, Fetches(z, k, b)
    PROVE  /\ Live([Start(z, k, s) EXCEPT !.op = new], Session, l, a)
           /\ Room([Start(z, k, s) EXCEPT !.op = new], b)
<1> DEFINE v == [Start(z, k, s) EXCEPT !.op = new]
           S == Session \ {s}
           t == IdOf(z, k, s)
<1>0. /\ Shaped(z) /\ Sound(z, a) /\ Held(z, S) /\ Fits(z, l, a) /\ ~z.leftover /\ z.sent = {}
      /\ S \in SUBSET Session /\ b.mtlr \in Nat /\ b.measurement \in Nat
  BY DEF Live, Sound, Budget
<1>1. Startable(z, k, t)
  <2>1. CASE k = MtLr
    <3>1. z.used \in Nat /\ Len(Internal) \in Nat /\ B(z.mach[MtLr].queued) \in Nat
      BY <1>0, ProtocolModuleAssumption DEF Shaped, Worlds, B
    <3> QED
      BY <1>0, <2>1, <3>1 DEF Startable, IdOf, Fetches
  <2>2. CASE k # MtLr
    BY <2>2 DEF Startable, IdOf, MayWait
  <2> QED
    BY <2>1, <2>2
<1>2. Starts(v, z, k, t) /\ v.op = new
  <2>1. Begins(v, z, k, t, new)
    BY <1>0, <1>1, BeginIs
  <2> HIDE DEF v, t
  <2> QED
    BY <2>1 DEF Begins
<1>3. Suits(v.op, k, t)
  BY <1>2 DEF Suits, IdOf, MtLr
<1>4. Replaces(z, k, t, S)
  BY DEF Replaces, IdOf
<1>5. AtNull(z)
  BY <1>0, RestIsNull
<1>6. t \in AllSessions
  BY <1>0, <1>1, NextIs DEF Startable, IdOf, AllSessions
<1> HIDE DEF v, S, t
<1>7. Live(v, S, l, a) /\ Begun(v, z, k, t, S, a)
  BY <1>0, <1>1, <1>2, <1>3, <1>4, BeginLives
<1>8. Launched(v, z, k, t)
  BY <1>0, <1>2, <1>5, <1>6, StartsRuns
<1>9. s \in Session /\ v.lbs[s] = "open" => Holds(v, s)
  <2>1. s \in Session => k # MtLr /\ t = s
    BY ProtocolModuleAssumption DEF t, IdOf, AllSessions
  <2> QED
    BY <1>8, <2>1 DEF Holds, Launched
<1>10. Live(v, Session, l, a)
  BY <1>7, <1>9, LiveOne DEF S
<1>11. Room(v, b)
  <2>1. IF k = MtLr THEN z.used + 1 + b.mtlr + b.measurement <= Len(Internal)
        ELSE Room(z, b)
    <3>1. z.used \in Nat /\ Len(Internal) \in Nat /\ B(z.mach[MtLr].queued) \in Nat
      BY <1>0, ProtocolModuleAssumption DEF Shaped, Worlds, B
    <3> QED
      BY <1>0, <3>1 DEF Fetches
  <2> QED
    BY <1>7, <2>1 DEF Begun
<1> QED
  BY <1>10, <1>11 DEF v

LEMMA FetchesRoom ==
    ASSUME NEW z, Shaped(z), NEW k, NEW b \in Budget, Fetches(z, k, b)
    PROVE  Room(z, b)
<1>1. z.used \in Nat /\ Len(Internal) \in Nat /\ B(z.mach[MtLr].queued) \in Nat
      /\ b.mtlr \in Nat /\ b.measurement \in Nat
  BY ProtocolModuleAssumption DEF Shaped, Worlds, B, Budget
<1> QED
  BY <1>1 DEF Fetches, Room

\* LBS is told at once that there is no more to come.
LEMMA RefusedLives ==
    ASSUME NEW s \in Session, NEW l, NEW a, NEW z, Live(z, Session \ {s}, l, a),
           NEW b, Room(z, b)
    PROVE  /\ Live(SessionCompleteInd(z, s), Session, l, a)
           /\ Room(SessionCompleteInd(z, s), b)
<1> DEFINE v == SessionCompleteInd(z, s)
<1>0. Shaped(z) /\ Session \ {s} \in SUBSET Session
  BY DEF Live, Sound
<1>1. Heard(v, z) /\ v.lbs[s] = "completed"
  BY <1>0, CompleteHeard
<1> HIDE DEF v
<1>2. Lives(v, z, Session \ {s}, l, a)
  BY <1>0, <1>1, HeardLives
<1>3. Live(v, Session, l, a)
  BY <1>1, <1>2, LiveOne DEF Lives
<1>4. Room(v, b)
  BY <1>2 DEF Lives, Carried
<1> QED
  BY <1>3, <1>4 DEF v

LEMMA ServedLives ==
    ASSUME NEW k \in Machine, NEW s, NEW l, NEW a, NEW w, Live(w, Session \ {s}, l, a),
           NEW new, Requests(w, k, s, new), NEW b \in Budget, Fetches(w, k, b)
    PROVE  Live(Served(w, new, k, s), Session, l, a) /\ Room(Served(w, new, k, s), b)
<1> DEFINE r == ResolveConflict(w, new)
           z == r.world
           S == Session \ {s}
           v == Served(w, new, k, s)
<1>0. S \in SUBSET Session /\ NewIs(w, new)
  BY DEF Requests
<1>1. Settles(r, w, new, S, l, a)
  BY <1>0, ConflictSettles
<1>2. v = CASE r.result = "none" -> [Start(z, k, s) EXCEPT !.op = new]
            [] r.result = "reject" ->
                  IF k = MtLr THEN z ELSE SessionCompleteInd(z, s)
            [] OTHER -> [z EXCEPT !.mach[k].queued = TRUE, !.mach[k].next = s]
  BY DEF Served
<1> HIDE DEF r, v
<1>3. Live(z, S, l, a) /\ Untouched(z, w)
  BY <1>1 DEF Settles, Lives
<1>4. MayWait(z, k, s) /\ Replaces(z, k, s, Session) /\ Fetches(z, k, b)
  <2>1. Fetches(z, k, b)
    BY <1>3, FetchesStay
  <2> HIDE DEF z
  <2>2. /\ k # MtLr => /\ s \in Session /\ Kind[s] = k /\ z.lbs[s] # "new"
                       /\ s \notin z.locAsked
                       /\ \A j \in Machine : z.mach[j].proto # "ready" => z.mach[j].session # s
        /\ Replaces(z, k, s, Session)
    BY <1>3, RequestsStay
  <2> QED
    BY <2>1, <2>2 DEF MayWait
<1>5. /\ IF k = MtLr THEN s = NoSession ELSE s \in Session /\ Kind[s] = k
      /\ new \in Ops /\ new.kind \in Kinds(k)
      /\ k = "x3p" => new.prio \in {"none", Priority[s]}
  BY DEF Requests, NewIs, MtLr
<1>6. Shaped(z) /\ Room(z, b)
  BY <1>3, <1>4, FetchesRoom DEF Live, Sound
<1>7. CASE r.result = "none"
  <2>1. AllReady(z)
    BY <1>1, <1>7 DEF Settles
  <2>2. v = [Start(z, k, s) EXCEPT !.op = new]
    BY <1>2, <1>7
  <2> HIDE DEF z
  <2> QED
    BY <1>3, <1>4, <1>5, <2>1, <2>2, LaunchLives DEF v
<1>8. CASE r.result = "reject"
  <2>1. CASE k = MtLr
    <3>1. v = z /\ s \notin Session
      BY <1>2, <1>5, <1>8, <2>1, ProtocolModuleAssumption DEF AllSessions
    <3> HIDE DEF z
    <3> QED
      BY <1>3, <1>6, <3>1, LiveOne DEF v
  <2>2. CASE k # MtLr
    <3>1. v = SessionCompleteInd(z, s)
      BY <1>2, <1>8, <2>2
    <3> HIDE DEF z
    <3> QED
      BY <1>3, <1>5, <1>6, <2>2, <3>1, RefusedLives DEF v
  <2> QED
    BY <2>1, <2>2
<1>9. CASE r.result \notin {"none", "reject"}
  <2>1. v = [z EXCEPT !.mach[k].queued = TRUE, !.mach[k].next = s]
    BY <1>2, <1>9
  <2>2. k # "x3p" => ~AllReady(z)
    <3>1. k # "x3p" => new.kind # "x3p"
      BY <1>5 DEF Kinds
    <3> QED
      BY <1>1, <1>9, <3>1 DEF Settles
  <2>3. s \in AllSessions \union {NoSession} /\ (s \in Session => Kind[s] = k)
    BY <1>5, ProtocolModuleAssumption DEF AllSessions
  <2> HIDE DEF z
  <2>4. Live(v, Session, l, a) /\ Queues(v, z, k)
    BY <1>3, <1>4, <2>1, <2>2, <2>3, QueueLives
  <2>5. Room(v, b)
    <3>1. CASE k = MtLr
      <4>1. z.used \in Nat /\ Len(Internal) \in Nat
            /\ b.mtlr \in Nat /\ b.measurement \in Nat
        BY <1>6, ProtocolModuleAssumption DEF Shaped, Worlds, Budget
      <4>2. z.used + B(z.mach[MtLr].queued) + 1 + b.mtlr + b.measurement <= Len(Internal)
        BY <1>4, <3>1 DEF Fetches
      <4>3. v.used = z.used /\ B(v.mach[MtLr].queued) = 1 /\ B(z.mach[MtLr].queued) \in {0, 1}
        BY <2>4, <3>1 DEF B, Queues
      <4> HIDE DEF v
      <4>4. v.used + B(v.mach[MtLr].queued) + b.mtlr + b.measurement <= Len(Internal)
        BY <4>1, <4>2, <4>3
      <4> QED
        BY <4>4 DEF Room
    <3>2. CASE k # MtLr
      <4>1. v.mach[MtLr] = z.mach[MtLr]
        BY <2>4, <3>2 DEF Machine, Queues
      <4> QED
        BY <1>6, <2>4, <4>1 DEF Room, Queues
    <3> QED
      BY <3>1, <3>2
  <2> QED
    BY <2>4, <2>5 DEF v
<1> QED
  BY <1>7, <1>8, <1>9

\* A request that can be answered without the network, in a world where nothing
\* runs.
LEMMA AtOnceLives ==
    ASSUME NEW k \in Machine, NEW s \in Session, NEW l, NEW a, NEW w, Live(w, Session \ {s}, l, a),
           NEW new, Requests(w, k, s, new), NEW b \in Budget, Fetches(w, k, b)
    PROVE  LET z == ResolveConflict(w, new).world IN
           /\ Live(SessionCompleteInd(z, s), Session, l, a)
           /\ Room(SessionCompleteInd(z, s), b)
<1> DEFINE r == ResolveConflict(w, new)
           z == r.world
           S == Session \ {s}
<1>0. S \in SUBSET Session /\ NewIs(w, new)
  BY DEF Requests
<1>1. Settles(r, w, new, S, l, a)
  BY <1>0, ConflictSettles
<1> HIDE DEF r
<1>2. Live(z, S, l, a) /\ Untouched(z, w)
  BY <1>1 DEF Settles, Lives
<1>3. Fetches(z, k, b)
  BY <1>2, FetchesStay
<1>4. Room(z, b)
  BY <1>2, <1>3, FetchesRoom DEF Live, Sound
<1> HIDE DEF z
<1>5. Live(SessionCompleteInd(z, s), Session, l, a) /\ Room(SessionCompleteInd(z, s), b)
  BY <1>2, <1>4, RefusedLives
<1> QED
  BY <1>5 DEF z, r

-----------------------------------------------------------------------------
(***************************************************************************)
(* LBS opens a session.                                                    *)
(***************************************************************************)

\* It may: s is new, and takes the place of no other one but a lower X3P.
CanOpen(w, s) ==
    /\ w.lbs[s] = "new"
    /\ \A t \in Session : w.lbs[t] = "open" /\ Kind[t] = Kind[s] =>
          Kind[s] = "x3p" /\ Priority[t] # "high"

LEMMA OpenedLives ==
    ASSUME NEW l, NEW a, NEW w, Live(w, Session, l, a), NEW s \in Session, CanOpen(w, s),
           NEW v, Tells(v, w, s, "open")
    PROVE  Live(v, Session \ {s}, l, a) /\ \A b : Room(w, b) => Room(v, b)
<1>0. /\ Shaped(w) /\ Shaped(v) /\ v.mach = w.mach /\ v.op = w.op /\ v.used = w.used
      /\ v.fac = w.fac /\ v.locAsked = w.locAsked /\ v.privAsked = w.privAsked
      /\ v.induced = w.induced /\ v.leftover = w.leftover /\ v.sent = w.sent
  BY DEF Tells, Live, Sound
<1>1. v.lbs[s] = "open" /\ w.lbs[s] = "new" /\ \A t \in Session \ {s} : v.lbs[t] = w.lbs[t]
  BY DEF Tells, CanOpen
<1>2. \A t : Over(w, t) => Over(v, t)
  BY <1>1 DEF Over
<1>3. Given(v) = Given(w) /\ (AllReady(v) <=> AllReady(w)) /\ (One(v) <=> One(w))
  BY <1>0 DEF Given, AllReady, One
<1>4. Sound(v, a)
  <2>1. Owned(v)
    BY <1>0, <1>1, <1>2, <1>3 DEF Live, Sound, Owned, Owns
  <2>2. Waiting(v)
    BY <1>0, <1>1 DEF Live, Sound, Waiting
  <2>3. Unused(v, a)
    <3>1. Unused(w, a)
      BY DEF Live, Sound
    <3> QED
      BY <1>0, <1>1, <1>3, <3>1 DEF Unused
  <2> QED
    BY <1>0, <1>3, <2>1, <2>2, <2>3 DEF Live, Sound, Answered
<1>5. Known(v) /\ Follows(v) /\ \A b : Room(w, b) => Room(v, b)
  BY <1>0, <1>3 DEF Live, Known, Follows, Room
<1>6. Held(v, Session \ {s})
  BY <1>0, <1>1, <1>2 DEF Live, Held, Holds
<1>7. Fits(v, l, a)
  BY <1>0, <1>3 DEF Live, Fits, FitIn
<1> QED
  BY <1>0, <1>4, <1>5, <1>6, <1>7 DEF Live

\* z is that world, but for what is known of assistance data.
AskedAlone(z, v) ==
    /\ z.lbs = v.lbs /\ z.locAsked = v.locAsked
    /\ \A j \in Machine : Assisted(z.mach[j], v.mach[j])

\* A request for assistance data changes what is missing, and perhaps asks.
LEMMA DataRequestLives ==
    ASSUME NEW S \in SUBSET Session, NEW w, NEW l, NEW a, Live(w, S, l, a),
           NEW lacks \in BOOLEAN, NEW invalid \in BOOLEAN,
           NEW z, z = DataRequest(w, lacks, invalid)
    PROVE  Lives(z, w, S, l, a) /\ AskedAlone(z, w)
<1> DEFINE n == [w EXCEPT !.missing = lacks]
           d == DoAssistanceDataActions(n)
<1>1. z = IF invalid THEN d ELSE n
  BY DEF DataRequest
<1>2. DataAlone(n, w)
  BY DataAre DEF Live, Sound
<1> HIDE DEF n
<1>3. Lives(n, w, S, l, a)
  BY <1>2, DataLives DEF DataAlone
<1>4. AskedAlone(n, w)
  BY <1>2 DEF AskedAlone, Assisted, DataAlone, Data
<1>5. Live(n, S, l, a)
  BY <1>3 DEF Lives
<1>6. Lives(d, n, S, l, a)
  BY <1>5, DoAssistLives
<1>7. Asked(d, n)
  BY <1>5, DoAssistIs DEF Live, Sound
<1> HIDE DEF d
<1>8. Lives(d, w, S, l, a)
  BY <1>3, <1>6, LivesTwice
<1>9. AskedAlone(d, w)
  BY <1>2, <1>7 DEF AskedAlone, Asked, DataAlone, Data
<1> QED
  BY <1>1, <1>3, <1>4, <1>8, <1>9

LEMMA OpenedRequests ==
    ASSUME NEW l, NEW a, NEW w, Live(w, Session, l, a), NEW s \in Session, CanOpen(w, s),
           NEW v, Tells(v, w, s, "open"), NEW z, AskedAlone(z, v),
           NEW new \in Ops, new.kind = Kind[s],
           Kind[s] = "x3p" => new.prio \in {"none", Priority[s]}
    PROVE  Requests(z, Kind[s], s, new)
<1>0. /\ z.locAsked = w.locAsked
      /\ z.lbs[s] = "open" /\ w.lbs[s] = "new"
      /\ \A t \in Session \ {s} : z.lbs[t] = w.lbs[t]
      /\ \A j \in Machine : z.mach[j].proto = w.mach[j].proto
                             /\ z.mach[j].session = w.mach[j].session
  <2>1. v.mach = w.mach /\ \A j \in Machine : w.mach[j] \in State(j)
    BY DEF Tells, Live, Sound, Shaped
  <2>2. \A j \in Machine : Same(z.mach[j], w.mach[j])
    BY <2>1, AssistedIsSame DEF AskedAlone
  <2> QED
    BY <2>2 DEF AskedAlone, Same, Tells, CanOpen
<1>1. Kind[s] \in Machine /\ Kind[s] # MtLr /\ s \notin InternalSession
  BY ProtocolModuleAssumption DEF Machine, Originated, MtLr
<1>2. s \notin z.locAsked
  BY <1>0 DEF Live, Sound, Unused
<1>3. \A j \in Machine : z.mach[j].proto # "ready" => z.mach[j].session # s
  <2>1. ASSUME NEW j \in Machine, w.mach[j].proto # "ready"
        PROVE  w.mach[j].session # s
    <3>1. Owns(j, w.mach[j], w)
      BY <2>1 DEF Live, Sound, Owned
    <3>2. Given(w) \subseteq InternalSession
      BY GivenAreInternal DEF Live, Sound
    <3> QED
      BY <1>0, <1>1, <3>1, <3>2 DEF Owns
  <2> QED
    BY <1>0, <2>1
<1>4. NewIs(z, new)
  <2>1. "x3p" \in Machine
    BY DEF Machine, Originated
  <2> QED
    BY <1>0, <1>3, <2>1 DEF NewIs
<1>5. Replaces(z, Kind[s], s, Session)
  <2>1. ASSUME NEW t \in Session \ {s}, z.lbs[t] = "open", Kind[t] = Kind[s]
        PROVE  Over(z, t)
    BY <1>0, <2>1 DEF Over, CanOpen
  <2> QED
    BY <2>1 DEF Replaces
<1>6. new.kind \in Kinds(Kind[s])
  BY DEF Kinds
<1> QED
  BY <1>0, <1>1, <1>2, <1>3, <1>4, <1>5, <1>6 DEF Requests


\* x is w with s open, and z is x with assistance data asked for perhaps.
OpensTo(z, x, w, s, l, a) ==
    /\ Live(z, Session \ {s}, l, a) /\ Live(x, Session \ {s}, l, a)
    /\ \A b : Room(w, b) => Room(z, b) /\ Room(x, b)
    /\ Tells(x, w, s, "open")
    /\ AskedAlone(z, x)

LEMMA OpenedData ==
    ASSUME NEW l, NEW a, NEW w, Live(w, Session, l, a), NEW s \in Session, CanOpen(w, s),
           NEW lacks \in BOOLEAN, NEW invalid \in BOOLEAN,
           NEW x, x = [w EXCEPT !.lbs[s] = "open"],
           NEW z, z = DataRequest(x, lacks, invalid)
    PROVE  OpensTo(z, x, w, s, l, a)
<1>0. Session \ {s} \in SUBSET Session /\ Shaped(w)
  BY DEF Live, Sound
<1>1. Tells(x, w, s, "open")
  <2>1. Tells([w EXCEPT !.lbs[s] = "open"], w, s, "open")
    BY <1>0, LbsIs
  <2> QED
    BY <2>1
<1>2. Live(x, Session \ {s}, l, a) /\ \A b : Room(w, b) => Room(x, b)
  BY <1>1, OpenedLives
<1>3. Lives(z, x, Session \ {s}, l, a) /\ AskedAlone(z, x)
  BY <1>0, <1>2, DataRequestLives
<1> QED
  BY <1>1, <1>2, <1>3 DEF OpensTo, Lives, Carried

LEMMA RequestLives ==
    ASSUME NEW l, NEW a, NEW w, Live(w, Session, l, a), NEW s \in Session, CanOpen(w, s),
           NEW v, Tells(v, w, s, "open"), NEW z, AskedAlone(z, v),
           Live(z, Session \ {s}, l, a), \A b : Room(w, b) => Room(z, b),
           NEW new \in Ops, NEW k, k = Kind[s], new.kind = k,
           k = "x3p" => new.prio \in {"none", Priority[s]},
           NEW b \in Budget, Room(w, b)
    PROVE  /\ Live(Served(z, new, k, s), Session, l, a) /\ Room(Served(z, new, k, s), b)
           /\ Live(SessionCompleteInd(ResolveConflict(z, new).world, s), Session, l, a)
           /\ Room(SessionCompleteInd(ResolveConflict(z, new).world, s), b)
<1>1. Requests(z, k, s, new)
  BY OpenedRequests
<1>2. k \in Machine /\ k # MtLr
  BY ProtocolModuleAssumption DEF Machine, Originated, MtLr
<1>3. Fetches(z, k, b)
  BY <1>2 DEF Fetches
<1>4. Live(Served(z, new, k, s), Session, l, a) /\ Room(Served(z, new, k, s), b)
  BY <1>1, <1>2, <1>3, ServedLives
<1>5. /\ Live(SessionCompleteInd(ResolveConflict(z, new).world, s), Session, l, a)
      /\ Room(SessionCompleteInd(ResolveConflict(z, new).world, s), b)
  BY <1>1, <1>2, <1>3, AtOnceLives
<1> QED
  BY <1>4, <1>5

-----------------------------------------------------------------------------
(***************************************************************************)
(* The invariant.  After a procedure that left entries in its queue the    *)
(* machines are not fit any more, and the behaviours end.                  *)
(***************************************************************************)

Lasts(w, l, a) ==
    /\ Sound(w, a) /\ Known(w) /\ Held(w, Session) /\ Follows(w)
    /\ ~w.leftover => Fits(w, l, a)

AnswersAreGiven ==
    /\ located \subseteq AllSessions
    /\ answer \in [InternalSession -> Answer]

Inv ==
    /\ Lasts(World, located, answer)
    /\ AnswersAreGiven /\ budget \in Budget
    /\ ~leftover => Room(World, budget)
    /\ sent \subseteq AllSessions \X {"position", "accepted"}
    /\ Consent

LEMMA WorldIs ==
    /\ World.mach = mach /\ World.op = op /\ World.tracking = tracking
    /\ World.missing = missing /\ World.expecting = expecting /\ World.used = used
    /\ World.fac = fac /\ World.lbs = lbs /\ World.locAsked = locAsked
    /\ World.privAsked = privAsked /\ World.induced = induced
    /\ World.leftover = leftover /\ World.sent = {}
BY DEF World

LEMMA InvIsLive ==
    ASSUME Inv, ~leftover
    PROVE  Live(World, Session, located, answer) /\ Room(World, budget)
BY WorldIs DEF Inv, Lasts, Live

\* v is w but for what was sent.
Silently(v, w) ==
    /\ Shaped(v) /\ v.mach = w.mach /\ v.op = w.op /\ v.used = w.used /\ v.lbs = w.lbs
    /\ v.locAsked = w.locAsked /\ v.privAsked = w.privAsked /\ v.induced = w.induced
    /\ v.leftover = w.leftover /\ v.fac = w.fac

LEMMA SilentlyLasts ==
    ASSUME NEW w, NEW l, NEW a, Lasts(w, l, a), NEW v, Silently(v, w)
    PROVE  Lasts(v, l, a) /\ \A b : Room(w, b) => Room(v, b)
<1>1. /\ Given(v) = Given(w) /\ (AllReady(v) <=> AllReady(w)) /\ (One(v) <=> One(w))
      /\ \A t : Over(w, t) <=> Over(v, t)
  BY DEF Silently, Given, AllReady, One, Over
<1>2. Owned(v)
  BY <1>1 DEF Silently, Lasts, Sound, Owned, Owns
<1>3. Waiting(v) /\ Answered(v, a)
  BY DEF Silently, Lasts, Sound, Waiting, Answered
<1>4. Unused(v, a)
  <2>1. Unused(w, a)
    BY DEF Lasts, Sound
  <2> QED
    BY <1>1, <2>1 DEF Silently, Unused
<1>5. Sound(v, a)
  BY <1>1, <1>2, <1>3, <1>4 DEF Silently, Lasts, Sound
<1>6. Known(v) /\ Follows(v) /\ \A b : Room(w, b) => Room(v, b)
  BY <1>1 DEF Silently, Lasts, Known, Follows, Room
<1>7. Held(v, Session)
  <2>1. \A t : Holds(w, t) => Holds(v, t)
    BY <1>1 DEF Silently, Holds
  <2> QED
    BY <2>1 DEF Silently, Lasts, Held
<1>8. ~v.leftover => Fits(v, l, a)
  BY <1>1 DEF Silently, Lasts, Fits, FitIn
<1> QED
  BY <1>5, <1>6, <1>7, <1>8 DEF Lasts

LEMMA BecomeIs ==
    ASSUME NEW v, Shaped(v), Become(v)
    PROVE  Silently(World', v) /\ sent' = v.sent
<1>1. /\ mach' = v.mach /\ op' = v.op /\ tracking' = v.tracking
      /\ missing' = v.missing /\ expecting' = v.expecting /\ used' = v.used
      /\ fac' = v.fac /\ lbs' = v.lbs /\ locAsked' = v.locAsked
      /\ privAsked' = v.privAsked /\ induced' = v.induced
      /\ leftover' = v.leftover /\ sent' = v.sent
  BY DEF Become
<1>2. World' =
        [mach |-> v.mach, op |-> v.op, tracking |-> v.tracking, missing |-> v.missing,
         expecting |-> v.expecting, used |-> v.used, fac |-> v.fac, lbs |-> v.lbs,
         locAsked |-> v.locAsked, privAsked |-> v.privAsked, induced |-> v.induced,
         leftover |-> v.leftover, sent |-> {}]
  BY <1>1 DEF World
<1>3. Shaped(World')
  BY <1>2 DEF Shaped, Worlds
<1> QED
  BY <1>1, <1>2, <1>3 DEF Silently

\* A step in which nothing is sent.
LEMMA StepIs ==
    ASSUME NEW v, Become(v), Live(v, Session, located', answer'),
           AnswersAreGiven', budget' \in Budget, Room(v, budget')
    PROVE  Inv'
<1>1. Shaped(v) /\ v.sent = {} /\ Lasts(v, located', answer')
  BY DEF Live, Sound, Lasts
<1>2. Silently(World', v) /\ sent' = {}
  BY <1>1, BecomeIs
<1>3. Lasts(World', located', answer') /\ Room(World', budget')
  BY <1>1, <1>2, SilentlyLasts
<1>4. Consent'
  BY <1>2 DEF Consent
<1> QED
  BY <1>2, <1>3, <1>4 DEF Inv

LEMMA InitInv ==
    ASSUME Init
    PROVE  Inv
<1>0. /\ World.mach = [k \in Machine |-> NewMachine] /\ World.op = NoOp /\ World.used = 0
      /\ World.fac = FALSE /\ World.lbs = [s \in Session |-> "new"]
      /\ World.locAsked = {} /\ World.privAsked = {} /\ World.induced = {}
      /\ World.leftover = FALSE /\ World.sent = {} /\ World.tracking = FALSE
      /\ World.missing = FALSE /\ World.expecting = FALSE
      /\ located = {} /\ answer = [s \in InternalSession |-> "unknown"]
      /\ sent = {} /\ leftover = FALSE /\ budget \in Budgets
  BY WorldIs DEF Init
<1>1. \A k \in Machine : NewMachine \in State(k)
  BY DEF NewMachine, State, MachineState, MtLrState, OriginatedState, Source, Reason, Answer,
         KMaxQueueEntry
<1>2. /\ NewMachine.proto = "ready" /\ NewMachine.at = "null" /\ NewMachine.stage = "null"
      /\ NewMachine.run = FALSE /\ NewMachine.cancel = FALSE /\ NewMachine.pending = 0
      /\ NewMachine.timers = {} /\ NewMachine.queued = FALSE /\ NewMachine.still = FALSE
      /\ NewMachine.answer = "unknown"
  BY DEF NewMachine
<1>3. \A k \in Machine : World.mach[k] = NewMachine
  BY <1>0
<1>4. MtLr \in Machine /\ Originated \subseteq Machine
  BY DEF Machine
<1>5. Shaped(World)
  <2>1. Len(Internal) \in Nat
    BY ProtocolModuleAssumption
  <2>2. World.mach \in [Machine -> UNION {State(k) : k \in Machine}]
    BY <1>0, <1>1
  <2>3. World.op \in Ops
    BY <1>0 DEF NoOp, Ops
  <2>4. World \in Worlds
    <3>1. World = [mach |-> World.mach, op |-> World.op, tracking |-> World.tracking,
                   missing |-> World.missing, expecting |-> World.expecting,
                   used |-> World.used, fac |-> World.fac, lbs |-> World.lbs,
                   locAsked |-> World.locAsked, privAsked |-> World.privAsked,
                   induced |-> World.induced, leftover |-> World.leftover, sent |-> {}]
      BY DEF World
    <3>2. World.lbs \in [Session -> {"new", "open", "cancelled", "completed"}]
      BY <1>0
    <3>3. World.used \in 0..Len(Internal)
      BY <1>0, <2>1
    <3>4. /\ World.tracking \in BOOLEAN /\ World.missing \in BOOLEAN
          /\ World.expecting \in BOOLEAN /\ World.fac \in BOOLEAN /\ World.leftover \in BOOLEAN
          /\ World.locAsked \in SUBSET AllSessions /\ World.privAsked \in SUBSET InternalSession
          /\ World.induced \in SUBSET InternalSession
      BY <1>0
    <3> QED
      BY <2>2, <2>3, <3>1, <3>2, <3>3, <3>4 DEF Worlds
  <2> QED
    BY <1>1, <1>3, <2>4 DEF Shaped
<1>6. Sound(World, answer)
  BY <1>0, <1>2, <1>3, <1>4, <1>5 DEF Sound, One, Owned, Waiting, Unused, Answered
<1>7. Known(World) /\ Follows(World) /\ Held(World, Session)
  BY <1>0, <1>2, <1>3 DEF Known, Follows, Held
<1>8. Fits(World, located, answer)
  BY <1>0, <1>2, <1>3 DEF Fits, FitIn, Fit, Rest
<1>9. Room(World, budget) /\ budget \in Budget
  <2>1. budget \in Budget /\ budget.mtlr + budget.measurement <= Len(Internal)
    BY <1>0, ProtocolModuleAssumption
  <2>2. World.used + B(World.mach[MtLr].queued) = 0
    BY <1>0, <1>2, <1>3, <1>4 DEF B
  <2>3. budget.mtlr \in Nat /\ budget.measurement \in Nat
    BY <2>1 DEF Budget
  <2> QED
    BY <1>0, <1>2, <1>3, <1>4, <2>1, <2>3 DEF Room, B
<1>10. AnswersAreGiven
  BY <1>0 DEF AnswersAreGiven, Answer
<1> QED
  BY <1>0, <1>6, <1>7, <1>8, <1>9, <1>10 DEF Inv, Lasts, Consent

-----------------------------------------------------------------------------
(***************************************************************************)
(* The steps.                                                              *)
(***************************************************************************)

\* What holds before a step.
Begin ==
    /\ Live(World, Session, located, answer) /\ Room(World, budget) /\ Shaped(World)
    /\ AnswersAreGiven /\ budget \in Budget

LEMMA BeginIsSo ==
    ASSUME Inv, ~leftover
    PROVE  Begin
BY InvIsLive DEF Begin, Inv, Live, Sound

LEMMA SpendsDataIs ==
    ASSUME Begin, NEW asks \in BOOLEAN, SpendsData(asks)
    PROVE  budget' \in Budget /\ Room(World, budget')
<1>1. budget.data \in Nat /\ (asks => budget.data - 1 \in Nat)
  BY DEF Begin, Budget, SpendsData
<1>2. budget' = [budget EXCEPT !.data = IF asks THEN budget.data - 1 ELSE budget.data]
  BY DEF SpendsData
<1>3. /\ budget' \in Budget
      /\ budget'.mtlr = budget.mtlr /\ budget'.measurement = budget.measurement
  BY <1>1, <1>2 DEF Begin, Budget
<1> QED
  BY <1>3 DEF Begin, Room

LEMMA OpensIs ==
    ASSUME NEW s \in Session, Opens(s)
    PROVE  CanOpen(World, s)
BY WorldIs DEF Opens, CanOpen

LEMMA SelfLocationReqInv ==
    ASSUME Inv, ~leftover, NEW s \in Session, NEW lacks \in BOOLEAN,
           NEW invalid \in BOOLEAN, NEW atOnce \in BOOLEAN,
           SelfLocationReq(s, lacks, invalid, atOnce)
    PROVE  Inv'
<1> DEFINE new == [kind |-> "molr", prio |-> "none"]
           x == [World EXCEPT !.lbs[s] = "open"]
           z == DataRequest(x, lacks, invalid)
           asks == invalid \/ lacks # missing
           u == SessionCompleteInd(ResolveConflict(z, new).world, s)
           v == IF atOnce /\ ResolveConflict(z, new).result = "none" THEN u
                ELSE Served(z, new, "molr", s)
<1>1. Begin
  BY BeginIsSo
<1>2. /\ Kind[s] = "molr" /\ Opens(s) /\ SpendsData(asks) /\ Become(v)
      /\ located' = located /\ answer' = answer
  BY DEF SelfLocationReq, Opened
<1>3. budget' \in Budget /\ Room(World, budget')
  <2>1. asks \in BOOLEAN
    OBVIOUS
  <2> HIDE DEF asks
  <2> QED
    BY <1>1, <1>2, <2>1, SpendsDataIs
<1>4. CanOpen(World, s) /\ Live(World, Session, located, answer)
  BY <1>1, <1>2, OpensIs DEF Begin
<1>5. new \in Ops /\ new.kind = "molr"
  BY DEF Ops, Machine, Originated
<1> HIDE DEF new
<1>6. /\ Live(z, Session \ {s}, located, answer) /\ \A b : Room(World, b) => Room(z, b)
      /\ Tells(x, World, s, "open") /\ AskedAlone(z, x)
  <2>1. OpensTo(z, x, World, s, located, answer)
    BY <1>4, OpenedData
  <2> HIDE DEF x, z
  <2> QED
    BY <2>1 DEF OpensTo
<1> HIDE DEF x, z
<1>7. /\ Live(Served(z, new, "molr", s), Session, located, answer)
      /\ Room(Served(z, new, "molr", s), budget')
      /\ Live(u, Session, located, answer) /\ Room(u, budget')
  BY <1>2, <1>3, <1>4, <1>5, <1>6, RequestLives
<1> HIDE DEF u
<1>8. Live(v, Session, located', answer') /\ Room(v, budget')
  BY <1>2, <1>7
<1> HIDE DEF v
<1> QED
  BY <1>1, <1>2, <1>3, <1>8, StepIs DEF AnswersAreGiven, Begin

\* The two other requests of LBS.
LEMMA PlainRequestInv ==
    ASSUME Inv, ~leftover, NEW s \in Session, Opens(s), NEW k, k = Kind[s],
           NEW new \in Ops, new.kind = k, k = "x3p" => new.prio \in {"none", Priority[s]},
           Become(Served(Opened(s), new, k, s)), UNCHANGED <<located, answer, budget>>
    PROVE  Inv'
<1> DEFINE x == Opened(s)
           v == Served(x, new, k, s)
<1>1. Begin
  BY BeginIsSo
<1>2. x = [World EXCEPT !.lbs[s] = "open"]
  BY DEF Opened
<1>3. CanOpen(World, s) /\ Live(World, Session, located, answer) /\ Room(World, budget)
      /\ budget \in Budget
  BY <1>1, OpensIs DEF Begin
<1> HIDE DEF x
<1>4. /\ Live(x, Session \ {s}, located, answer) /\ \A b : Room(World, b) => Room(x, b)
      /\ Tells(x, World, s, "open")
  <2>1. OpensTo(DataRequest(x, TRUE, FALSE), x, World, s, located, answer)
    BY <1>2, <1>3, OpenedData
  <2> QED
    BY <2>1 DEF OpensTo
<1>5. Live(v, Session, located, answer) /\ Room(v, budget)
  <2>1. AskedAlone(x, x)
    BY DEF AskedAlone, Assisted
  <2> QED
    BY <1>3, <1>4, <2>1, RequestLives
<1>6. Become(v)
  BY DEF x
<1> HIDE DEF v
<1> QED
  BY <1>1, <1>3, <1>5, <1>6, StepIs DEF AnswersAreGiven, Begin

LEMMA NetworkBasedLocationReqInv ==
    ASSUME Inv, ~leftover, NEW s \in Session, NetworkBasedLocationReq(s)
    PROVE  Inv'
<1> DEFINE new == [kind |-> "netloc", prio |-> "none"]
<1>1. new \in Ops /\ new.kind = "netloc"
  BY DEF Ops, Machine, Originated
<1>2. /\ Kind[s] = "netloc" /\ Opens(s) /\ Become(Served(Opened(s), new, "netloc", s))
      /\ UNCHANGED <<located, answer, budget>>
  BY DEF NetworkBasedLocationReq
<1> HIDE DEF new
<1> QED
  BY <1>1, <1>2, PlainRequestInv

LEMMA TransmitLocationReqInv ==
    ASSUME Inv, ~leftover, NEW s \in Session, TransmitLocationReq(s)
    PROVE  Inv'
<1> DEFINE new == [kind |-> "x3p", prio |-> Priority[s]]
<1>1. new \in Ops /\ new.kind = "x3p" /\ new.prio = Priority[s]
  <2>1. Priority[s] \in {"low", "medium", "high", "none"}
    BY ProtocolModuleAssumption
  <2> QED
    BY <2>1 DEF Ops, Machine, Originated
<1>2. /\ Kind[s] = "x3p" /\ Opens(s) /\ Become(Served(Opened(s), new, "x3p", s))
      /\ UNCHANGED <<located, answer, budget>>
  BY DEF TransmitLocationReq
<1> HIDE DEF new
<1> QED
  BY <1>1, <1>2, PlainRequestInv

\* A step after which as many may come, in a world that lives.
LEMMA LivesInv ==
    ASSUME Begin, NEW v, Become(v), NEW l2, NEW a2, Lives(v, World, Session, l2, a2),
           l2 = located', a2 = answer', AnswersAreGiven',
           budget' \in Budget, Room(World, budget')
    PROVE  Inv'
<1>1. Live(v, Session, located', answer') /\ Room(v, budget')
  BY DEF Lives, Carried
<1> QED
  BY <1>1, StepIs

LEMMA CompleteIndInv ==
    ASSUME Inv, ~leftover, NEW s \in Session, CompleteInd(s)
    PROVE  Inv'
<1> DEFINE w == [World EXCEPT !.lbs[s] = "cancelled"]
           k == Kind[s]
           m == w.mach[k]
           v == IF mach[k].proto = "active" /\ mach[k].session = s
                THEN [w EXCEPT !.mach[k] = CancelMachine(w.mach[k], "client")] ELSE w
<1>1. Begin
  BY BeginIsSo
<1>2. lbs[s] = "open" /\ Become(v) /\ UNCHANGED <<located, answer, budget>>
  BY DEF CompleteInd
<1>3. k \in Machine
  BY ProtocolModuleAssumption DEF Machine
<1> HIDE DEF k
<1>4. Tells(w, World, s, "cancelled") /\ World.lbs[s] = "open" /\ World.mach = mach
  BY <1>1, <1>2, LbsIs, WorldIs DEF Begin
<1> HIDE DEF w
<1>5. Heard(w, World)
  BY <1>4 DEF Heard, Tells, Closer
<1>6. Lives(w, World, Session, located, answer)
  BY <1>1, <1>5, HeardLives DEF Begin
<1>7. w.mach = mach
  BY <1>4 DEF Tells
<1>8. Lives(v, World, Session, located, answer)
  <2>1. CASE mach[k].proto = "active" /\ mach[k].session = s
    <3>1. v = [w EXCEPT !.mach[k] = CancelMachine(w.mach[k], "client")]
      BY <2>1
    <3>2. w.mach[k].proto = "active" /\ Live(w, Session, located, answer)
      BY <1>6, <1>7, <2>1 DEF Lives
    <3> HIDE DEF v
    <3>3. Lives(v, w, Session, located, answer)
      BY <1>3, <3>1, <3>2, CancelLives DEF Source
    <3> QED
      BY <1>6, <3>3, LivesTwice
  <2>2. CASE ~(mach[k].proto = "active" /\ mach[k].session = s)
    BY <1>6, <2>2
  <2> QED
    BY <2>1, <2>2
<1> HIDE DEF v
<1> QED
  BY <1>1, <1>2, <1>8, LivesInv DEF AnswersAreGiven, Begin

LEMMA SystemStatusIndInv ==
    ASSUME Inv, ~leftover, NEW on \in BOOLEAN, SystemStatusInd(on)
    PROVE  Inv'
<1> DEFINE v == [World EXCEPT !.tracking = on]
<1>1. Begin
  BY BeginIsSo
<1>2. /\ budget.tracking > 0 /\ Become(v) /\ located' = located /\ answer' = answer
      /\ budget' = [budget EXCEPT !.tracking = budget.tracking - 1]
  BY DEF SystemStatusInd
<1>3. DataAlone(v, World)
  BY <1>1, DataAre DEF Begin
<1> HIDE DEF v
<1>4. Lives(v, World, Session, located, answer)
  BY <1>1, <1>3, DataLives DEF Begin, DataAlone
<1>5. budget' \in Budget /\ Room(World, budget')
  BY <1>1, <1>2 DEF Begin, Budget, Room
<1> QED
  BY <1>1, <1>2, <1>4, <1>5, LivesInv DEF AnswersAreGiven, Begin

LEMMA AssistanceDataRequestedInv ==
    ASSUME Inv, ~leftover, NEW lacks \in BOOLEAN, NEW invalid \in BOOLEAN,
           AssistanceDataRequested(lacks, invalid)
    PROVE  Inv'
<1> DEFINE w == DataRequest(World, lacks, invalid)
           k == Active(w)
           v == IF invalid THEN w
                ELSE IF k = "none" THEN DoAssistanceDataActions(w)
                ELSE [w EXCEPT !.mach[k] = AssistanceDataReq(w.mach[k])]
<1>1. Begin
  BY BeginIsSo
<1>2. SpendsData(TRUE) /\ Become(v) /\ located' = located /\ answer' = answer
  BY DEF AssistanceDataRequested
<1>3. budget' \in Budget /\ Room(World, budget')
  BY <1>1, <1>2, SpendsDataIs
<1>4. Lives(w, World, Session, located, answer)
  BY <1>1, DataRequestLives DEF Begin
<1> HIDE DEF w
<1>5. Live(w, Session, located, answer)
  BY <1>4 DEF Lives
<1>6. Lives(v, w, Session, located, answer)
  <2>1. CASE ~invalid /\ k = "none"
    BY <1>5, <2>1, DoAssistLives
  <2>2. CASE ~invalid /\ k # "none"
    <3>1. k \in Machine /\ w.mach[k].proto = "active"
      BY <2>2, ActiveIs
    <3> DEFINE n == AssistanceDataReq(w.mach[k])
    <3>2. v = [w EXCEPT !.mach[k] = n]
      BY <2>2
    <3> HIDE DEF k, v
    <3>3. MovedIn(k, n, w, located, answer)
      BY <1>5, <3>1, EventsIn
    <3> HIDE DEF n
    <3>4. Lives([w EXCEPT !.mach[k] = n], w, Session, located, answer)
      BY <1>5, <3>1, <3>3, MachLives
    <3> QED
      BY <3>2, <3>4
  <2>3. CASE invalid
    BY <1>5, <2>3, LivesAnyway
  <2> QED
    BY <2>1, <2>2, <2>3
<1> HIDE DEF v
<1>7. Lives(v, World, Session, located, answer)
  BY <1>4, <1>6, LivesTwice
<1> QED
  BY <1>1, <1>2, <1>3, <1>7, LivesInv DEF AnswersAreGiven, Begin

LEMMA LocationAnsweredInv ==
    ASSUME Inv, ~leftover, NEW s \in AllSessions, NEW reason \in {"ok", "denied", "error"},
           LocationAnswered(s, reason)
    PROVE  Inv'
<1> DEFINE w == Located(World, s)
           k == Locatable(World)
           v == IF k # "none" /\ mach[k].session = s
                THEN [w EXCEPT !.mach[k] = LocationResp(World.mach[k], reason)] ELSE w
           l2 == IF reason = "ok" THEN located \union {s} ELSE located
<1>1. Begin /\ located \subseteq AllSessions
  BY BeginIsSo DEF Begin, AnswersAreGiven
<1>2. World.mach = mach /\ World.locAsked = locAsked /\ World.privAsked = privAsked
  BY WorldIs
<1>3. s \in locAsked /\ s \notin privAsked /\ located' = l2 /\ answer' = answer
      /\ budget' = budget
  BY DEF LocationAnswered
<1>4. Become(v)
  <2>1. w = [World EXCEPT !.locAsked = @ \ {s}]
    BY DEF Located
  <2>2. w.mach = World.mach
    BY DEF Located, World
  <2>3. k = IF Active(World) = "none" /\ Cancelling(mach[MtLr]) THEN MtLr ELSE Active(World)
    BY <1>2 DEF Locatable
  <2>4. Become(IF k # "none" /\ mach[k].session = s
               THEN [w EXCEPT !.mach[k] = LocationResp(w.mach[k], reason)] ELSE w)
    BY <2>1, <2>3 DEF LocationAnswered
  <2> HIDE DEF w, k
  <2> QED
    BY <2>2, <2>4
<1>5. /\ s \in World.locAsked /\ s \notin World.privAsked /\ reason \in Reason
      /\ Live(World, Session, located, answer)
  BY <1>1, <1>2, <1>3 DEF Reason, Begin
<1>6. /\ s \in located \/ reason = "ok" => s \in l2
      /\ located \subseteq l2 /\ l2 \subseteq located \union {s}
  OBVIOUS
<1> HIDE DEF l2
<1>7. Lives(v, World, Session, l2, answer)
  <2>1. CASE k # "none" /\ mach[k].session = s
    <3>1. k \in Machine /\ World.mach[k].proto # "ready" /\ World.mach[k].session = s
      BY <1>2, <2>1, LocatableIs
    <3>2. v = [Located(World, s) EXCEPT !.mach[k] = LocationResp(World.mach[k], reason)]
      BY <2>1
    <3> HIDE DEF k, v
    <3>3. Lives([Located(World, s) EXCEPT !.mach[k] = LocationResp(World.mach[k], reason)],
                World, Session, l2, answer)
      BY <1>5, <1>6, <3>1, LocationTold
    <3> QED
      BY <3>2, <3>3
  <2>2. CASE ~(k # "none" /\ mach[k].session = s)
    <3>1. v = Located(World, s) /\ (Locatable(World) # "none" =>
             World.mach[Locatable(World)].session # s)
      BY <1>2, <2>2
    <3> HIDE DEF k, v
    <3> QED
      BY <1>5, <1>6, <3>1, LocationUnheard
  <2> QED
    BY <2>1, <2>2
<1> HIDE DEF v, k
<1>8. AnswersAreGiven' /\ budget' \in Budget /\ Room(World, budget')
  BY <1>1, <1>3 DEF l2, AnswersAreGiven, Begin
<1> QED
  BY <1>1, <1>3, <1>4, <1>7, <1>8, LivesInv

LEMMA PrivacyAnsweredInv ==
    ASSUME Inv, ~leftover, NEW s \in InternalSession, NEW x \in {"accepted", "rejected"},
           PrivacyAnswered(s, x)
    PROVE  Inv'
<1> DEFINE w == Decided(World, s)
           v == IF mach[MtLr].proto = "active" /\ mach[MtLr].session = s
                THEN [w EXCEPT !.mach[MtLr] = PrivacyResp(World.mach[MtLr], x)] ELSE w
<1>1. Begin /\ answer \in [InternalSession -> Answer]
  BY BeginIsSo DEF Begin, AnswersAreGiven
<1>2. World.mach = mach /\ World.privAsked = privAsked
  BY WorldIs
<1>3. s \in privAsked /\ located' = located /\ answer' = [answer EXCEPT ![s] = x]
      /\ budget' = budget
  BY DEF PrivacyAnswered
<1>4. Become(v)
  BY <1>2 DEF PrivacyAnswered, Decided
<1>5. Decides(answer', answer, s, x) /\ x \in Answer
  BY <1>1, <1>3 DEF Decides, Answer
<1>6. s \in World.privAsked /\ Live(World, Session, located, answer)
  BY <1>1, <1>2, <1>3 DEF Begin
<1>7. Lives(v, World, Session, located, answer')
  <2>1. CASE mach[MtLr].proto = "active" /\ mach[MtLr].session = s
    <3>1. v = [Decided(World, s) EXCEPT !.mach[MtLr] = PrivacyResp(World.mach[MtLr], x)]
      BY <2>1
    <3> HIDE DEF v
    <3>2. Lives([Decided(World, s) EXCEPT !.mach[MtLr] = PrivacyResp(World.mach[MtLr], x)],
                World, Session, located, answer')
      BY <1>2, <1>5, <1>6, <2>1, PrivacyTold
    <3> QED
      BY <3>1, <3>2
  <2>2. CASE ~(mach[MtLr].proto = "active" /\ mach[MtLr].session = s)
    <3>1. v = Decided(World, s)
      BY <2>2
    <3> HIDE DEF v
    <3> QED
      BY <1>2, <1>5, <1>6, <2>2, <3>1, PrivacyUnheard
  <2> QED
    BY <2>1, <2>2
<1> HIDE DEF v
<1>8. AnswersAreGiven' /\ budget' \in Budget /\ Room(World, budget')
  BY <1>1, <1>3, <1>5 DEF AnswersAreGiven, Begin
<1> QED
  BY <1>1, <1>3, <1>4, <1>7, <1>8, LivesInv

-----------------------------------------------------------------------------
\* The network.

\* What the network may still do, one less of these.
LEMMA TroubleIs ==
    ASSUME Begin, budget.trouble > 0, budget' = [budget EXCEPT !.trouble = @ - 1]
    PROVE  budget' \in Budget /\ Room(World, budget')
<1>1. budget.trouble - 1 \in Nat
  BY DEF Begin, Budget
<1>2. /\ budget' \in Budget
      /\ budget'.mtlr = budget.mtlr /\ budget'.measurement = budget.measurement
  BY <1>1 DEF Begin, Budget
<1> QED
  BY <1>2 DEF Begin, Room

LEMMA OfIs ==
    ASSUME NEW e
    PROVE  /\ [kind |-> MtLr, prio |-> Of(e)] \in Ops
           /\ [kind |-> "nilr", prio |-> Of(e)] \in Ops
BY DEF Of, Ops, Machine

LEMMA MtLrReqInv ==
    ASSUME Inv, ~leftover, NEW emergency, MtLrReq(emergency)
    PROVE  Inv'
<1> DEFINE new == [kind |-> MtLr, prio |-> Of(emergency)]
           v == Served(World, new, MtLr, NoSession)
<1>1. Begin /\ MtLr \in Machine
  BY BeginIsSo DEF Machine
<1>2. /\ budget.mtlr > 0 /\ Become(v) /\ located' = located /\ answer' = answer
      /\ budget' = [budget EXCEPT !.mtlr = budget.mtlr - 1]
  BY DEF MtLrReq
<1>3. new \in Ops /\ new.kind = MtLr
  BY OfIs
<1> HIDE DEF new
<1>4. /\ budget' \in Budget /\ budget'.mtlr = budget.mtlr - 1
      /\ budget'.measurement = budget.measurement
      /\ budget.mtlr \in Nat /\ budget.measurement \in Nat
  BY <1>1, <1>2 DEF Begin, Budget
<1>5. Fetches(World, MtLr, budget')
  <2>1. World.used \in Nat /\ Len(Internal) \in Nat /\ B(World.mach[MtLr].queued) \in Nat
    BY <1>1, ProtocolModuleAssumption DEF Begin, Shaped, Worlds, B
  <2> QED
    BY <1>1, <1>4, <2>1 DEF Begin, Room, Fetches
<1>6. NoSession \notin Session
  BY ProtocolModuleAssumption DEF AllSessions
<1>7. Live(World, Session \ {NoSession}, located, answer)
  <2>1. Session \ {NoSession} = Session
    BY <1>6
  <2> QED
    BY <1>1, <2>1 DEF Begin
<1>8. Requests(World, MtLr, NoSession, new)
  <2>1. NewIs(World, new)
    BY <1>3 DEF NewIs, MtLr
  <2>2. Replaces(World, MtLr, NoSession, Session)
    BY ProtocolModuleAssumption DEF Replaces, Originated, MtLr
  <2> QED
    BY <1>3, <2>1, <2>2 DEF Requests, Kinds, MtLr
<1>9. Live(v, Session, located, answer) /\ Room(v, budget')
  BY <1>1, <1>4, <1>5, <1>7, <1>8, ServedLives
<1> HIDE DEF v
<1> QED
  BY <1>1, <1>2, <1>4, <1>9, StepIs DEF AnswersAreGiven, Begin

LEMMA MtLrCancelIndInv ==
    ASSUME Inv, ~leftover, MtLrCancelInd
    PROVE  Inv'
<1> DEFINE v == [World EXCEPT !.mach[MtLr] = CancelMachine(World.mach[MtLr], "network")]
<1>1. Begin /\ MtLr \in Machine
  BY BeginIsSo DEF Machine
<1>2. /\ budget.trouble > 0 /\ World.mach[MtLr].proto = "active"
      /\ located' = located /\ answer' = answer
      /\ budget' = [budget EXCEPT !.trouble = @ - 1]
  BY WorldIs DEF MtLrCancelInd
<1>3. Become(v)
  BY DEF MtLrCancelInd
<1>4. budget' \in Budget /\ Room(World, budget')
  BY <1>1, <1>2, TroubleIs
<1>5. Live(World, Session, located, answer)
  BY <1>1 DEF Begin
<1>6. "network" \in Source \ {"netError"}
  BY DEF Source
<1>7. Lives(v, World, Session, located, answer)
  BY <1>1, <1>2, <1>5, <1>6, CancelLives
<1> HIDE DEF v
<1> QED
  BY <1>1, <1>2, <1>3, <1>4, <1>7, LivesInv DEF AnswersAreGiven, Begin

\* What machine k is told, in world w.
LEMMA TellLives ==
    ASSUME NEW w, NEW l, NEW a, Live(w, Session, l, a), NEW k \in Machine,
           w.mach[k].proto # "ready", NEW n, MovedIn(k, n, w, l, a),
           NEW u, Lives(w, u, Session, l, a), NEW v, v = [w EXCEPT !.mach[k] = n]
    PROVE  Lives(v, u, Session, l, a)
<1>1. Lives([w EXCEPT !.mach[k] = n], w, Session, l, a)
  BY MachLives
<1>2. Lives(v, w, Session, l, a)
  BY <1>1
<1> QED
  BY <1>2, LivesTwice

LEMMA MeasurementControlErrorInv ==
    ASSUME Inv, ~leftover, NEW cancelled \in BOOLEAN, MeasurementControlError(cancelled)
    PROVE  Inv'
<1> DEFINE k == Active(World)
           n == MeasurementControlErrorInd(k, World.mach[k], cancelled)
           v == [World EXCEPT !.mach[k] = n]
<1>1. Begin
  BY BeginIsSo
<1>2. /\ budget.trouble > 0 /\ k # "none" /\ located' = located /\ answer' = answer
      /\ budget' = [budget EXCEPT !.trouble = @ - 1]
  BY DEF MeasurementControlError
<1>3. Become(v)
  BY DEF MeasurementControlError
<1>4. budget' \in Budget /\ Room(World, budget')
  BY <1>1, <1>2, TroubleIs
<1>5. k \in Machine /\ World.mach[k].proto = "active"
  BY <1>2, ActiveIs
<1> HIDE DEF k
<1>6. Live(World, Session, located, answer) /\ Lives(World, World, Session, located, answer)
  BY <1>1, LivesAnyway DEF Begin
<1>7. MovedIn(k, n, World, located, answer)
  BY <1>5, <1>6, EventsIn
<1> HIDE DEF n
<1>8. Lives(v, World, Session, located, answer)
  BY <1>5, <1>6, <1>7, TellLives
<1> HIDE DEF v
<1> QED
  BY <1>1, <1>2, <1>3, <1>4, <1>8, LivesInv DEF AnswersAreGiven, Begin

LEMMA NetworkErrorInv ==
    ASSUME Inv, ~leftover, NetworkError
    PROVE  Inv'
<1> DEFINE w == [World EXCEPT !.fac = FALSE]
           k == Active(World)
           n == NetworkErrorInd(k, w.mach[k])
           v == IF k = "none" THEN w ELSE [w EXCEPT !.mach[k] = n]
<1>1. Begin
  BY BeginIsSo
<1>2. /\ budget.trouble > 0 /\ located' = located /\ answer' = answer
      /\ budget' = [budget EXCEPT !.trouble = @ - 1]
  BY DEF NetworkError
<1>3. Become(v)
  BY DEF NetworkError
<1>4. budget' \in Budget /\ Room(World, budget')
  BY <1>1, <1>2, TroubleIs
<1>5. DataGone(w, World)
  BY <1>1, DataAre DEF Begin
<1> HIDE DEF w
<1>6. Lives(w, World, Session, located, answer)
  BY <1>1, <1>5, DataLives DEF Begin, DataGone
<1>7. Lives(v, World, Session, located, answer)
  <2>1. CASE k = "none"
    BY <1>6, <2>1
  <2>2. CASE k # "none"
    <3>1. k \in Machine /\ w.mach[k].proto = "active" /\ ~w.fac
      BY <1>5, <2>2, ActiveIs DEF DataGone, Data
    <3>2. Live(w, Session, located, answer)
      BY <1>6 DEF Lives
    <3>3. v = [w EXCEPT !.mach[k] = n]
      BY <2>2
    <3> HIDE DEF k, v
    <3>4. MovedIn(k, n, w, located, answer)
      BY <3>1, <3>2, NetworkErrorIn
    <3> HIDE DEF n
    <3> QED
      BY <1>6, <3>1, <3>2, <3>3, <3>4, TellLives
  <2> QED
    BY <2>1, <2>2
<1> HIDE DEF v
<1> QED
  BY <1>1, <1>2, <1>3, <1>4, <1>7, LivesInv DEF AnswersAreGiven, Begin

LEMMA NetworkResultInv ==
    ASSUME Inv, ~leftover, NEW position \in BOOLEAN, NetworkResult(position)
    PROVE  Inv'
<1> DEFINE w == [World EXCEPT !.fac = FALSE]
           k == Active(World)
           n == SessionResult(World.mach[k], position)
           v == IF k \in {"molr", "x3p"} THEN [w EXCEPT !.mach[k] = n] ELSE w
<1>1. Begin
  BY BeginIsSo
<1>2. /\ World.fac /\ located' = located /\ answer' = answer /\ budget' = budget
  BY WorldIs DEF NetworkResult
<1>3. DataGone(w, World)
  BY <1>1, DataAre DEF Begin
<1>4. Become(v)
  <2>1. w.mach = World.mach
    BY <1>3 DEF DataGone, Data
  <2>2. Become(IF k \in {"molr", "x3p"}
               THEN [w EXCEPT !.mach[k] = SessionResult(w.mach[k], position)] ELSE w)
    BY DEF NetworkResult
  <2> HIDE DEF w, k
  <2> QED
    BY <2>1, <2>2
<1> HIDE DEF w
<1>5. budget' \in Budget /\ Room(World, budget') /\ Live(World, Session, located, answer)
  BY <1>1, <1>2 DEF Begin
<1>6. Lives(w, World, Session, located, answer)
  BY <1>3, <1>5, DataLives DEF DataGone
<1>7. Lives(v, World, Session, located, answer)
  <2>1. CASE k \notin {"molr", "x3p"}
    BY <1>6, <2>1
  <2>2. CASE k \in {"molr", "x3p"}
    <3>1. k \in Machine /\ World.mach[k].proto = "active"
      BY <2>2, ActiveIs
    <3>2. Live(w, Session, located, answer) /\ w.mach[k].proto # "ready"
      BY <1>3, <1>6, <3>1 DEF Lives, DataGone, Data
    <3>3. v = [w EXCEPT !.mach[k] = n]
      BY <2>2
    <3> HIDE DEF k, v
    <3>4. MovedIn(k, n, w, located, answer)
      BY <1>2, <1>3, <1>5, <3>1, ResultIn DEF DataGone
    <3> HIDE DEF n
    <3> QED
      BY <1>6, <3>1, <3>2, <3>3, <3>4, TellLives
  <2> QED
    BY <2>1, <2>2
<1> HIDE DEF v
<1> QED
  BY <1>1, <1>2, <1>4, <1>5, <1>7, LivesInv DEF AnswersAreGiven, Begin

LEMMA ResetAssistanceDataInv ==
    ASSUME Inv, ~leftover, ResetAssistanceData
    PROVE  Inv'
<1> DEFINE v == [World EXCEPT !.missing = FALSE, !.expecting = FALSE]
<1>1. Begin
  BY BeginIsSo
<1>2. Become(v) /\ located' = located /\ answer' = answer /\ budget' = budget
  BY DEF ResetAssistanceData
<1>3. DataAlone(v, World)
  BY <1>1, DataAre DEF Begin
<1> HIDE DEF v
<1>4. Lives(v, World, Session, located, answer)
  BY <1>1, <1>3, DataLives DEF Begin, DataAlone
<1> QED
  BY <1>1, <1>2, <1>4, LivesInv DEF AnswersAreGiven, Begin

LEMMA TimeoutInv ==
    ASSUME Inv, ~leftover, NEW k \in Machine, NEW t \in TimerOf(k), Timeout(k, t)
    PROVE  Inv'
<1> DEFINE v == TimedOut(World, k, t)
<1>1. Begin
  BY BeginIsSo
<1>2. /\ t \in World.mach[k].timers /\ located' = located /\ answer' = answer
      /\ budget' = budget
  BY WorldIs DEF Timeout
<1>3. Become(v)
  BY DEF Timeout, TimedOut, Expire, Put
<1> HIDE DEF v
<1>4. Lives(v, World, Session, located, answer)
  BY <1>1, <1>2, TimedOutLives DEF Begin, v
<1> QED
  BY <1>1, <1>2, <1>3, <1>4, LivesInv DEF AnswersAreGiven, Begin

LEMMA InducedLives ==
    ASSUME NEW l, NEW a, NEW w, Live(w, Session, l, a), NEW e, NEW b \in Budget,
           Fetches(w, MtLr, b)
    PROVE  Live(Induced(w, e), Session, l, a) /\ Room(Induced(w, e), b)
<1> DEFINE new == [kind |-> "nilr", prio |-> Of(e)]
           r == ResolveConflict(w, new)
           z == r.world
           v == Induced(w, e)
<1>1. new \in Ops /\ new.kind = "nilr"
  BY OfIs
<1>2. r.world.used = w.used =>
         v = IF r.result # "none" THEN z ELSE Induction(z, new)
  <2>1. v = IF r.result # "none" THEN z
            ELSE LET s == Internal[w.used + 1]
                     m == [Initialise(MtLr, z.mach[MtLr], s) EXCEPT
                              !.recvd = TRUE, !.handled = TRUE, !.first = TRUE,
                              !.answer = "accepted", !.at = "privRecvd"]
                 IN  [z EXCEPT !.used = @ + 1, !.op = new, !.induced = @ \union {s},
                               !.mach[MtLr] = MeasurementControlInd(MtLr, m)]
    BY DEF Induced
  <2> HIDE DEF r, new, v
  <2> QED
    BY <2>1 DEF Induction, Inducing, NextId
<1> HIDE DEF new
<1>3. NewIs(w, new)
  BY <1>1 DEF NewIs
<1>4. Settles(r, w, new, Session, l, a)
  BY <1>3, ConflictSettles
<1> HIDE DEF r, v
<1>5. Live(z, Session, l, a) /\ Untouched(z, w) /\ r.world.used = w.used
  BY <1>4 DEF Settles, Lives, Untouched
<1>6. Fetches(z, MtLr, b)
  BY <1>5, FetchesStay
<1>7. Shaped(z) /\ Room(z, b)
  BY <1>5, <1>6, FetchesRoom DEF Live, Sound
<1>8. CASE r.result # "none"
  <2>1. v = z
    BY <1>2, <1>5, <1>8
  <2> HIDE DEF z
  <2> QED
    BY <1>5, <1>7, <2>1 DEF v
<1>9. CASE r.result = "none"
  <2>1. v = Induction(z, new) /\ AllReady(z)
    BY <1>2, <1>4, <1>5, <1>9 DEF Settles
  <2>2. /\ z.used \in Nat /\ Len(Internal) \in Nat /\ B(z.mach[MtLr].queued) \in Nat
        /\ b.mtlr \in Nat /\ b.measurement \in Nat
    BY <1>7, ProtocolModuleAssumption DEF Shaped, Worlds, B, Budget
  <2> HIDE DEF z
  <2>3. z.used < Len(Internal) /\ z.used + 1 + b.mtlr + b.measurement <= Len(Internal)
    BY <1>6, <2>2 DEF Fetches
  <2>4. /\ Live(v, Session, l, a) /\ Begun(v, z, MtLr, NextId(z), Session, a)
    BY <1>1, <1>5, <2>1, <2>3, InductionLives DEF Live
  <2>5. Room(v, b)
    BY <2>3, <2>4 DEF Begun
  <2> QED
    BY <2>4, <2>5 DEF v
<1> QED
  BY <1>8, <1>9

LEMMA MeasurementControlInv ==
    ASSUME Inv, ~leftover, NEW emergency, NEW finds \in BOOLEAN,
           MeasurementControl(emergency, finds)
    PROVE  Inv'
<1> DEFINE miss == World.missing \/ finds
           w == [World EXCEPT !.expecting = FALSE, !.missing = miss]
           k == Active(w)
           c == InState(w, "cancelling")
           n1 == MeasurementControlInd(k, w.mach[k])
           n2 == AdditionalAssistDataInd(w.mach[k])
           n3 == MeasurementControlInd(c, w.mach[c])
           v == CASE k # "none" /\ ~mach[k].locReq -> [w EXCEPT !.mach[k] = n1]
                  [] k # "none" /\ mach[k].locReq -> [w EXCEPT !.mach[k] = n2]
                  [] k = "none" /\ c # "none" -> [w EXCEPT !.mach[c] = n3]
                  [] OTHER -> Induced(w, emergency)
<1>1. Begin
  BY BeginIsSo
<1>2. /\ budget.measurement > 0 /\ (finds => budget.data > 0)
      /\ located' = located /\ answer' = answer
      /\ budget' = [budget EXCEPT !.measurement = budget.measurement - 1,
                                  !.data = IF finds THEN budget.data - 1 ELSE budget.data]
  BY DEF MeasurementControl
<1>3. Become(v)
  BY DEF MeasurementControl
<1>4. /\ budget' \in Budget /\ budget'.mtlr = budget.mtlr
      /\ budget'.measurement = budget.measurement - 1
      /\ budget.mtlr \in Nat /\ budget.measurement \in Nat
  <2>1. /\ budget.measurement \in Nat /\ budget.measurement - 1 \in Nat
        /\ (IF finds THEN budget.data - 1 ELSE budget.data) \in Nat
    BY <1>1, <1>2 DEF Begin, Budget
  <2> QED
    BY <1>1, <1>2, <2>1 DEF Begin, Budget
<1>5. Fetches(World, MtLr, budget') /\ Room(World, budget')
  <2>1. World.used \in Nat /\ Len(Internal) \in Nat /\ B(World.mach[MtLr].queued) \in Nat
    BY <1>1, ProtocolModuleAssumption DEF Begin, Shaped, Worlds, B
  <2> QED
    BY <1>1, <1>4, <2>1 DEF Begin, Room, Fetches
<1>6. DataAlone(w, World)
  <2>1. miss \in BOOLEAN
    OBVIOUS
  <2> HIDE DEF miss
  <2> QED
    BY <1>1, <2>1, DataAre DEF Begin
<1> HIDE DEF miss, w
<1>7. Lives(w, World, Session, located, answer) /\ w.mach = mach
  BY <1>1, <1>6, DataLives, WorldIs DEF Begin, DataAlone, Data
<1>8. Live(w, Session, located, answer)
  BY <1>7 DEF Lives
<1>9. CASE k # "none"
  <2>1. k \in Machine /\ w.mach[k].proto = "active"
    BY <1>9, ActiveIs
  <2>2. v = IF w.mach[k].locReq THEN [w EXCEPT !.mach[k] = n2] ELSE [w EXCEPT !.mach[k] = n1]
    BY <1>7, <1>9
  <2> HIDE DEF k, v
  <2>3. /\ MovedIn(k, n2, w, located, answer)
        /\ ~w.mach[k].locReq => MovedIn(k, n1, w, located, answer)
    BY <1>8, <2>1, EventsIn
  <2> HIDE DEF n1, n2
  <2>4. Lives(v, World, Session, located, answer)
    <3>1. CASE w.mach[k].locReq
      <4>1. v = [w EXCEPT !.mach[k] = n2]
        BY <2>2, <3>1
      <4> QED
        BY <1>7, <1>8, <2>1, <2>3, <4>1, TellLives
    <3>2. CASE ~w.mach[k].locReq
      <4>1. v = [w EXCEPT !.mach[k] = n1]
        BY <2>2, <3>2
      <4> QED
        BY <1>7, <1>8, <2>1, <2>3, <3>2, <4>1, TellLives
    <3> QED
      BY <3>1, <3>2
  <2>5. Become(v)
    BY <1>3
  <2> QED
    BY <1>1, <1>2, <1>4, <1>5, <2>4, <2>5, LivesInv DEF AnswersAreGiven, Begin
<1>10. CASE k = "none" /\ c # "none"
  <2>1. c \in Machine /\ w.mach[c].proto = "cancelling"
    BY <1>10, InStateIs
  <2>2. v = [w EXCEPT !.mach[c] = n3]
    BY <1>10
  <2> HIDE DEF k, c, v
  <2>3. MovedIn(c, n3, w, located, answer)
    BY <1>8, <2>1, EventsIn DEF Cancelling
  <2> HIDE DEF n3
  <2>4. Lives(v, World, Session, located, answer)
    BY <1>7, <1>8, <2>1, <2>2, <2>3, TellLives
  <2>5. Become(v)
    BY <1>3
  <2> QED
    BY <1>1, <1>2, <1>4, <1>5, <2>4, <2>5, LivesInv DEF AnswersAreGiven, Begin
<1>11. CASE k = "none" /\ c = "none"
  <2>1. v = Induced(w, emergency)
    BY <1>11
  <2>2. Fetches(w, MtLr, budget')
    BY <1>5, <1>6 DEF Fetches, DataAlone, Data
  <2>3. Live(Induced(w, emergency), Session, located, answer)
        /\ Room(Induced(w, emergency), budget')
    BY <1>4, <1>8, <2>2, InducedLives
  <2> HIDE DEF v
  <2>4. Live(v, Session, located', answer') /\ Room(v, budget')
    BY <1>2, <2>1, <2>3
  <2> QED
    BY <1>1, <1>2, <1>3, <1>4, <2>4, StepIs DEF AnswersAreGiven, Begin
<1> QED
  BY <1>9, <1>10, <1>11

-----------------------------------------------------------------------------
(***************************************************************************)
(* RunL of a machine that was only woken.                                  *)
(***************************************************************************)

LEMMA AsleepFits ==
    ASSUME NEW k \in Machine, NEW m \in State(k), m.stage = "null", m.proto # "ready",
           NEW fa, NEW la, NEW pa, NEW lo, NEW ind, NEW u,
           Fit(k, m, fa, la, pa, lo, ind, u)
    PROVE  Moved(k, [m EXCEPT !.run = FALSE], m, fa, la, pa, lo, ind, u)
<1> DEFINE n == [m EXCEPT !.run = FALSE]
<1>1. /\ n.proto = m.proto /\ n.at = m.at /\ n.stage = m.stage /\ n.source = m.source
      /\ n.cancel = m.cancel /\ n.pending = m.pending /\ n.timers = m.timers
      /\ n.answer = m.answer /\ n.still = m.still /\ n.locReq = m.locReq
      /\ n.reason = m.reason /\ n.recvd = m.recvd /\ n.first = m.first
      /\ n.session = m.session /\ n.queued = m.queued /\ n.next = m.next
  BY DEF State, MachineState
<1>2. n \in State(k)
  BY FlagsAre
<1> HIDE DEF n
<1>3. Load(n) = Load(m) /\ ~Moving(n) /\ ~Moving(m) /\ (Cancelling(n) <=> Cancelling(m))
      /\ (Calm(n) <=> Calm(m))
  BY <1>1 DEF Load, Moving, Cancelling, Calm
<1>4. Due(n) = Due(m)
  BY <1>1 DEF Due
<1>5. (Gave(n) <=> Gave(m)) /\ (Asks(n, la, lo) <=> Asks(m, la, lo))
  BY <1>1, <1>3 DEF Gave, Asks
<1>6. Serves(n, la, pa, lo, ind, u) <=> Serves(m, la, pa, lo, ind, u)
  BY <1>1, <1>3, <1>4 DEF Serves
<1>7. Fit(k, n, fa, la, pa, lo, ind, u)
  BY <1>1, <1>3, <1>5, <1>6 DEF Fit, Runs
<1>8. Moved(k, n, m, fa, la, pa, lo, ind, u)
  BY <1>1, <1>2, <1>7 DEF Moved, Becomes, Steps
<1> QED
  BY <1>8 DEF n

LEMMA NotedIsSame ==
    ASSUME NEW k \in Machine, NEW m \in State(k)
    PROVE  /\ [m EXCEPT !.assist = FALSE] \in State(k)
           /\ Same([m EXCEPT !.assist = FALSE], m)
           /\ [m EXCEPT !.assist = FALSE].run = m.run
<1>1. [m EXCEPT !.assist = FALSE] \in State(k)
  BY FlagsAre
<1>2. Same([m EXCEPT !.assist = FALSE], m) /\ [m EXCEPT !.assist = FALSE].run = m.run
  BY DEF Same, State, MachineState
<1> QED
  BY <1>1, <1>2

LEMMA WokenRunLives ==
    ASSUME NEW S \in SUBSET Session, NEW u, NEW l, NEW a, Live(u, S, l, a), NEW k \in Machine,
           u.mach[k].run, u.mach[k].stage = "null"
    PROVE  Lives(AssistActions([u EXCEPT !.mach[k].run = FALSE], k), u, S, l, a)
<1> DEFINE m == u.mach[k]
           x == [m EXCEPT !.run = FALSE]
           w == [u EXCEPT !.mach[k].run = FALSE]
           y == [x EXCEPT !.assist = FALSE]
           z == [w EXCEPT !.mach[k].assist = FALSE]
<1>1. m \in State(k) /\ Shaped(u)
  BY DEF Live, Sound, Shaped
<1>2. FitIn(k, u, l, a)
  BY DEF Live, Fits
<1>3. m.proto # "ready"
  BY <1>2 DEF FitIn, Fit, Rest
<1>4. MovedIn(k, x, u, l, a)
  BY <1>1, <1>2, <1>3, AsleepFits DEF MovedIn, FitIn
<1>5. w = [u EXCEPT !.mach[k] = x]
  OBVIOUS
<1>6. x \in State(k)
  BY <1>1, FlagsAre
<1>7. y \in State(k) /\ Same(y, x) /\ y.run = x.run
  <2> HIDE DEF x
  <2> QED
    BY <1>6, NotedIsSame
<1> HIDE DEF x
<1>8. Lives([u EXCEPT !.mach[k] = x], u, S, l, a) /\ With([u EXCEPT !.mach[k] = x], u, k, x)
  BY <1>3, <1>4, MachLives
<1>9. Lives(w, u, S, l, a) /\ w.mach[k] = x
  BY <1>5, <1>8 DEF With
<1> HIDE DEF w
<1>10. z = [w EXCEPT !.mach[k] = y]
  BY <1>9
<1> HIDE DEF y, z
<1>11. Lives([w EXCEPT !.mach[k] = y], w, S, l, a)
  BY <1>7, <1>9, SameLives DEF Lives
<1>12. Lives(z, u, S, l, a)
  BY <1>9, <1>10, <1>11, LivesTwice
<1>13. Lives(DoAssistanceDataActions(z), u, S, l, a)
  BY <1>12, DoAssistLives, LivesTwice DEF Lives
<1>14. Lives(AssistActions(w, k), u, S, l, a)
  BY <1>9, <1>13 DEF AssistActions, z
<1> QED
  BY <1>14 DEF w

-----------------------------------------------------------------------------
(***************************************************************************)
(* RunL of a machine that leaves a state.                                  *)
(***************************************************************************)

\* v is w but for the machines, the position the network has, and what LBS is told.
Leaving(v, w) ==
    /\ Shaped(v) /\ v.op = w.op /\ v.used = w.used
    /\ v.locAsked = w.locAsked /\ v.privAsked = w.privAsked /\ v.induced = w.induced
    /\ v.leftover = w.leftover /\ v.sent = w.sent
    /\ Closer(v, w)

\* The fields of a machine are set one after the other.
LeaveWorld(v, k, d) ==
    [v EXCEPT !.mach[k].still = d, !.mach[k].stage = "enter", !.mach[k].run = TRUE]
LeaveMachine(m, d) == [m EXCEPT !.still = d, !.stage = "enter", !.run = TRUE]

LEMMA LeftTwice ==
    ASSUME NEW v, Shaped(v), NEW k \in Machine, NEW d
    PROVE  LeaveWorld(v, k, d) = Put(v, k, LeaveMachine(v.mach[k], d))
<1> DEFINE m == v.mach[k]
           x == [m EXCEPT !.still = d]
           y == [x EXCEPT !.stage = "enter"]
           z == [y EXCEPT !.run = TRUE]
           v1 == [v EXCEPT !.mach[k].still = d]
           v2 == [v1 EXCEPT !.mach[k].stage = "enter"]
           v3 == [v2 EXCEPT !.mach[k].run = TRUE]
<1>1. v1 = Put(v, k, x)
  BY DEF Put
<1>2. v1.mach[k] = x
  <2> HIDE DEF x, v1
  <2> QED
    BY <1>1, MachTwice
<1>3. v2 = Put(v, k, y)
  <2>1. v2 = Put(v1, k, [v1.mach[k] EXCEPT !.stage = "enter"])
    BY DEF Put
  <2> HIDE DEF x, v1, v2
  <2>2. v2 = Put(v1, k, y)
    BY <1>2, <2>1
  <2> HIDE DEF y
  <2>3. v2 = Put(Put(v, k, x), k, y)
    BY <1>1, <2>2
  <2>4. Put(Put(v, k, x), k, y) = Put(v, k, y)
    BY MachTwice
  <2> QED
    BY <2>3, <2>4
<1>4. v2.mach[k] = y
  <2> HIDE DEF y, v2
  <2> QED
    BY <1>3, MachTwice
<1>5. v3 = Put(v, k, z)
  <2>1. v3 = Put(v2, k, [v2.mach[k] EXCEPT !.run = TRUE])
    BY DEF Put
  <2> HIDE DEF y, v2, v3
  <2>2. v3 = Put(v2, k, z)
    BY <1>4, <2>1
  <2> HIDE DEF z
  <2>3. v3 = Put(Put(v, k, y), k, z)
    BY <1>3, <2>2
  <2>4. Put(Put(v, k, y), k, z) = Put(v, k, z)
    BY MachTwice
  <2> QED
    BY <2>3, <2>4
<1>6. z = LeaveMachine(m, d)
  BY DEF LeaveMachine
<1>7. v3 = LeaveWorld(v, k, d)
  BY DEF LeaveWorld
<1> QED
  BY <1>5, <1>6, <1>7

\* d is the world w after what machine k, which was m, tells on leaving its state.
Tidied(d, w, k, m) ==
    /\ Leaving(d, w) /\ (d.fac => GivenAfter(k, m, w.fac))
    /\ m.at = "clientClose" /\ ~(k = "x3p" /\ m.source = "silent") /\ m.session \in Session
          => d.lbs[m.session] = "completed"

TidyUp(w, k, m) ==
    LET n == IF m.at = "netClose" /\ k # MtLr /\ ~IsNetworkConnectionError(m)
             THEN [w EXCEPT !.fac = FALSE] ELSE w
    IN  IF m.at = "clientClose" /\ ~(k = "x3p" /\ m.source = "silent")
        THEN SessionCompleteInd(n, m.session) ELSE n

LEMMA TidiedIs ==
    ASSUME NEW w, Shaped(w), NEW k \in Machine, NEW m, m.at = w.mach[k].at,
           m.source = w.mach[k].source, m.proto = w.mach[k].proto, m.session = w.mach[k].session
    PROVE  Tidied(TidyUp(w, k, m), w, k, m) /\ TidyUp(w, k, m).mach = w.mach
<1> DEFINE n == IF m.at = "netClose" /\ k # MtLr /\ ~IsNetworkConnectionError(m)
                THEN [w EXCEPT !.fac = FALSE] ELSE w
           d == TidyUp(w, k, m)
<1>0. d = IF m.at = "clientClose" /\ ~(k = "x3p" /\ m.source = "silent")
          THEN SessionCompleteInd(n, m.session) ELSE n
  BY DEF TidyUp
<1> HIDE DEF d
<1>1. Leaving(n, w) /\ n.mach = w.mach /\ (n.fac => GivenAfter(k, m, w.fac))
  <2>1. CASE m.at = "netClose" /\ k # MtLr /\ ~IsNetworkConnectionError(m)
    <3>1. DataGone([w EXCEPT !.fac = FALSE], w)
      BY DataAre
    <3>2. n = [w EXCEPT !.fac = FALSE]
      BY <2>1
    <3> HIDE DEF n
    <3>3. DataGone(n, w)
      BY <3>1, <3>2
    <3> QED
      BY <3>3 DEF DataGone, Data, Leaving, Closer
  <2>2. CASE ~(m.at = "netClose" /\ k # MtLr /\ ~IsNetworkConnectionError(m))
    <3>1. n = w
      BY <2>2
    <3> HIDE DEF n
    <3> QED
      BY <2>2, <3>1 DEF Leaving, Closer, GivenAfter
  <2> QED
    BY <2>1, <2>2
<1>2. CASE m.at = "clientClose" /\ ~(k = "x3p" /\ m.source = "silent")
  <2>1. d = SessionCompleteInd(n, m.session)
    BY <1>0, <1>2
  <2> HIDE DEF n
  <2>2. /\ Heard(SessionCompleteInd(n, m.session), n)
        /\ m.session \in Session => SessionCompleteInd(n, m.session).lbs[m.session] = "completed"
    BY <1>1, CompleteHeard DEF Leaving
  <2>3. Heard(d, n) /\ (m.session \in Session => d.lbs[m.session] = "completed")
    BY <2>1, <2>2
  <2>4. Leaving(d, w) /\ d.fac = n.fac /\ d.mach = w.mach
    BY <1>1, <2>3 DEF Heard, Leaving, Closer
  <2> QED
    BY <1>1, <1>2, <2>3, <2>4 DEF Tidied, d
<1>3. CASE ~(m.at = "clientClose" /\ ~(k = "x3p" /\ m.source = "silent"))
  <2>1. d = n
    BY <1>0, <1>3
  <2> HIDE DEF n
  <2> QED
    BY <1>1, <1>3, <2>1 DEF Tidied, d
<1> QED
  BY <1>2, <1>3 DEF d

LEMMA ExitIs ==
    ASSUME NEW u, Shaped(u), NEW k \in Machine,
           NEW v, v = ExitState([u EXCEPT !.mach[k].run = FALSE], k)
    PROVE  \E d : /\ Tidied(d, u, k, u.mach[k])
                  /\ \A j \in Machine \ {k} : d.mach[j] = u.mach[j]
                  /\ With(v, d, k, Left(k, u.mach[k], StillAfter(k, u.mach[k])))
<1> DEFINE m == u.mach[k]
           x == [m EXCEPT !.run = FALSE]
           w == [u EXCEPT !.mach[k].run = FALSE]
           y == w.mach[k]
           d == TidyUp(w, k, y)
           still == StillAfter(k, y)
<1>1. m \in State(k)
  BY DEF Shaped
<1>2. /\ x.at = m.at /\ x.source = m.source /\ x.session = m.session /\ x.proto = m.proto
      /\ x.still = m.still
  BY <1>1 DEF State, MachineState
<1>3. x \in State(k)
  BY <1>1, FlagsAre
<1>4. With([u EXCEPT !.mach[k] = x], u, k, x)
  <2> HIDE DEF x
  <2> QED
    BY <1>3, MachIs
<1>5. w = [u EXCEPT !.mach[k] = x]
  OBVIOUS
<1>6. With(w, u, k, x)
  <2> HIDE DEF w, x
  <2> QED
    BY <1>4, <1>5
<1>7. w.mach[k] = x /\ Shaped(w)
  <2> HIDE DEF w, x
  <2> QED
    BY <1>6 DEF With
<1>8. v = LeaveWorld(d, k, still)
  BY DEF ExitState, StillAfter, TidyUp, LeaveWorld
<1> HIDE DEF w
<1>9. Tidied(d, w, k, y) /\ d.mach = w.mach
  BY <1>7, TidiedIs
<1> HIDE DEF d
<1>10. Tidied(d, u, k, m) /\ \A j \in Machine \ {k} : d.mach[j] = u.mach[j]
  <2> HIDE DEF x, m
  <2>1. GivenAfter(k, x, w.fac) => GivenAfter(k, m, u.fac)
    BY <1>2, <1>6 DEF GivenAfter, IsNetworkConnectionError, Cancelling, With, Others
  <2>2. Tidied(d, w, k, x)
    BY <1>7, <1>9
  <2> QED
    BY <1>2, <1>6, <1>9, <2>1, <2>2 DEF Tidied, Leaving, With, Others, Closer
<1>11. With(v, d, k, Left(k, m, StillAfter(k, m)))
  <2>1. Shaped(d) /\ d.mach[k] = x
    <3> HIDE DEF x
    <3> QED
      BY <1>7, <1>9 DEF Tidied, Leaving
  <2> DEFINE c == StillAfter(k, m)
  <2>2. still = c /\ c \in BOOLEAN
    <3> HIDE DEF x
    <3> QED
      BY <1>1, <1>2, <1>7 DEF StillAfter, State, MachineState
  <2> HIDE DEF still, c
  <2>3. LeaveMachine(x, c) = Left(k, m, c)
    <3> HIDE DEF m
    <3> QED
      BY DEF Left, LeaveMachine
  <2>4. v = LeaveWorld(d, k, c)
    BY <1>8, <2>2
  <2>5. LeaveWorld(d, k, c) = Put(d, k, LeaveMachine(d.mach[k], c))
    BY <2>1, LeftTwice
  <2> HIDE DEF x
  <2>6. v = Put(d, k, Left(k, m, c))
    BY <2>1, <2>3, <2>4, <2>5
  <2>7. Left(k, m, c) \in State(k)
    BY <1>1, <2>2, LeftIs
  <2>8. With(Put(d, k, Left(k, m, c)), d, k, Left(k, m, c))
    BY <2>1, <2>7, MachIs DEF Put
  <2>9. With(v, d, k, Left(k, m, c))
    BY <2>6, <2>8
  <2> QED
    BY <2>9 DEF c
<1> QED
  BY <1>10, <1>11 DEF m

IsLeft(n, k, m, d) ==
    /\ n \in State(k) /\ n.stage = "enter" /\ n.run = TRUE /\ n.still = d
    /\ n.proto = m.proto /\ n.at = m.at /\ n.cancel = m.cancel /\ n.source = m.source
    /\ n.session = m.session /\ n.queued = m.queued /\ n.next = m.next
    /\ n.answer = m.answer

LEMMA LeftIsSo ==
    ASSUME NEW k \in Machine, NEW m \in State(k), NEW d \in BOOLEAN
    PROVE  IsLeft(Left(k, m, d), k, m, d)
<1> DEFINE n == Left(k, m, d)
<1>1. /\ n \in State(k) /\ n.stage = "enter" /\ n.run = TRUE /\ n.still = d
      /\ n.proto = m.proto /\ n.at = m.at /\ n.cancel = m.cancel /\ n.source = m.source
      /\ n.session = m.session /\ n.queued = m.queued /\ n.next = m.next
      /\ n.answer = m.answer
  BY LeftIs
<1> HIDE DEF n
<1>2. IsLeft(n, k, m, d)
  BY <1>1 DEF IsLeft
<1> QED
  BY <1>2 DEF n

LEMMA ExitLives ==
    ASSUME NEW S \in SUBSET Session, NEW u, NEW l, NEW a, Live(u, S, l, a), NEW k \in Machine,
           u.mach[k].run, u.mach[k].stage = "exit"
    PROVE  Lives(ExitState([u EXCEPT !.mach[k].run = FALSE], k), u, S, l, a)
<1> DEFINE m == u.mach[k]
           n == Left(k, m, StillAfter(k, m))
           v == ExitState([u EXCEPT !.mach[k].run = FALSE], k)
<1>1. Shaped(u) /\ m \in State(k) /\ FitIn(k, u, l, a)
  BY DEF Live, Sound, Shaped, Fits
<1>2. PICK d : /\ Tidied(d, u, k, m)
               /\ \A j \in Machine \ {k} : d.mach[j] = u.mach[j]
               /\ With(v, d, k, n)
  <2> HIDE DEF v
  <2> QED
    BY <1>1, ExitIs DEF v
<1> HIDE DEF v
<1>3. /\ Shaped(v) /\ v.op = u.op /\ v.used = u.used /\ v.locAsked = u.locAsked
      /\ v.privAsked = u.privAsked /\ v.induced = u.induced /\ v.leftover = u.leftover
      /\ v.sent = u.sent /\ Closer(v, u) /\ v.mach[k] = n
      /\ \A j \in Machine \ {k} : v.mach[j] = u.mach[j]
      /\ v.fac => GivenAfter(k, m, u.fac)
      /\ m.at = "clientClose" /\ ~(k = "x3p" /\ m.source = "silent") /\ m.session \in Session
            => v.lbs[m.session] = "completed"
  BY <1>2 DEF With, Others, Tidied, Leaving, Closer
<1>4. m.proto # "ready"
  BY <1>1 DEF FitIn, Fit, Rest
<1>5. StillAfter(k, m) \in BOOLEAN
  BY <1>1 DEF StillAfter, State, MachineState
<1>6. /\ n \in State(k) /\ n.stage = "enter" /\ n.run = TRUE /\ n.still = StillAfter(k, m)
      /\ n.proto = m.proto /\ n.at = m.at /\ n.cancel = m.cancel /\ n.source = m.source
      /\ n.session = m.session /\ n.queued = m.queued /\ n.next = m.next /\ n.answer = m.answer
  <2> DEFINE c == StillAfter(k, m)
  <2>1. c \in BOOLEAN /\ m \in State(k) /\ n = Left(k, m, c)
    BY <1>1, <1>5
  <2> HIDE DEF m, n, c
  <2>2. n \in State(k) /\ n.stage = "enter" /\ n.run = TRUE /\ n.still = c
        /\ n.proto = m.proto /\ n.at = m.at /\ n.cancel = m.cancel /\ n.source = m.source
        /\ n.session = m.session /\ n.queued = m.queued /\ n.next = m.next
        /\ n.answer = m.answer
    <3>1. IsLeft(n, k, m, c)
      <4>1. IsLeft(Left(k, m, c), k, m, c)
        BY <2>1, LeftIsSo
      <4> QED
        BY <2>1, <4>1
    <3> QED
      BY <3>1 DEF IsLeft
  <2> QED
    BY <2>2 DEF c
<1> HIDE DEF n
<1>7. Near(v, u, a)
  <2>1. Goes(k, n, m, v)
    <3>1. k # MtLr /\ Past(n) => Past(m) \/ v.lbs[n.session] # "open" \/ Over(v, n.session)
      <4>1. CASE k # MtLr /\ n.at = "clientClose"
        <5>1. Owns(k, m, u)
          BY <1>4 DEF Live, Sound, Owned
        <5>2. m.session \in Session /\ (m.source = "silent" => k = "x3p" /\ Over(u, m.session))
          BY <4>1, <5>1 DEF Owns
        <5>3. Over(u, m.session) => Over(v, m.session)
          BY <1>3, OverIsKept
        <5> QED
          BY <1>3, <1>6, <4>1, <5>2, <5>3
      <4>2. CASE n.at # "clientClose"
        BY <1>6, <4>2 DEF Past
      <4> QED
        BY <4>1, <4>2
    <3>2. k = MtLr => ~n.still
      BY <1>6 DEF StillAfter, MtLr
    <3> QED
      BY <1>6, <3>1, <3>2 DEF Goes
  <2>2. \A j \in Machine : Goes(j, v.mach[j], u.mach[j], v)
    <3>1. \A j \in Machine \ {k} : Goes(j, u.mach[j], u.mach[j], v)
      BY DEF Goes
    <3> QED
      BY <1>3, <2>1, <3>1
  <2> QED
    BY <1>3, <2>2 DEF Near
<1>8. FitIn(k, v, l, a)
  <2> DEFINE s == m.session
             la == s \in u.locAsked
             pa == s \in u.privAsked
             lo == s \in l
             ind == s \in u.induced
             x == IF s \in InternalSession THEN a[s] ELSE "unknown"
  <2>1. Fit(k, m, u.fac, la, pa, lo, ind, x)
    BY <1>1 DEF FitIn
  <2> HIDE DEF la, pa, lo, ind, x
  <2>2. Fit(k, n, v.fac, la, pa, lo, ind, x)
    BY <1>1, <1>3, <1>4, <2>1, LeftFits DEF n
  <2> QED
    BY <1>3, <1>6, <2>2 DEF FitIn, la, pa, lo, ind, x
<1>9. Fits(v, l, a)
  <2>1. One(u) /\ Fits(u, l, a)
    BY DEF Live, Sound
  <2> QED
    BY <1>1, <1>3, <1>4, <1>6, <1>8, <2>1, RunnerFits
<1>10. Lives(v, u, S, l, a)
  BY <1>3, <1>7, <1>9, NearLives
<1> QED
  BY <1>10 DEF v

-----------------------------------------------------------------------------
(***************************************************************************)
(* RunL of a machine that enters a state, and what it asks and tells then. *)
(***************************************************************************)

\* What machine k, which is t, may tell the network on entering its state.
Says(k, t, x) ==
    \/ x = <<t.session, "position">> /\ t.at = "locSent" /\ LocRespReason(t) = "ok"
    \/ /\ x = <<t.session, "accepted">> /\ k = MtLr /\ t.answer = "accepted"
       /\ t.at \in {"privRecvd", "privAfter", "cancelling"}

\* z is n after that, but for the machine.
Around(z, n, k, t) ==
    /\ Shaped(z) /\ z.mach = n.mach /\ z.op = n.op /\ z.used = n.used
    /\ z.induced = n.induced /\ z.leftover = n.leftover
    /\ Closer(z, n)
    /\ z.fac => n.fac \/ Gives(k, t)
    /\ \A s \in z.locAsked : s \in n.locAsked \/ (s = t.session /\ t.at = "locReq")
    /\ z.privAsked = IF k = MtLr /\ t.at = "privStarted" THEN n.privAsked \union {t.session}
                     ELSE n.privAsked
    /\ \A x \in z.sent : x \in n.sent \/ Says(k, t, x)

\* And with the machine.
Entry(e, n, k, t) ==
    /\ Shaped(e) /\ e.op = n.op /\ e.used = n.used
    /\ e.induced = n.induced /\ e.leftover = n.leftover
    /\ Closer(e, n)
    /\ \A j \in Machine \ {k} : e.mach[j] = n.mach[j]
    /\ Entered(k, e.mach[k], t)
    /\ e.fac => n.fac \/ Gives(k, t)
    /\ \A s \in e.locAsked : s \in n.locAsked \/ (s = t.session /\ t.at = "locReq")
    /\ e.privAsked = IF k = MtLr /\ t.at = "privStarted" THEN n.privAsked \union {t.session}
                     ELSE n.privAsked
    /\ \A x \in e.sent : x \in n.sent \/ Says(k, t, x)

LEMMA EntersPlain ==
    ASSUME NEW n, NEW k \in Machine, NEW t \in State(k), t = n.mach[k], NEW z,
           Around(z, n, k, t), t.at # "locReq", ~Gives(k, t)
    PROVE  Entry(z, n, k, t)
<1>1. Entered(k, t, t)
  BY DEF Entered, Kept
<1> QED
  BY <1>1 DEF Around, Entry

\* q are the timers of machine k on entering its state.
Timers(k, t, q) ==
    /\ q \in SUBSET TimerOf(k)
    /\ "location" \in q <=> "location" \in t.timers \/ t.at = "locReq"
    /\ "result" \in q <=> "result" \in t.timers \/ Gives(k, t)
    /\ k = MtLr /\ "request" \in q => "request" \in t.timers

LEMMA EntersTimed ==
    ASSUME NEW n, NEW k \in Machine, NEW t \in State(k), t = n.mach[k], NEW z,
           Around(z, n, k, t), NEW q, Timers(k, t, q)
    PROVE  Entry(Put(z, k, [t EXCEPT !.timers = q]), n, k, t)
<1> DEFINE x == [t EXCEPT !.timers = q]
           e == Put(z, k, x)
<1>1. x \in State(k)
  BY TimersAre DEF Timers
<1>2. /\ x.proto = t.proto /\ x.at = t.at /\ x.cancel = t.cancel /\ x.first = t.first
      /\ Kept(x, t) /\ x.timers = q
  BY DEF State, MachineState, Kept
<1> HIDE DEF x
<1>3. Entered(k, x, t)
  BY <1>1, <1>2 DEF Entered, Timers
<1>4. With([z EXCEPT !.mach[k] = x], z, k, x)
  BY <1>1, MachIs DEF Around
<1>5. With(e, z, k, x)
  BY <1>4 DEF Put
<1> HIDE DEF e
<1>6. Entry(e, n, k, t)
  BY <1>3, <1>5 DEF Entry, Around, With, Others, Closer
<1> QED
  BY <1>6 DEF e, x

\* v is w after the network was told c of session s.
IsTold(v, w, s, c) ==
    /\ Shaped(v) /\ v.mach = w.mach /\ v.op = w.op /\ v.used = w.used /\ v.lbs = w.lbs
    /\ v.locAsked = w.locAsked /\ v.privAsked = w.privAsked /\ v.induced = w.induced
    /\ v.leftover = w.leftover /\ v.fac = w.fac
    /\ \A x \in v.sent : x \in w.sent \/ x = <<s, c>>

LEMMA TellIs ==
    ASSUME NEW w, Shaped(w), NEW s \in AllSessions, NEW c \in {"position", "accepted"}
    PROVE  IsTold(Tell(w, s, c), w, s, c)
<1> DEFINE q == w.sent \union {<<s, c>>}
           v == [w EXCEPT !.sent = q]
<1>1. q \in SUBSET (AllSessions \X {"position", "accepted"})
  BY DEF Shaped, Worlds
<1>2. \A x \in q : x \in w.sent \/ x = <<s, c>>
  OBVIOUS
<1> HIDE DEF q
<1>3. /\ v \in Worlds /\ v.mach = w.mach /\ v.op = w.op /\ v.used = w.used /\ v.lbs = w.lbs
      /\ v.locAsked = w.locAsked /\ v.privAsked = w.privAsked /\ v.induced = w.induced
      /\ v.leftover = w.leftover /\ v.fac = w.fac /\ v.sent = q
  BY <1>1 DEF Shaped, Worlds
<1>4. Tell(w, s, c) = v
  BY DEF Tell, q
<1> HIDE DEF v
<1>5. IsTold(v, w, s, c)
  BY <1>2, <1>3 DEF IsTold, Shaped
<1> QED
  BY <1>4, <1>5

\* LBS is asked for the location.
LEMMA AskLocationEnters ==
    ASSUME NEW n, Shaped(n), NEW k \in Machine, NEW t, t = n.mach[k], t.session \in AllSessions,
           t.at = "locReq"
    PROVE  Entry(AskLocation(n, k), n, k, t)
<1> DEFINE p == n.locAsked \union {t.session}
           z == [n EXCEPT !.locAsked = p]
           q == t.timers \union {"location"}
<1>1. t \in State(k) /\ p \in SUBSET AllSessions
  BY DEF Shaped, Worlds
<1>2. Unasked(z, n, p, n.privAsked)
  <2> HIDE DEF p
  <2> QED
    BY <1>1, UnaskedIs
<1>3. ~Gives(k, t)
  BY DEF Gives
<1>4. Timers(k, t, q)
  BY <1>1, <1>3 DEF Timers, State, MachineState, TimerOf
<1>5. AskLocation(n, k) = Put(z, k, [z.mach[k] EXCEPT !.timers = z.mach[k].timers \union {"location"}])
  BY DEF AskLocation, Put
<1> HIDE DEF z
<1>6. Around(z, n, k, t) /\ z.mach[k] = t
  BY <1>2 DEF Around, Unasked, Closer
<1> HIDE DEF p
<1>7. AskLocation(n, k) = Put(z, k, [t EXCEPT !.timers = q])
  BY <1>5, <1>6
<1> HIDE DEF q
<1>8. Entry(Put(z, k, [t EXCEPT !.timers = q]), n, k, t)
  BY <1>1, <1>4, <1>6, EntersTimed
<1> QED
  BY <1>7, <1>8

\* The network gets a position.
LEMMA SendPositionEnters ==
    ASSUME NEW n, Shaped(n), NEW k \in Machine, NEW t, t = n.mach[k], t.session \in AllSessions,
           t.at = "locSent", LocRespReason(t) = "ok"
    PROVE  Entry(SendPosition(n, k), n, k, t)
<1> DEFINE p == Tell(n, t.session, "position")
           z == [p EXCEPT !.fac = TRUE]
           q == t.timers \union {"result"}
<1>1. t \in State(k)
  BY DEF Shaped
<1>2. IsTold(p, n, t.session, "position")
  BY TellIs
<1> HIDE DEF p
<1>3. CASE k \in {MtLr, "netloc"}
  <2>1. ~Gives(k, t)
    BY <1>3 DEF Gives
  <2>2. Around(p, n, k, t)
    BY <1>2 DEF IsTold, Around, Says, Closer
  <2>3. Entry(p, n, k, t)
    BY <1>1, <2>1, <2>2, EntersPlain
  <2> QED
    BY <1>3, <2>3 DEF SendPosition, p
<1>4. CASE k \notin {MtLr, "netloc"}
  <2>1. Gives(k, t)
    BY <1>4 DEF Gives
  <2>2. Data(z, p) /\ z.sent = p.sent
    BY <1>2, DataIs DEF IsTold
  <2>3. Timers(k, t, q)
    BY <1>1, <1>4, <2>1 DEF Timers, State, MachineState, TimerOf, Machine, Originated
  <2>4. SendPosition(n, k) = Put(z, k, [z.mach[k] EXCEPT !.timers = z.mach[k].timers \union {"result"}])
    BY <1>4 DEF SendPosition, Put, p
  <2> HIDE DEF z
  <2>5. Around(z, n, k, t) /\ z.mach[k] = t
    BY <1>2, <2>1, <2>2 DEF IsTold, Data, Around, Says, Closer
  <2>6. SendPosition(n, k) = Put(z, k, [t EXCEPT !.timers = q])
    BY <2>4, <2>5
  <2> HIDE DEF q
  <2>7. Entry(Put(z, k, [t EXCEPT !.timers = q]), n, k, t)
    BY <1>1, <2>3, <2>5, EntersTimed
  <2> QED
    BY <2>6, <2>7
<1> QED
  BY <1>3, <1>4

\* Nothing is asked.
LEMMA StaysEnters ==
    ASSUME NEW n, Shaped(n), NEW k \in Machine, NEW t, t = n.mach[k],
           t.at # "locReq", ~Gives(k, t), ~(k = MtLr /\ t.at = "privStarted")
    PROVE  Entry(n, n, k, t)
<1>1. t \in State(k) /\ Around(n, n, k, t)
  BY DEF Shaped, Around, Closer
<1> QED
  BY <1>1, EntersPlain

LEMMA OriginatedEntry ==
    ASSUME NEW n, Shaped(n), NEW k \in Machine, k # MtLr, NEW t, t = n.mach[k],
           t.session \in AllSessions
    PROVE  Entry(EnterOriginated(n, k), n, k, t)
<1>1. t \in State(k)
  BY DEF Shaped
<1>2. CASE t.at = "netStarted"
  <2> DEFINE q == t.timers \union {"request"}
  <2>1. EnterOriginated(n, k) = Put(n, k, [t EXCEPT !.timers = q])
    BY <1>2 DEF EnterOriginated, Put
  <2>2. Timers(k, t, q)
    BY <1>1, <1>2 DEF Timers, State, MachineState, TimerOf, Gives
  <2>3. Around(n, n, k, t)
    BY DEF Around, Closer
  <2> HIDE DEF q
  <2>4. Entry(Put(n, k, [t EXCEPT !.timers = q]), n, k, t)
    BY <1>1, <2>2, <2>3, EntersTimed
  <2> QED
    BY <2>1, <2>4
<1>3. CASE t.at = "locReq"
  BY <1>3, AskLocationEnters DEF EnterOriginated
<1>4. CASE t.at = "locSent" /\ LocRespReason(t) = "ok"
  BY <1>4, SendPositionEnters DEF EnterOriginated
<1>5. CASE t.at \notin {"netStarted", "locReq"} /\ ~(t.at = "locSent" /\ LocRespReason(t) = "ok")
  <2>1. EnterOriginated(n, k) = n
    BY <1>5 DEF EnterOriginated
  <2>2. Entry(n, n, k, t)
    BY <1>5, StaysEnters DEF Gives
  <2> QED
    BY <2>1, <2>2
<1> QED
  BY <1>2, <1>3, <1>4, <1>5

LEMMA MtLrRespEnters ==
    ASSUME NEW n, Shaped(n), NEW t, t = n.mach[MtLr], t.session \in AllSessions,
           t.at \in {"privRecvd", "privAfter", "cancelling"}
    PROVE  Entry(MtLrResp(n, t), n, MtLr, t)
<1>0. MtLr \in Machine
  BY DEF Machine
<1>1. t \in State(MtLr) /\ ~Gives(MtLr, t)
  BY <1>0 DEF Shaped, Gives
<1>2. CASE t.answer = "accepted"
  <2>1. IsTold(Tell(n, t.session, "accepted"), n, t.session, "accepted")
    BY TellIs
  <2> DEFINE p == Tell(n, t.session, "accepted")
  <2> HIDE DEF p
  <2>2. Around(p, n, MtLr, t)
    BY <1>2, <2>1 DEF IsTold, Around, Says, Closer, p
  <2>3. Entry(p, n, MtLr, t)
    BY <1>0, <1>1, <2>2, EntersPlain
  <2> QED
    BY <1>2, <2>3 DEF MtLrResp, p
<1>3. CASE t.answer # "accepted"
  BY <1>0, <1>1, <1>3, StaysEnters DEF MtLrResp
<1> QED
  BY <1>2, <1>3

LEMMA MtLrEntry ==
    ASSUME NEW n, Shaped(n), NEW t, t = n.mach[MtLr], t.session \in InternalSession
    PROVE  Entry(EnterMtLr(n), n, MtLr, t)
<1>1. MtLr \in Machine /\ t.session \in AllSessions
  BY DEF Machine, AllSessions
<1>2. t \in State(MtLr)
  BY <1>1 DEF Shaped
<1>3. ~Gives(MtLr, t)
  BY DEF Gives
<1>4. CASE t.at = "privStarted"
  <2> DEFINE q == n.privAsked \union {t.session}
             z == [n EXCEPT !.privAsked = q]
  <2>1. q \in SUBSET InternalSession
    BY DEF Shaped, Worlds
  <2>2. Unasked(z, n, n.locAsked, q)
    <3> HIDE DEF q
    <3> QED
      BY <2>1, UnaskedIs
  <2>3. EnterMtLr(n) = z
    BY <1>4 DEF EnterMtLr
  <2> HIDE DEF z
  <2>4. Around(z, n, MtLr, t)
    BY <1>4, <2>2 DEF Unasked, Around, Closer
  <2>5. Entry(z, n, MtLr, t)
    BY <1>1, <1>2, <1>3, <1>4, <2>4, EntersPlain
  <2> QED
    BY <2>3, <2>5
<1>5. CASE t.at \in {"privRecvd", "privAfter"} \/ (t.at = "cancelling" /\ ~t.handled)
  <2>1. EnterMtLr(n) = MtLrResp(n, t)
    BY <1>5 DEF EnterMtLr
  <2>2. Entry(MtLrResp(n, t), n, MtLr, t)
    BY <1>1, <1>5, MtLrRespEnters
  <2> QED
    BY <2>1, <2>2
<1>6. CASE t.at = "locReq"
  <2>1. EnterMtLr(n) = AskLocation(n, MtLr)
    BY <1>6 DEF EnterMtLr
  <2> QED
    BY <1>1, <1>6, <2>1, AskLocationEnters
<1>7. CASE t.at = "locSent" /\ LocRespReason(t) = "ok"
  <2>1. EnterMtLr(n) = SendPosition(n, MtLr)
    BY <1>7 DEF EnterMtLr
  <2> QED
    BY <1>1, <1>7, <2>1, SendPositionEnters
<1>8. CASE t.at \in {"closeWait", "closeAfter", "closeWaitLoc"}
  <2> DEFINE d == SessionCompleteInd(n, t.session)
  <2>1. EnterMtLr(n) = d
    BY <1>8 DEF EnterMtLr
  <2>2. Heard(d, n)
    BY CompleteHeard
  <2> HIDE DEF d
  <2>3. Around(d, n, MtLr, t)
    BY <1>8, <2>2 DEF Heard, Around
  <2>4. Entry(d, n, MtLr, t)
    BY <1>1, <1>2, <1>3, <1>8, <2>3, EntersPlain
  <2> QED
    BY <2>1, <2>4
<1>9. CASE /\ t.at \notin {"privStarted", "privRecvd", "privAfter", "locReq", "closeWait",
                           "closeAfter", "closeWaitLoc"}
           /\ ~(t.at = "locSent" /\ LocRespReason(t) = "ok")
           /\ ~(t.at = "cancelling" /\ ~t.handled)
  <2>1. EnterMtLr(n) = n
    BY <1>9 DEF EnterMtLr
  <2>2. Entry(n, n, MtLr, t)
    BY <1>1, <1>3, <1>9, StaysEnters
  <2> QED
    BY <2>1, <2>2
<1> QED
  BY <1>4, <1>5, <1>6, <1>7, <1>8, <1>9

\* And what machine k enters, whichever it is.
EnterIt(n, k) == IF k = MtLr THEN EnterMtLr(n) ELSE EnterOriginated(n, k)

LEMMA EntryIs ==
    ASSUME NEW n, Shaped(n), NEW k \in Machine, NEW t, t = n.mach[k],
           t.session \in IF k = MtLr THEN InternalSession ELSE AllSessions
    PROVE  Entry(EnterIt(n, k), n, k, t)
<1>1. CASE k = MtLr
  BY <1>1, MtLrEntry DEF EnterIt
<1>2. CASE k # MtLr
  BY <1>2, OriginatedEntry DEF EnterIt
<1> QED
  BY <1>1, <1>2

\* Then assistance data are asked for.
LEMMA AssistEntry ==
    ASSUME NEW k \in Machine, NEW n, \A j \in Machine \ {k} : n.mach[j].proto = "ready",
           NEW t, NEW e, Entry(e, n, k, t)
    PROVE  Entry(AssistActions(e, k), n, k, t)
<1> DEFINE m == e.mach[k]
           y == [m EXCEPT !.assist = FALSE]
           z == Put(e, k, y)
           v == DoAssistanceDataActions(z)
<1>1. CASE ~m.assist
  <2>1. AssistActions(e, k) = e
    BY <1>1 DEF AssistActions
  <2> QED
    BY <2>1
<1>2. CASE m.assist
  <2>1. AssistActions(e, k) = v
    BY <1>2 DEF AssistActions, Put
  <2>2. m \in State(k) /\ Shaped(e) /\ Entered(k, m, t)
    BY DEF Entry, Entered
  <2>3. y \in State(k) /\ Entered(k, y, t)
    <3>1. y \in State(k)
      BY <2>2, FlagsAre
    <3>2. /\ y.proto = m.proto /\ y.at = m.at /\ y.cancel = m.cancel /\ y.first = m.first
          /\ Kept(y, m) /\ y.timers = m.timers
      BY <2>2 DEF State, MachineState, Kept
    <3> HIDE DEF m, y
    <3> QED
      BY <2>2, <3>1, <3>2 DEF Entered, Kept
  <2> HIDE DEF y
  <2>4. With([e EXCEPT !.mach[k] = y], e, k, y)
    BY <2>2, <2>3, MachIs
  <2>5. With(z, e, k, y)
    BY <2>4 DEF Put
  <2> HIDE DEF z
  <2>6. Asked(v, z)
    BY <2>5, DoAssistIs DEF With
  <2> HIDE DEF v
  <2>7. \A j \in Machine \ {k} : v.mach[j] = n.mach[j]
    <3> SUFFICES ASSUME NEW j \in Machine \ {k} PROVE v.mach[j] = n.mach[j]
      OBVIOUS
    <3>1. z.mach[j] = n.mach[j] /\ n.mach[j].proto = "ready"
      BY <2>5 DEF With, Entry
    <3>2. Assisted(v.mach[j], z.mach[j])
      BY <2>6 DEF Asked
    <3> QED
      BY <3>1, <3>2 DEF Assisted
  <2>8. Entered(k, v.mach[k], t)
    <3> DEFINE x == v.mach[k]
    <3>1. Assisted(x, y) /\ x \in State(k)
      BY <2>5, <2>6 DEF Asked, With, Shaped
    <3> HIDE DEF x
    <3>2. CASE x = y
      BY <2>3, <3>2 DEF x
    <3>3. CASE x # y
      <4>1. x = [y EXCEPT !.timers = y.timers \union {"assist"}]
        BY <3>1, <3>3 DEF Assisted
      <4>2. /\ x.proto = y.proto /\ x.at = y.at /\ x.cancel = y.cancel /\ x.first = y.first
            /\ Kept(x, y) /\ x.timers = y.timers \union {"assist"}
        BY <2>3, <4>1 DEF State, MachineState, Kept
      <4> HIDE DEF m
      <4>3. Entered(k, x, t)
        BY <2>3, <3>1, <4>2 DEF Entered, Kept
      <4> QED
        BY <4>3 DEF x
    <3> QED
      BY <3>2, <3>3
  <2>9. Entry(v, n, k, t)
    BY <2>5, <2>6, <2>7, <2>8 DEF Entry, With, Others, Asked, Closer
  <2> QED
    BY <2>1, <2>9
<1> QED
  BY <1>1, <1>2

\* At last the machine goes on, or looks into its queue.
Finish(a, k) ==
    CheckQueue(IF Transitory(k, a.mach[k]) THEN [a EXCEPT !.mach[k] = Perform(@)] ELSE a, k)

LEMMA FinishIs ==
    ASSUME NEW e, Shaped(e), NEW k \in Machine, e.mach[k].stage = "null", ~e.mach[k].run
    PROVE  With(Finish(e, k), e, k, Settle(k, e.mach[k]))
<1> DEFINE m == e.mach[k]
           x == IF Transitory(k, m) THEN Perform(m) ELSE m
           n == [x EXCEPT !.pending = @ - 1]
           y == Settle(k, m)
           p == IF Transitory(k, m) THEN [e EXCEPT !.mach[k] = Perform(m)] ELSE e
           v == Finish(e, k)
<1>1. m \in State(k)
  BY DEF Shaped
<1>2. x \in State(k)
  BY <1>1, PerformIs
<1>3. y \in State(k)
  <2>1. Settled(k, y, m)
    BY <1>1, SettleIs
  <2> QED
    BY <2>1 DEF Settled
<1>4. y = IF x.run \/ x.pending = 0 THEN x ELSE IF k = "x3p" /\ x.still THEN n ELSE Perform(n)
  BY DEF Settle
<1>5. v = CheckQueue(p, k)
  BY DEF Finish
<1>6. With(p, e, k, x)
  <2>1. CASE Transitory(k, m)
    <3>1. x = Perform(m) /\ p = [e EXCEPT !.mach[k] = Perform(m)]
      BY <2>1
    <3> HIDE DEF x, p, m
    <3>2. With([e EXCEPT !.mach[k] = x], e, k, x)
      BY <1>2, MachIs
    <3> QED
      BY <3>1, <3>2
  <2>2. CASE ~Transitory(k, m)
    <3>1. x = m /\ p = e
      BY <2>2
    <3> HIDE DEF x, p
    <3> QED
      BY <3>1 DEF With, Others
  <2> QED
    BY <2>1, <2>2
<1> HIDE DEF x, p, m, y, v
<1>7. p.mach[k] = x /\ Shaped(p)
  BY <1>6 DEF With
<1>8. CASE x.run \/ x.pending = 0
  <2>1. v = p /\ y = x
    BY <1>4, <1>5, <1>7, <1>8 DEF CheckQueue
  <2>2. With(v, e, k, y)
    BY <1>6, <2>1
  <2> QED
    BY <2>2 DEF v, y, m
<1>9. CASE ~(x.run \/ x.pending = 0)
  <2>1. y = IF k = "x3p" /\ x.still THEN n ELSE Perform(n)
    BY <1>4, <1>9
  <2>2. v = [p EXCEPT !.mach[k] = IF k = "x3p" /\ x.still THEN n ELSE Perform(n)]
    BY <1>5, <1>7, <1>9 DEF CheckQueue
  <2> HIDE DEF n
  <2>3. v = [p EXCEPT !.mach[k] = y]
    BY <2>1, <2>2
  <2>4. With([p EXCEPT !.mach[k] = y], p, k, y)
    BY <1>3, <1>7, MachIs
  <2>5. With(v, p, k, y)
    BY <2>3, <2>4
  <2>6. With(v, e, k, y)
    BY <1>6, <2>5 DEF With, Others
  <2> QED
    BY <2>6 DEF v, y, m
<1> QED
  BY <1>8, <1>9

\* The world in which machine k has entered its new state, t.
Arrived(u, k, t) ==
    LET n == Put(u, k, t) IN
    IF t.proto = "ready"
    THEN [ProcedureCompleteInd(n) EXCEPT !.leftover = @ \/ t.pending > 0] ELSE n

LEMMA EnterStateIs ==
    ASSUME NEW u, Shaped(u), NEW k \in Machine,
           NEW t, t = Transition(k, Entering(u.mach[k]))
    PROVE  EnterState([u EXCEPT !.mach[k].run = FALSE], k)
              = Finish(AssistActions(EnterIt(Arrived(u, k, t), k), k), k)
<1> DEFINE m == u.mach[k]
           x == [m EXCEPT !.run = FALSE]
           w == [u EXCEPT !.mach[k].run = FALSE]
<1>1. w = Put(u, k, x)
  BY DEF Put
<1>2. w.mach[k] = x
  <2> HIDE DEF x, w
  <2> QED
    BY <1>1, MachTwice
<1>3. [x EXCEPT !.stage = "null"] = Entering(m)
  BY DEF Entering
<1> HIDE DEF w
<1>4. [w.mach[k] EXCEPT !.stage = "null"] = Entering(m)
  BY <1>2, <1>3
<1>5. Put(w, k, t) = Put(u, k, t)
  <2> HIDE DEF x
  <2>1. Put(Put(u, k, x), k, t) = Put(u, k, t)
    BY MachTwice
  <2> QED
    BY <1>1, <2>1
<1> DEFINE y == [w.mach[k] EXCEPT !.stage = "null"]
<1>6. Transition(k, y) = t
  BY <1>4
<1> HIDE DEF x
<1>7. EnterState(w, k) = LET n == Put(w, k, Transition(k, y))
                             done == Transition(k, y).proto = "ready"
                             c == IF done THEN [ProcedureCompleteInd(n) EXCEPT
                                                   !.leftover = @ \/ Transition(k, y).pending > 0] ELSE n
                         IN  Finish(AssistActions(EnterIt(c, k), k), k)
  BY DEF EnterState, Put, Finish, EnterIt
<1> HIDE DEF y
<1>8. EnterState(w, k) = Finish(AssistActions(EnterIt(Arrived(u, k, t), k), k), k)
  BY <1>5, <1>6, <1>7 DEF Arrived
<1> QED
  BY <1>8 DEF w

\* t is y after a transition.
Turned(t, k, y) == t \in State(k) /\ Kept(t, y) /\ t.cancel = FALSE

LEMMA TransitionIs ==
    ASSUME NEW k \in Machine, NEW y \in State(k)
    PROVE  Turned(Transition(k, y), k, y)
<1> DEFINE t == Transition(k, y)
<1>1. CASE y.cancel
  <2>1. t \in State(k) /\ Kept(t, y) /\ t.cancel = FALSE
    BY <1>1, ToCancelling
  <2> QED
    BY <2>1 DEF Turned
<1>2. CASE ~y.cancel
  <2>1. y.cancel = FALSE
    BY <1>2 DEF State, MachineState
  <2>2. t \in State(k) /\ Kept(t, y) /\ t.cancel = y.cancel
    <3>1. CASE k = MtLr
      <4>1. Went(t, y)
        BY <1>2, <3>1, MtLrGoes
      <4> QED
        BY <3>1, <4>1 DEF Went
    <3>2. CASE k # MtLr
      BY <1>2, <3>2, OriginatedGoes
    <3> QED
      BY <3>1, <3>2
  <2> QED
    BY <2>1, <2>2 DEF Turned
<1> QED
  BY <1>1, <1>2

\* What is sent in world v is agreed.
StaleIn(v, a) ==
    /\ Cancelling(v.mach[MtLr])
    /\ v.induced # {} \/ \E s \in InternalSession : a[s] = "accepted"

Agreed(v, l, a) ==
    \A s \in AllSessions :
        /\ <<s, "accepted">> \in v.sent => a[s] = "accepted" \/ StaleIn(v, a)
        /\ <<s, "position">> \in v.sent => s \in l

\* What a run of a machine leaves in world v, which was u.
RunsOn(v, u, l, a) ==
    /\ Lasts(v, l, a) /\ Agreed(v, l, a)
    /\ ~v.leftover => \A b \in Budget : Room(u, b) => Room(v, b)

\* z is machine k, which was m, in its new state t.
Settling(z, k, m, t) ==
    /\ z \in State(k) /\ z.proto = t.proto /\ z.at = t.at /\ z.cancel = FALSE
    /\ z.source = m.source /\ z.session = m.session /\ z.queued = m.queued
    /\ z.next = m.next /\ z.answer = m.answer /\ z.still = m.still /\ z.recvd = m.recvd
    /\ t.session = m.session /\ t.answer = m.answer

LEMMA SettlingIs ==
    ASSUME NEW k \in Machine, NEW m \in State(k), NEW t, t = Transition(k, Entering(m)),
           NEW x, Entered(k, x, t)
    PROVE  /\ x.stage = "null" /\ x.run = FALSE
           /\ Settling(Settle(k, x), k, m, t)
<1> DEFINE y == Entering(m)
           z == Settle(k, x)
<1>1. y \in State(k) /\ Alike(y, m) /\ y.run = FALSE /\ y.stage = "null"
  BY EnteringIs
<1>2. t = Transition(k, y)
  OBVIOUS
<1> HIDE DEF y
<1>3. Turned(t, k, y)
  BY <1>1, <1>2, TransitionIs
<1>4. x.stage = "null" /\ x.run = FALSE /\ x \in State(k)
  BY <1>1, <1>3 DEF Turned, Entered, Kept
<1>5. Settled(k, z, x)
  BY <1>4, SettleIs
<1> HIDE DEF z
<1>6. Settling(z, k, m, t)
  BY <1>1, <1>3, <1>5 DEF Turned, Entered, Kept, Settled, Alike, Settling
<1> QED
  BY <1>4, <1>6 DEF z

\* What the position and the requests become with the new state t.
Asking(k, t, fa, la, pa, fa2, la2, pa2) ==
    /\ fa2 => fa \/ Gives(k, t)
    /\ la2 => la \/ t.at = "locReq"
    /\ k = MtLr => (pa2 <=> pa \/ t.at = "privStarted")

LEMMA EnteredFits ==
    ASSUME NEW k \in Machine, NEW m \in State(k),
           NEW fa, NEW la, NEW pa, NEW lo, NEW ind, NEW d,
           Fit(k, m, fa, la, pa, lo, ind, d), m.proto # "ready", m.stage = "enter",
           NEW t, t = Transition(k, Entering(m)), t.proto # "ready",
           NEW x, Entered(k, x, t),
           NEW fa2, NEW la2, NEW pa2, Asking(k, t, fa, la, pa, fa2, la2, pa2)
    PROVE  Newly(k, Settle(k, x), m, t, fa2, la2, pa2, lo, ind, d)
<1>1. CASE k = MtLr
  <2>1. m \in State(MtLr) /\ Fit(MtLr, m, fa, la, pa, lo, ind, d)
        /\ t = Transition(MtLr, Entering(m)) /\ Entered(MtLr, x, t) /\ (fa2 => fa)
        /\ (la2 => la \/ t.at = "locReq") /\ (pa2 <=> pa \/ t.at = "privStarted")
    BY <1>1 DEF Gives, Asking
  <2>2. Newly(MtLr, Settle(MtLr, x), m, t, fa2, la2, pa2, lo, ind, d)
    BY <2>1, MtLrEnters
  <2> QED
    BY <1>1, <2>2
<1>2. CASE k # MtLr
  BY <1>2, OriginatedEnters DEF Asking
<1> QED
  BY <1>1, <1>2

\* What a procedure that lasts is in its new state.
LEMMA GoesOn ==
    ASSUME NEW u, NEW l, NEW a, Live(u, Session, l, a), NEW k \in Machine,
           u.mach[k].stage = "enter",
           NEW t, t = Transition(k, Entering(u.mach[k])), t.proto # "ready"
    PROVE  RunsOn(EnterState([u EXCEPT !.mach[k].run = FALSE], k), u, l, a)
<1> DEFINE m == u.mach[k]
           n == Put(u, k, t)
           e == AssistActions(EnterIt(n, k), k)
           x == e.mach[k]
           z == Settle(k, x)
           v == Finish(e, k)
           s == m.session
           d == IF s \in InternalSession THEN a[s] ELSE "unknown"
<1>1. /\ Shaped(u) /\ m \in State(k) /\ FitIn(k, u, l, a) /\ One(u) /\ Owned(u) /\ Sound(u, a)
      /\ Known(u) /\ Held(u, Session) /\ Follows(u) /\ Fits(u, l, a) /\ ~u.leftover /\ u.sent = {}
  BY DEF Live, Sound, Shaped, Fits
<1>2. m.proto # "ready"
  BY <1>1 DEF FitIn, Fit, Rest
<1>3. t \in State(k) /\ t.session = s
  <2> DEFINE y == Entering(m)
  <2>1. y \in State(k) /\ Alike(y, m)
    BY <1>1, EnteringIs
  <2>2. t = Transition(k, y)
    OBVIOUS
  <2> HIDE DEF y
  <2>3. Turned(t, k, y)
    BY <2>1, <2>2, TransitionIs
  <2> QED
    BY <2>1, <2>3 DEF Turned, Kept, Alike
<1>4. With(n, u, k, t)
  <2>1. With([u EXCEPT !.mach[k] = t], u, k, t)
    BY <1>1, <1>3, MachIs
  <2> QED
    BY <2>1 DEF Put
<1> HIDE DEF n
<1>5. s \in IF k = MtLr THEN InternalSession ELSE AllSessions
  <2>1. Owns(k, m, u)
    BY <1>1, <1>2 DEF Owned
  <2>2. Given(u) \subseteq InternalSession
    BY <1>1, GivenAreInternal
  <2> QED
    BY <2>1, <2>2 DEF Owns, AllSessions
<1>6. \A j \in Machine \ {k} : u.mach[j].proto = "ready"
  BY <1>1, <1>2 DEF One
<1>7. Entry(e, n, k, t)
  <2>1. Entry(EnterIt(n, k), n, k, t)
    BY <1>3, <1>4, <1>5, EntryIs DEF With
  <2>2. \A j \in Machine \ {k} : n.mach[j].proto = "ready"
    BY <1>4, <1>6 DEF With
  <2> QED
    BY <2>1, <2>2, AssistEntry
<1> HIDE DEF e
<1>8. Shaped(e) /\ Entered(k, x, t)
  BY <1>7 DEF Entry
<1>9. x.stage = "null" /\ x.run = FALSE /\ Settling(z, k, m, t)
  <2> HIDE DEF x, m
  <2>1. m \in State(k) /\ t = Transition(k, Entering(m)) /\ Entered(k, x, t)
    BY <1>1, <1>8 DEF m
  <2> QED
    BY <2>1, SettlingIs
<1>10. With(v, e, k, z)
  BY <1>8, <1>9, FinishIs
<1> HIDE DEF x, z, v
<1>11. /\ Shaped(v) /\ v.op = u.op /\ v.used = u.used /\ v.induced = u.induced
       /\ v.leftover = u.leftover /\ Closer(v, u) /\ v.mach[k] = z
       /\ \A j \in Machine \ {k} : v.mach[j] = u.mach[j]
       /\ v.fac => u.fac \/ Gives(k, t)
       /\ \A r \in v.locAsked : r \in u.locAsked \/ (r = s /\ t.at = "locReq")
       /\ v.privAsked = IF k = MtLr /\ t.at = "privStarted" THEN u.privAsked \union {s}
                        ELSE u.privAsked
       /\ \A r \in v.sent : Says(k, t, r)
  BY <1>1, <1>3, <1>4, <1>7, <1>10 DEF With, Others, Entry, Closer
<1> DEFINE la == s \in u.locAsked
           pa == s \in u.privAsked
           lo == s \in l
           ind == s \in u.induced
           la2 == s \in v.locAsked
           pa2 == s \in v.privAsked
<1>12. Newly(k, z, m, t, v.fac, la2, pa2, lo, ind, d)
  <2>1. Fit(k, m, u.fac, la, pa, lo, ind, d)
    BY <1>1 DEF FitIn
  <2>2. (la2 => la \/ t.at = "locReq") /\ (k = MtLr => (pa2 <=> pa \/ t.at = "privStarted"))
    BY <1>11
  <2>3. m \in State(k) /\ m.proto # "ready" /\ m.stage = "enter"
        /\ t = Transition(k, Entering(m)) /\ t.proto # "ready" /\ Entered(k, x, t)
        /\ (v.fac => u.fac \/ Gives(k, t))
    BY <1>1, <1>2, <1>8, <1>11
  <2> DEFINE f == u.fac
             f2 == v.fac
  <2>4. Fit(k, m, f, la, pa, lo, ind, d) /\ Asking(k, t, f, la, pa, f2, la2, pa2)
    <3>1. f2 => f \/ Gives(k, t)
      BY <2>3
    <3> HIDE DEF la, pa, la2, pa2, f, f2
    <3>2. Asking(k, t, f, la, pa, f2, la2, pa2)
      BY <2>2, <3>1 DEF Asking
    <3> QED
      BY <2>1, <3>2 DEF f
  <2> HIDE DEF la, pa, lo, ind, la2, pa2, d, m, f, f2
  <2>5. Newly(k, Settle(k, x), m, t, f2, la2, pa2, lo, ind, d)
    BY <2>3, <2>4, EnteredFits
  <2> QED
    BY <2>5 DEF z, f2
<1>13. z.proto # "ready" /\ z.session = s
  BY <1>9 DEF Settling
<1>14. FitIn(k, v, l, a)
  BY <1>11, <1>12, <1>13 DEF FitIn, Newly
<1>15. Fits(v, l, a)
  BY <1>1, <1>2, <1>11, <1>13, <1>14, RunnerFits
<1>16. Near(v, u, a)
  <2>1. \A j \in Machine : Goes(j, v.mach[j], u.mach[j], v)
    <3>1. \A j \in Machine \ {k} : Goes(j, u.mach[j], u.mach[j], v)
      BY DEF Goes
    <3>2. Goes(k, z, m, v)
      BY <1>2, <1>9, <1>12, <1>13 DEF Goes, Settling, Newly
    <3> QED
      BY <1>11, <3>1, <3>2
  <2>2. \A r \in v.privAsked : r \in u.privAsked
          \/ (v.mach[MtLr].proto # "ready" /\ v.mach[MtLr].session = r /\ a[r] = "unknown")
    <3>1. CASE k = MtLr /\ t.at = "privStarted"
      <4>1. pa2 /\ z.at = "privStarted" /\ z.cancel = FALSE
        BY <1>9, <1>11, <3>1 DEF Settling
      <4>2. Runs(MtLr, z, v.fac, la2, pa2, lo, ind, d)
        BY <1>12, <1>13, <3>1 DEF Newly, Fit
      <4>3. z.proto # "cancelling"
        BY <4>1, <4>2 DEF Runs, Cancelling, Ends
      <4>4. z.proto = "active"
        BY <1>9, <1>13, <3>1, <4>3 DEF Settling, State, MachineState
      <4>5. Serves(z, la2, pa2, lo, ind, d)
        BY <4>1, <4>2, <4>4 DEF Runs, Calm
      <4>6. d = "unknown"
        BY <4>1, <4>5 DEF Serves
      <4>7. a[s] = "unknown"
        BY <1>5, <3>1, <4>6
      <4> QED
        BY <1>11, <1>13, <3>1, <4>7
    <3>2. CASE ~(k = MtLr /\ t.at = "privStarted")
      BY <1>11, <3>2
    <3> QED
      BY <3>1, <3>2
  <2> QED
    BY <1>11, <1>13, <2>1, <2>2 DEF Near
<1>17. Sound(v, a) /\ Carried(v, u)
  BY <1>1, <1>16, NearIs
<1>18. Lasts(v, l, a)
  BY <1>1, <1>15, <1>17 DEF Lasts, Carried
<1>19. Agreed(v, l, a)
  <2> SUFFICES ASSUME NEW r \in AllSessions
               PROVE  /\ <<r, "accepted">> \in v.sent => a[r] = "accepted" \/ StaleIn(v, a)
                      /\ <<r, "position">> \in v.sent => r \in l
    BY DEF Agreed
  <2>1. <<r, "position">> \in v.sent => r \in l
    <3>1. <<r, "position">> \in v.sent => r = s /\ t.at = "locSent" /\ LocRespReason(t) = "ok"
      BY <1>3, <1>11 DEF Says
    <3> QED
      BY <1>12, <3>1 DEF Newly
  <2>2. ASSUME <<r, "accepted">> \in v.sent
        PROVE  a[r] = "accepted" \/ StaleIn(v, a)
    <3>1. /\ r = s /\ k = MtLr /\ t.answer = "accepted"
          /\ t.at \in {"privRecvd", "privAfter", "cancelling"}
      BY <1>3, <1>11, <2>2 DEF Says
    <3>2. CASE t.at \in {"privRecvd", "privAfter"}
      <4>1. t.answer = d
        BY <1>12, <3>1, <3>2 DEF Newly
      <4> QED
        BY <1>5, <3>1, <4>1
    <3>3. CASE t.at = "cancelling"
      <4>1. Runs(MtLr, z, v.fac, la2, pa2, lo, ind, d)
        BY <1>12, <1>13, <3>1 DEF Newly, Fit
      <4>2. Cancelling(z) /\ z.answer = "accepted"
        BY <1>9, <3>1, <3>3, <4>1 DEF Settling, Runs
      <4>3. Answered(v, a)
        BY <1>17 DEF Sound
      <4> QED
        BY <1>11, <3>1, <4>2, <4>3 DEF Answered, StaleIn
    <3> QED
      BY <3>1, <3>2, <3>3
  <2> QED
    BY <2>1, <2>2
<1>20. RunsOn(v, u, l, a)
  BY <1>17, <1>18, <1>19 DEF RunsOn, Carried
<1>21. EnterState([u EXCEPT !.mach[k].run = FALSE], k)
          = Finish(AssistActions(EnterIt(Arrived(u, k, t), k), k), k)
  BY <1>1, EnterStateIs
<1>22. Arrived(u, k, t) = n
  BY DEF Arrived, n
<1> QED
  BY <1>20, <1>21, <1>22 DEF v, e

\* t is machine k, which was m, at the end of its procedure.
Finished(t, m, k, fa) ==
    /\ t \in State(k) /\ t.proto = "ready" /\ t.at = "null" /\ t.stage = "null"
    /\ t.run = FALSE /\ t.cancel = FALSE
    /\ t.session = m.session /\ t.queued = m.queued /\ t.next = m.next
    /\ t.answer = m.answer /\ t.still = m.still
    /\ t.pending = 0 => Rest(k, t)
    /\ ~fa /\ (k # MtLr => Past(m))

LEMMA EndIs ==
    ASSUME NEW k \in Machine, NEW m \in State(k),
           NEW fa, NEW la, NEW pa, NEW lo, NEW ind, NEW d,
           Fit(k, m, fa, la, pa, lo, ind, d), m.proto # "ready", m.stage = "enter",
           NEW t, t = Transition(k, Entering(m)), t.proto = "ready"
    PROVE  Finished(t, m, k, fa)
<1> DEFINE y == Entering(m)
<1>1. y \in State(k) /\ Alike(y, m) /\ y.run = FALSE /\ y.stage = "null"
  BY EnteringIs
<1>2. t = Transition(k, y)
  OBVIOUS
<1> HIDE DEF y
<1>3. Turned(t, k, y)
  BY <1>1, <1>2, TransitionIs
<1>4. y.cancel = FALSE /\ m.cancel = FALSE
  <2>1. CASE y.cancel
    <3>1. Transition(k, y).proto = "cancelling"
      BY <1>1, <2>1, ToCancelling
    <3> QED
      BY <1>2, <3>1
  <2> QED
    BY <1>1, <2>1 DEF State, MachineState, Alike
<1>5. Runs(k, m, fa, la, pa, lo, ind, d)
  BY DEF Fit
<1>6. Calm(m) \/ Cancelling(m)
  BY <1>4 DEF Calm, Cancelling, State, MachineState
<1>7. /\ t.at = "null" /\ ~fa /\ (k # MtLr => Past(m))
      /\ t.timers \intersect Harm(k) = {}
  <2>1. CASE k # MtLr
    <3>1. t.timers = y.timers /\ IF y.at = "closed" THEN t.at = "null" ELSE t.proto = y.proto
      BY <1>1, <1>2, <1>4, <2>1, OriginatedGoes
    <3>2. m.at = "closed" /\ t.at = "null" /\ t.timers = m.timers
      BY <1>1, <3>1 DEF Alike
    <3>3. m.timers \intersect Harm(k) = {}
      <4>1. CASE Cancelling(m)
        BY <1>5, <4>1 DEF Runs
      <4>2. CASE Calm(m)
        <5>1. Asks(m, la, lo)
          BY <1>5, <2>1, <4>2 DEF Runs
        <5> QED
          BY <2>1, <3>2, <5>1 DEF Asks, Harm
      <4> QED
        BY <1>6, <4>1, <4>2
    <3>4. ~fa
      BY <1>4, <1>5, <3>2 DEF Runs, Gave
    <3> QED
      BY <3>2, <3>3, <3>4 DEF Past
  <2>2. CASE k = MtLr
    <3>1. Went(t, y)
      BY <1>1, <1>2, <1>4, <2>2, MtLrGoes
    <3>2. /\ t.at = "null" /\ t.timers \intersect Harm(k) \subseteq m.timers
          /\ \/ m.at \in {"closeWaitLoc", "closeAfter", "cancelling"}
             \/ m.at = "netLocSent" /\ m.first /\ m.answer # "accepted"
      BY <1>1, <2>2, <3>1 DEF Went, Serving, Alike, Harm
    <3>3. m.timers \intersect Harm(k) = {}
      <4>1. CASE Cancelling(m)
        BY <1>5, <4>1 DEF Runs
      <4>2. CASE Calm(m)
        <5>1. Serves(m, la, pa, lo, ind, d)
          BY <1>5, <2>2, <4>2 DEF Runs
        <5> QED
          BY <2>2, <3>2, <5>1 DEF Serves, Harm
      <4> QED
        BY <1>6, <4>1, <4>2
    <3>4. ~fa
      BY <1>5, <2>2 DEF Runs, MtLr
    <3> QED
      BY <2>2, <3>2, <3>3, <3>4 DEF Harm
  <2> QED
    BY <2>1, <2>2
<1>8. /\ t.session = m.session /\ t.queued = m.queued /\ t.next = m.next
      /\ t.answer = m.answer /\ t.still = m.still /\ t.stage = "null" /\ t.run = FALSE
  BY <1>1, <1>3 DEF Turned, Kept, Alike
<1> QED
  BY <1>3, <1>7, <1>8 DEF Turned, Finished, Rest

\* n is world u after the end of the procedure of machine k, which is t.
Through(n, u, k, t, l, a) ==
    /\ With(n, u, k, t) /\ AllReady(n) /\ AtNull(n) /\ Sound(n, a) /\ Held(n, Session)
    /\ ~n.fac
    /\ t.pending = 0 => Fits(n, l, a)

LEMMA ThroughIs ==
    ASSUME NEW u, NEW l, NEW a, Live(u, Session, l, a), NEW k \in Machine,
           u.mach[k].proto # "ready",
           NEW t, Finished(t, u.mach[k], k, u.fac), NEW n, With(n, u, k, t)
    PROVE  Through(n, u, k, t, l, a)
<1> DEFINE m == u.mach[k]
<1>1. /\ Shaped(u) /\ One(u) /\ Owned(u) /\ Sound(u, a) /\ Held(u, Session) /\ Fits(u, l, a)
  BY DEF Live, Sound
<1>2. /\ Shaped(n) /\ Others(n, u) /\ n.mach[k] = t
      /\ \A j \in Machine \ {k} : n.mach[j] = u.mach[j] /\ u.mach[j].proto = "ready"
  BY <1>1 DEF With, One
<1>3. \A j \in Machine \ {k} : Rest(j, n.mach[j])
  BY <1>1, <1>2 DEF Fits, FitIn, Fit
<1>4. AllReady(n) /\ AtNull(n) /\ ~n.fac
  BY <1>2, <1>3 DEF AllReady, AtNull, Rest, Finished, Others
<1>5. \A j \in Machine : /\ n.mach[j].queued = u.mach[j].queued /\ n.mach[j].next = u.mach[j].next
                         /\ n.mach[j].answer = u.mach[j].answer
                         /\ n.mach[j].still = u.mach[j].still
  BY <1>2 DEF Finished
<1>6. MtLr \in Machine /\ Originated \subseteq Machine
  BY DEF Machine
<1>7. Sound(n, a)
  <2>1. One(n) /\ Owned(n)
    BY <1>4 DEF One, Owned, AllReady
  <2>2. Waiting(n)
    BY <1>1, <1>2, <1>4, <1>5, <1>6 DEF Sound, Waiting, AllReady, Others
  <2>3. Unused(n, a)
    BY <1>1, <1>2 DEF Sound, Unused, Given, Others
  <2>4. Answered(n, a) /\ ~n.mach[MtLr].still
    BY <1>1, <1>2, <1>5, <1>6 DEF Sound, Answered, Others
  <2> QED
    BY <1>2, <2>1, <2>2, <2>3, <2>4 DEF Sound
<1>8. Held(n, Session)
  <2> SUFFICES ASSUME NEW s \in Session, n.lbs[s] = "open" PROVE Holds(n, s)
    BY DEF Held
  <2>1. Holds(u, s) /\ n.lbs = u.lbs
    BY <1>1, <1>2 DEF Held, Others
  <2>2. Over(u, s) => Over(n, s)
    BY <2>1 DEF Over
  <2>3. CASE m.session = s
    <3>1. Owns(k, m, u)
      BY <1>1 DEF Owned
    <3>2. k # MtLr
      BY <1>1, <2>3, <3>1, GivenAreInternal, ProtocolModuleAssumption DEF Owns
    <3>3. Over(u, s)
      BY <2>1, <2>3, <3>1, <3>2 DEF Owns, Finished
    <3> QED
      BY <2>2, <3>3 DEF Holds
  <2>4. CASE m.session # s
    <3>1. Kind[s] \in Machine
      BY <1>6, ProtocolModuleAssumption
    <3> QED
      BY <1>2, <1>5, <2>1, <2>2, <2>4, <3>1 DEF Holds
  <2> QED
    BY <2>3, <2>4
<1>9. ASSUME t.pending = 0 PROVE Fits(n, l, a)
  <2>1. Rest(k, n.mach[k])
    BY <1>2, <1>9 DEF Finished
  <2>2. \A j \in Machine : Rest(j, n.mach[j]) /\ n.mach[j].proto = "ready"
    BY <1>3, <1>4, <2>1 DEF AllReady
  <2> QED
    BY <1>4, <2>2 DEF Fits, FitIn, Fit
<1> QED
  BY <1>4, <1>7, <1>8, <1>9 DEF Through

\* n is a machine, which was m, that has been started.
Afoot(n, m) ==
    n.run = TRUE /\ n.cancel = FALSE /\ n.at = m.at /\ n.pending = m.pending

LEMMA AfootIs ==
    ASSUME NEW k \in Machine, NEW x \in State(k), NEW m, NEW s, Fresh(x, m, s),
           NEW q \in SUBSET TimerOf(k)
    PROVE  Afoot(Perform([x EXCEPT !.timers = q]), m)
<1> DEFINE y == [x EXCEPT !.timers = q]
           z == [y EXCEPT !.stage = "exit", !.run = TRUE]
<1>1. y \in State(k)
  BY TimersAre
<1>2. y.run = x.run /\ y.cancel = x.cancel /\ y.at = x.at /\ y.pending = x.pending
  BY DEF State, MachineState
<1>3. Perform(y) = IF y.run THEN y ELSE z
  BY DEF Perform
<1> HIDE DEF y
<1>4. z.run = TRUE /\ z.cancel = y.cancel /\ z.at = y.at /\ z.pending = y.pending
  BY <1>1 DEF State, MachineState
<1>5. y.run \in BOOLEAN
  BY <1>1 DEF State, MachineState
<1> HIDE DEF z
<1>6. Afoot(Perform(y), m)
  BY <1>2, <1>3, <1>4, <1>5 DEF Afoot, Fresh
<1> QED
  BY <1>6 DEF y

\* c is what follows n, in which nothing runs.
Continues(c, n, l, a) ==
    /\ Sound(c, a) /\ Known(c) /\ Held(c, Session) /\ Follows(c)
    /\ Fits(n, l, a) => Fits(c, l, a)
    /\ c.leftover = n.leftover /\ c.sent = n.sent
    /\ \A b \in Budget : Room(n, b) => Room(c, b)
    /\ \A k \in Machine : c.mach[k] = n.mach[k] \/ Afoot(c.mach[k], n.mach[k])

LEMMA NoOpIs == NoOp \in Ops
BY DEF NoOp, Ops

\* Nothing is queued.
LEMMA RestsContinues ==
    ASSUME NEW n, NEW l, NEW a, Sound(n, a), Held(n, Session), AllReady(n),
           \A k \in Machine : ~n.mach[k].queued,
           NEW c, OpOnly(c, n, NoOp)
    PROVE  Continues(c, n, l, a)
<1>1. Sound(c, a)
  BY DEF Sound, OpOnly, One, Owned, Owns, Waiting, Unused, Answered, Given, Over
<1>2. Known(c) /\ Follows(c)
  BY DEF OpOnly, Known, AllReady, Follows
<1>3. Held(c, Session)
  BY DEF OpOnly, Held, Holds, Over
<1>4. Fits(n, l, a) => Fits(c, l, a)
  BY DEF OpOnly, Fits, FitIn, AllReady
<1>5. \A b : Room(n, b) => Room(c, b)
  BY DEF OpOnly, Room
<1> QED
  BY <1>1, <1>2, <1>3, <1>4, <1>5 DEF Continues, OpOnly

\* What is queued starts.
LEMMA NextContinues ==
    ASSUME NEW n, NEW l, NEW a, Sound(n, a), Held(n, Session), AllReady(n), AtNull(n),
           NEW q \in Machine, n.mach[q].queued,
           NEW b0 \in Budget, Room(n, b0),
           NEW c, c = Start([n EXCEPT !.op = [kind |-> q, prio |-> "none"]], q, n.mach[q].next)
    PROVE  Continues(c, n, l, a)
<1> DEFINE o == [kind |-> q, prio |-> "none"]
           s == n.mach[q].next
           t == IdOf(n, q, s)
<1>1. o \in Ops /\ Suits(o, q, t)
  BY DEF Ops, Suits, Kinds, Machine, Originated, MtLr
<1>2. Shaped(n)
  BY DEF Sound
<1>3. n.used \in Nat /\ Len(Internal) \in Nat
  BY <1>2, ProtocolModuleAssumption DEF Shaped, Worlds
<1>4. \A b \in Budget : b.mtlr \in Nat /\ b.measurement \in Nat
  BY DEF Budget
<1>5. Startable(n, q, t)
  <2>1. CASE q = MtLr
    <3>1. n.used + 1 + b0.mtlr + b0.measurement <= Len(Internal)
      BY <2>1 DEF Room, B
    <3>2. n.used < Len(Internal)
      BY <1>3, <1>4, <3>1
    <3> QED
      BY <2>1, <3>2 DEF Startable, IdOf
  <2>2. CASE q # MtLr
    BY <2>2 DEF Startable, IdOf, Sound, Waiting, Machine
  <2> QED
    BY <2>1, <2>2
<1>6. t \in AllSessions
  <2>1. CASE q = MtLr
    BY <1>2, <1>5, <2>1, NextIs DEF Startable, IdOf
  <2>2. CASE q # MtLr
    BY <1>5, <2>2 DEF Startable, AllSessions
  <2> QED
    BY <2>1, <2>2
<1>7. Replaces(n, q, t, Session)
  <2>1. CASE q = MtLr
    BY <2>1, ProtocolModuleAssumption DEF Replaces, MtLr, Originated
  <2>2. CASE q # MtLr
    BY <2>2 DEF Replaces, IdOf
  <2> QED
    BY <2>1, <2>2
<1> HIDE DEF o, t
<1>8. Begins(c, n, q, t, o)
  <2>1. Begins(Start([n EXCEPT !.op = o], q, s), n, q, t, o)
    BY <1>1, <1>2, <1>5, BeginIs DEF t
  <2> QED
    BY <2>1 DEF o
<1>9. Starts(c, n, q, t) /\ c.op = o
  BY <1>8 DEF Begins
<1>10. Launched(c, n, q, t)
  BY <1>2, <1>6, <1>9, StartsRuns
<1>11. Begun(c, n, q, t, Session, a)
  BY <1>1, <1>5, <1>7, <1>9, <1>10, RunsSound
<1>12. Fits(n, l, a) => Fits(c, l, a)
  BY <1>5, <1>9, StartsFit
<1>13. ASSUME NEW b \in Budget, Room(n, b) PROVE Room(c, b)
  <2>1. CASE q = MtLr
    <3>1. n.used + 1 + b.mtlr + b.measurement <= Len(Internal)
      BY <1>13, <2>1 DEF Room, B
    <3> QED
      BY <1>11, <2>1, <3>1 DEF Begun
  <2>2. CASE q # MtLr
    BY <1>11, <1>13, <2>2 DEF Begun
  <2> QED
    BY <2>1, <2>2
<1>14. \A k \in Machine : c.mach[k] = n.mach[k] \/ Afoot(c.mach[k], n.mach[k])
  <2>1. PICK x \in State(q), r \in SUBSET TimerOf(q) :
          Fresh(x, n.mach[q], t) /\ c.mach[q] = Perform([x EXCEPT !.timers = r])
    BY <1>9 DEF Starts
  <2>2. Afoot(c.mach[q], n.mach[q])
    BY <2>1, AfootIs
  <2> QED
    BY <1>9, <2>2 DEF Starts
<1> QED
  BY <1>9, <1>11, <1>12, <1>13, <1>14 DEF Continues, Begun, Starts

LEMMA CompleteContinues ==
    ASSUME NEW n, NEW l, NEW a, Sound(n, a), Held(n, Session), AllReady(n), AtNull(n),
           NEW b0 \in Budget, Room(n, b0)
    PROVE  Continues(ProcedureCompleteInd(n), n, l, a)
<1> DEFINE q == Queued(n)
<1>1. CASE q = "none"
  <2>1. ProcedureCompleteInd(n) = [n EXCEPT !.op = NoOp]
    BY <1>1 DEF ProcedureCompleteInd
  <2>2. OpOnly([n EXCEPT !.op = NoOp], n, NoOp)
    BY NoOpIs, OpIs DEF Sound
  <2>3. \A k \in Machine : ~n.mach[k].queued
    BY <1>1, QueuedIs
  <2> DEFINE c == [n EXCEPT !.op = NoOp]
  <2> HIDE DEF c
  <2>4. Continues(c, n, l, a)
    BY <2>2, <2>3, RestsContinues DEF c
  <2> QED
    BY <2>1, <2>4 DEF c
<1>2. CASE q # "none"
  <2>1. q \in Machine /\ n.mach[q].queued
    BY <1>2, QueuedIs
  <2> DEFINE c == Start([n EXCEPT !.op = [kind |-> q, prio |-> "none"]], q, n.mach[q].next)
  <2>2. ProcedureCompleteInd(n) = c
    BY <1>2 DEF ProcedureCompleteInd
  <2> HIDE DEF q
  <2>3. Continues(c, n, l, a)
    BY <2>1, NextContinues
  <2> QED
    BY <2>2, <2>3
<1> QED
  BY <1>1, <1>2

\* c is d but for the entries that were left in a queue.
LeavesOver(c, d, b) ==
    /\ Shaped(c) /\ c.mach = d.mach /\ c.op = d.op /\ c.used = d.used /\ c.fac = d.fac
    /\ c.lbs = d.lbs /\ c.locAsked = d.locAsked /\ c.privAsked = d.privAsked
    /\ c.induced = d.induced /\ c.sent = d.sent /\ c.leftover = b

LEMMA LeavesOverIs ==
    ASSUME NEW d, Shaped(d), NEW b \in BOOLEAN
    PROVE  LeavesOver([d EXCEPT !.leftover = b], d, b)
BY DEF LeavesOver, Shaped, Worlds

\* c is how the module goes on after n; b: entries were left.
GoesAfter(c, n, l, a, b) ==
    /\ Sound(c, a) /\ Known(c) /\ Held(c, Session) /\ Follows(c)
    /\ Fits(n, l, a) => Fits(c, l, a)
    /\ c.leftover = b /\ c.sent = n.sent
    /\ \A d \in Budget : Room(n, d) => Room(c, d)
    /\ \A k \in Machine : c.mach[k] = n.mach[k] \/ Afoot(c.mach[k], n.mach[k])

LEMMA GoesAfterIs ==
    ASSUME NEW n, NEW l, NEW a, NEW d, Continues(d, n, l, a), NEW b, NEW c, LeavesOver(c, d, b)
    PROVE  GoesAfter(c, n, l, a, b)
<1>1. Near(c, d, a)
  <2>1. \A k \in Machine : Goes(k, d.mach[k], d.mach[k], c)
    BY DEF Goes
  <2> QED
    BY <2>1 DEF LeavesOver, Closer, Near
<1>2. Sound(c, a) /\ Carried(c, d)
  BY <1>1, NearIs DEF Continues
<1>3. Fits(d, l, a) => Fits(c, l, a)
  BY DEF LeavesOver, Fits, FitIn, AllReady
<1> QED
  BY <1>2, <1>3 DEF Continues, Carried, GoesAfter, LeavesOver

\* Assistance data are asked for, whatever the machines do.
AsksData(v, w, k, a) ==
    /\ Near(v, w, a) /\ v.leftover = w.leftover /\ v.sent = w.sent
    /\ Same(v.mach[k], w.mach[k]) /\ v.mach[k].run = w.mach[k].run

LEMMA AsksDataIs ==
    ASSUME NEW w, NEW a, Sound(w, a), NEW k \in Machine
    PROVE  AsksData(AssistActions(w, k), w, k, a)
<1> DEFINE m == w.mach[k]
           y == [m EXCEPT !.assist = FALSE]
           z == Put(w, k, y)
           v == DoAssistanceDataActions(z)
<1>1. Shaped(w) /\ m \in State(k)
  BY DEF Sound, Shaped
<1>2. \A j \in Machine : Same(w.mach[j], w.mach[j])
  BY DEF Same
<1>3. CASE ~m.assist
  <2>1. AssistActions(w, k) = w
    BY <1>3 DEF AssistActions
  <2>2. Near(w, w, a)
    BY <1>1 DEF Near, Goes, Closer
  <2> QED
    BY <1>2, <2>1, <2>2 DEF AsksData
<1>4. CASE m.assist
  <2>1. AssistActions(w, k) = v
    BY <1>4 DEF AssistActions, Put
  <2>2. y \in State(k) /\ Same(y, m) /\ y.run = m.run
    BY <1>1, NotedIsSame
  <2> HIDE DEF y
  <2>3. With([w EXCEPT !.mach[k] = y], w, k, y)
    BY <1>1, <2>2, MachIs
  <2>4. With(z, w, k, y)
    BY <2>3 DEF Put
  <2> HIDE DEF z
  <2>5. Asked(v, z)
    BY <2>4, DoAssistIs DEF With
  <2> HIDE DEF v
  <2>6. \A j \in Machine : Same(z.mach[j], w.mach[j]) /\ z.mach[j].run = w.mach[j].run
    BY <1>2, <2>2, <2>4 DEF With
  <2>7. \A j \in Machine : Same(v.mach[j], z.mach[j]) /\ v.mach[j].run = z.mach[j].run
    BY <2>4, <2>5, AssistedIsSame DEF Asked, With, Shaped
  <2>8. \A j \in Machine : Same(v.mach[j], w.mach[j]) /\ v.mach[j].run = w.mach[j].run
    BY <2>6, <2>7 DEF Same
  <2>9. \A j \in Machine : Goes(j, v.mach[j], w.mach[j], v)
    BY <2>8 DEF Same, Goes, Past
  <2>10. Near(v, w, a)
    BY <2>4, <2>5, <2>9 DEF Asked, With, Others, Near, Closer
  <2> QED
    BY <2>1, <2>4, <2>5, <2>8, <2>10 DEF AsksData, Asked, With, Others
<1> QED
  BY <1>3, <1>4

\* In a world that lives, it lives on.
LEMMA AsksDataLives ==
    ASSUME NEW w, NEW l, NEW a, Live(w, Session, l, a), NEW k \in Machine
    PROVE  Lives(AssistActions(w, k), w, Session, l, a)
<1> DEFINE m == w.mach[k]
           y == [m EXCEPT !.assist = FALSE]
           z == [w EXCEPT !.mach[k] = y]
<1>1. CASE ~m.assist
  <2>1. AssistActions(w, k) = w
    BY <1>1 DEF AssistActions
  <2> QED
    BY <2>1, LivesAnyway
<1>2. CASE m.assist
  <2>1. AssistActions(w, k) = DoAssistanceDataActions(z)
    BY <1>2 DEF AssistActions
  <2>2. m \in State(k)
    BY DEF Live, Sound, Shaped
  <2>3. y \in State(k) /\ Same(y, m) /\ y.run = m.run
    BY <2>2, NotedIsSame
  <2> HIDE DEF y
  <2>4. Lives(z, w, Session, l, a)
    BY <2>3, SameLives
  <2> HIDE DEF z
  <2>5. Lives(DoAssistanceDataActions(z), w, Session, l, a)
    BY <2>4, DoAssistLives, LivesTwice DEF Lives
  <2> QED
    BY <2>1, <2>5
<1> QED
  BY <1>1, <1>2

\* Nothing is done on entering "null".
LEMMA NullEnters ==
    ASSUME NEW c, NEW k \in Machine, c.mach[k].at = "null", c.mach[k].cancel = FALSE
    PROVE  EnterIt(c, k) = c /\ ~Transitory(k, c.mach[k])
BY DEF EnterIt, EnterMtLr, EnterOriginated, Transitory, MtLr

\* After the assistance data, what is left in the queue may move the machine.
LEMMA FinishNear ==
    ASSUME NEW e, NEW a, Sound(e, a), NEW k \in Machine, e.mach[k].stage = "null",
           ~e.mach[k].run, e.mach[k].proto = "ready"
    PROVE  /\ Near(Finish(e, k), e, a)
           /\ Finish(e, k).leftover = e.leftover /\ Finish(e, k).sent = e.sent
<1> DEFINE x == e.mach[k]
           z == Settle(k, x)
           v == Finish(e, k)
<1>1. Shaped(e) /\ x \in State(k)
  BY DEF Sound, Shaped
<1>2. With(v, e, k, z)
  BY <1>1, FinishIs
<1>3. Settled(k, z, x)
  BY <1>1, SettleIs
<1> HIDE DEF z, v
<1>4. Goes(k, z, x, v)
  BY <1>3 DEF Settled, Alike, Goes
<1>5. \A j \in Machine : Goes(j, v.mach[j], e.mach[j], v)
  <2>1. \A j \in Machine \ {k} : Goes(j, e.mach[j], e.mach[j], v)
    BY DEF Goes
  <2> QED
    BY <1>2, <1>4, <2>1 DEF With
<1>6. Near(v, e, a)
  BY <1>2, <1>5 DEF With, Others, Near, Closer
<1>7. v.leftover = e.leftover /\ v.sent = e.sent
  BY <1>2 DEF With, Others
<1> QED
  BY <1>6, <1>7 DEF v

\* What a procedure that ends leaves, with the one that follows it.
LEMMA EndsOn ==
    ASSUME NEW u, NEW l, NEW a, Live(u, Session, l, a), NEW b0 \in Budget, Room(u, b0),
           NEW k \in Machine, u.mach[k].stage = "enter",
           NEW t, t = Transition(k, Entering(u.mach[k])), t.proto = "ready"
    PROVE  RunsOn(EnterState([u EXCEPT !.mach[k].run = FALSE], k), u, l, a)
<1> DEFINE m == u.mach[k]
           n == Put(u, k, t)
           d == ProcedureCompleteInd(n)
           b == d.leftover \/ t.pending > 0
           c == [d EXCEPT !.leftover = b]
           e == AssistActions(c, k)
           x == e.mach[k]
           v == Finish(e, k)
           s == m.session
           r == IF s \in InternalSession THEN a[s] ELSE "unknown"
<1>1. /\ Shaped(u) /\ m \in State(k) /\ FitIn(k, u, l, a) /\ ~u.leftover /\ u.sent = {}
  BY DEF Live, Sound, Shaped, Fits
<1>2. m.proto # "ready"
  BY <1>1 DEF FitIn, Fit, Rest
<1>3. Finished(t, m, k, u.fac)
  <2> DEFINE fa == u.fac
             la == s \in u.locAsked
             pa == s \in u.privAsked
             lo == s \in l
             ind == s \in u.induced
  <2>1. Fit(k, m, fa, la, pa, lo, ind, r)
    BY <1>1 DEF FitIn
  <2>2. m \in State(k) /\ m.stage = "enter" /\ t = Transition(k, Entering(m))
    BY <1>1
  <2> HIDE DEF fa, la, pa, lo, ind, r, m
  <2>3. Finished(t, m, k, fa)
    BY <1>2, <2>1, <2>2, EndIs
  <2> QED
    BY <2>3 DEF fa
<1>4. t \in State(k) /\ t.pending \in Nat
  BY <1>3 DEF Finished, State, MachineState, KMaxQueueEntry
<1>5. With(n, u, k, t)
  <2>1. With([u EXCEPT !.mach[k] = t], u, k, t)
    BY <1>1, <1>4, MachIs
  <2> QED
    BY <2>1 DEF Put
<1>6. Arrived(u, k, t) = c
  BY DEF Arrived
<1> HIDE DEF n
<1>7. Through(n, u, k, t, l, a)
  BY <1>2, <1>3, <1>5, ThroughIs
<1>8. \A j \in Budget : Room(u, j) => Room(n, j)
  <2>1. n.used = u.used /\ n.mach[MtLr].queued = u.mach[MtLr].queued
    BY <1>3, <1>5 DEF With, Others, Finished, Machine
  <2> QED
    BY <2>1 DEF Room
<1>9. Continues(d, n, l, a)
  BY <1>7, <1>8, CompleteContinues DEF Through
<1> HIDE DEF d
<1>10. d.leftover = FALSE /\ b \in BOOLEAN /\ n.sent = {}
  BY <1>1, <1>5, <1>9 DEF Continues, With, Others, Shaped, Worlds
<1>11. LeavesOver(c, d, b)
  <2> HIDE DEF b
  <2> QED
    BY <1>9, <1>10, LeavesOverIs DEF Continues, Sound
<1> HIDE DEF c
<1>12. GoesAfter(c, n, l, a, b)
  BY <1>9, <1>11, GoesAfterIs
<1>13. c.leftover = b /\ c.sent = {} /\ (b <=> t.pending # 0)
  BY <1>4, <1>10, <1>12 DEF GoesAfter
<1> HIDE DEF b
<1>14. c.mach[k] = t \/ Afoot(c.mach[k], t)
  BY <1>5, <1>12 DEF GoesAfter, With
<1>15. c.mach[k].at = "null" /\ c.mach[k].cancel = FALSE /\ c.mach[k].pending = t.pending
  BY <1>3, <1>14 DEF Finished, Afoot
<1>16. EnterIt(c, k) = c
  BY <1>15, NullEnters
<1>17. AsksData(e, c, k, a)
  BY <1>12, AsksDataIs DEF GoesAfter
<1>18. ~b => Lives(e, c, Session, l, a)
  <2>1. ~b => Live(c, Session, l, a)
    BY <1>7, <1>12, <1>13 DEF GoesAfter, Through, Live
  <2> QED
    BY <2>1, AsksDataLives
<1> HIDE DEF e
<1>19. Sound(e, a) /\ Carried(e, c) /\ e.leftover = b /\ e.sent = {}
  BY <1>12, <1>13, <1>17, NearIs DEF AsksData, GoesAfter
<1>20. /\ x.at = "null" /\ x.cancel = FALSE /\ x.pending = t.pending
       /\ x.run = c.mach[k].run /\ x.stage = c.mach[k].stage /\ x.proto = c.mach[k].proto
  BY <1>15, <1>17 DEF AsksData, Same
<1>21. v = CheckQueue(e, k)
  <2>1. ~Transitory(k, x)
    BY <1>20, NullEnters
  <2> QED
    BY <2>1 DEF Finish
<1> HIDE DEF v
<1>22. /\ Sound(v, a) /\ Carried(v, e) /\ v.leftover = b /\ v.sent = {}
       /\ ~b => v = e
  <2>1. CASE x.run \/ x.pending = 0
    <3>1. v = e
      BY <1>21, <2>1 DEF CheckQueue
    <3>2. Near(e, e, a)
      <4>1. \A j \in Machine : Goes(j, e.mach[j], e.mach[j], e)
        BY DEF Goes
      <4> QED
        BY <1>19, <4>1 DEF Near, Closer, Sound
    <3> QED
      BY <1>19, <3>1, <3>2, NearIs
  <2>2. CASE ~(x.run \/ x.pending = 0)
    <3>1. c.mach[k] = t
      BY <1>14, <1>20, <2>2 DEF Afoot
    <3>2. x.stage = "null" /\ x.proto = "ready" /\ ~x.run
      BY <1>3, <1>20, <2>2, <3>1 DEF Finished
    <3>3. Near(v, e, a) /\ v.leftover = e.leftover /\ v.sent = e.sent
      BY <1>19, <3>2, FinishNear DEF v
    <3>4. b
      BY <1>13, <1>20, <2>2
    <3> QED
      BY <1>19, <3>3, <3>4, NearIs
  <2> QED
    BY <2>1, <2>2
<1>23. Lasts(v, l, a)
  <2>1. Known(v) /\ Held(v, Session) /\ Follows(v)
    BY <1>12, <1>19, <1>22 DEF GoesAfter, Carried
  <2>2. ~v.leftover => Fits(v, l, a)
    BY <1>18, <1>22 DEF Lives, Live
  <2> QED
    BY <1>22, <2>1, <2>2 DEF Lasts
<1>24. Agreed(v, l, a)
  BY <1>22 DEF Agreed
<1>25. \A j \in Budget : Room(u, j) => Room(v, j)
  BY <1>8, <1>12, <1>19, <1>22 DEF GoesAfter, Carried
<1>26. RunsOn(v, u, l, a)
  BY <1>23, <1>24, <1>25 DEF RunsOn
<1>27. EnterState([u EXCEPT !.mach[k].run = FALSE], k)
          = Finish(AssistActions(EnterIt(Arrived(u, k, t), k), k), k)
  BY <1>1, EnterStateIs
<1> QED
  BY <1>6, <1>16, <1>26, <1>27 DEF v, e

-----------------------------------------------------------------------------
(***************************************************************************)
(* RunL, and the step of the module.                                       *)
(***************************************************************************)

\* A step that may send.
LEMMA RunsOnInv ==
    ASSUME Inv, ~leftover, NEW v, RunsOn(v, World, located, answer), Become(v),
           UNCHANGED <<located, answer, budget>>
    PROVE  Inv'
<1>1. Begin
  BY BeginIsSo
<1>2. Lasts(v, located, answer) /\ Agreed(v, located, answer) /\ Shaped(v)
  BY DEF RunsOn, Lasts, Sound
<1>3. Silently(World', v) /\ sent' = v.sent
  BY <1>2, BecomeIs
<1>4. Lasts(World', located', answer')
  BY <1>2, <1>3, SilentlyLasts
<1>5. mach' = v.mach /\ induced' = v.induced /\ leftover' = v.leftover
  BY DEF Become
<1>6. ~leftover' => Room(World', budget')
  <2>1. ~v.leftover => Room(v, budget)
    BY <1>1 DEF RunsOn, Begin
  <2> QED
    BY <1>2, <1>3, <1>5, <2>1, SilentlyLasts
<1>7. Consent'
  <2>1. StaleIn(v, answer) => StaleAnswer'
    BY <1>5 DEF StaleIn, StaleAnswer
  <2> QED
    BY <1>2, <1>3, <2>1 DEF Agreed, Consent
<1>8. AnswersAreGiven' /\ budget' \in Budget
  BY <1>1 DEF Begin, AnswersAreGiven
<1>9. sent' \subseteq AllSessions \X {"position", "accepted"}
  BY <1>2, <1>3 DEF Shaped, Worlds
<1> QED
  BY <1>4, <1>6, <1>7, <1>8, <1>9 DEF Inv

LEMMA RunInv ==
    ASSUME Inv, ~leftover, NEW k \in Machine, Run(k)
    PROVE  Inv'
<1> DEFINE w == [World EXCEPT !.mach[k].run = FALSE]
<1>1. Begin
  BY BeginIsSo
<1>2. Live(World, Session, located, answer) /\ Room(World, budget) /\ budget \in Budget
      /\ Shaped(World) /\ AnswersAreGiven
  BY <1>1 DEF Begin
<1>3. World.mach = mach
  BY WorldIs
<1>4. /\ mach[k].run /\ UNCHANGED <<located, answer, budget>>
      /\ Become(CASE mach[k].stage = "exit" -> ExitState(w, k)
                  [] mach[k].stage = "enter" -> EnterState(w, k)
                  [] mach[k].stage = "null" -> AssistActions(w, k))
  BY DEF Run
<1>5. mach[k].stage \in {"null", "exit", "enter"}
  BY <1>2, <1>3 DEF Shaped, State, MachineState
<1>6. AnswersAreGiven' /\ budget' \in Budget /\ Room(World, budget')
      /\ located = located' /\ answer = answer'
  BY <1>2, <1>4 DEF AnswersAreGiven
<1>7. CASE mach[k].stage = "exit"
  <2> DEFINE v == ExitState(w, k)
  <2>1. Become(v)
    BY <1>4, <1>7
  <2>2. Lives(v, World, Session, located, answer)
    BY <1>2, <1>3, <1>4, <1>7, ExitLives
  <2> HIDE DEF v
  <2> QED
    BY <1>1, <1>6, <2>1, <2>2, LivesInv
<1>8. CASE mach[k].stage = "null"
  <2> DEFINE v == AssistActions(w, k)
  <2>1. Become(v)
    BY <1>4, <1>8
  <2>2. Lives(v, World, Session, located, answer)
    BY <1>2, <1>3, <1>4, <1>8, WokenRunLives
  <2> HIDE DEF v
  <2> QED
    BY <1>1, <1>6, <2>1, <2>2, LivesInv
<1>9. CASE mach[k].stage = "enter"
  <2> DEFINE v == EnterState(w, k)
             t == Transition(k, Entering(World.mach[k]))
  <2>1. Become(v)
    BY <1>4, <1>9
  <2>2. World.mach[k].stage = "enter"
    BY <1>3, <1>9
  <2>3. RunsOn(v, World, located, answer)
    <3>1. CASE t.proto = "ready"
      <4> HIDE DEF t
      <4>1. RunsOn(EnterState([World EXCEPT !.mach[k].run = FALSE], k), World, located, answer)
        BY <1>2, <2>2, <3>1, EndsOn DEF t
      <4> QED
        BY <4>1
    <3>2. CASE t.proto # "ready"
      <4> HIDE DEF t
      <4>1. RunsOn(EnterState([World EXCEPT !.mach[k].run = FALSE], k), World, located, answer)
        BY <1>2, <2>2, <3>2, GoesOn DEF t
      <4> QED
        BY <4>1
    <3> QED
      BY <3>1, <3>2
  <2> HIDE DEF v
  <2> QED
    BY <1>4, <2>1, <2>3, RunsOnInv
<1> QED
  BY <1>5, <1>7, <1>8, <1>9

LEMMA NextInv ==
    ASSUME Inv, [Next]_vars
    PROVE  Inv'
<1>1. CASE UNCHANGED vars
  <2>1. /\ World' = World /\ located' = located /\ answer' = answer /\ budget' = budget
        /\ leftover' = leftover /\ sent' = sent
    BY <1>1 DEF vars, World
  <2>2. Consent'
    BY <1>1 DEF Inv, Consent, StaleAnswer, vars
  <2> QED
    BY <2>1, <2>2 DEF Inv, AnswersAreGiven
<1>2. CASE Next
  <2>1. ~leftover
    BY <1>2 DEF Next
  <2>2. ASSUME NEW s \in Session, NEW lacks \in BOOLEAN, NEW invalid \in BOOLEAN,
               NEW atOnce \in BOOLEAN, SelfLocationReq(s, lacks, invalid, atOnce)
        PROVE  Inv'
    BY <2>1, <2>2, SelfLocationReqInv
  <2>3. ASSUME NEW s \in Session, NetworkBasedLocationReq(s) PROVE Inv'
    BY <2>1, <2>3, NetworkBasedLocationReqInv
  <2>4. ASSUME NEW s \in Session, TransmitLocationReq(s) PROVE Inv'
    BY <2>1, <2>4, TransmitLocationReqInv
  <2>5. ASSUME NEW s \in Session, CompleteInd(s) PROVE Inv'
    BY <2>1, <2>5, CompleteIndInv
  <2>6. ASSUME NEW on \in BOOLEAN, SystemStatusInd(on) PROVE Inv'
    BY <2>1, <2>6, SystemStatusIndInv
  <2>7. ASSUME NEW lacks \in BOOLEAN, NEW invalid \in BOOLEAN,
               AssistanceDataRequested(lacks, invalid)
        PROVE  Inv'
    BY <2>1, <2>7, AssistanceDataRequestedInv
  <2>8. ASSUME NEW s \in AllSessions, NEW reason \in {"ok", "denied", "error"},
               LocationAnswered(s, reason)
        PROVE  Inv'
    BY <2>1, <2>8, LocationAnsweredInv
  <2>9. ASSUME NEW s \in InternalSession, NEW x \in {"accepted", "rejected"},
               PrivacyAnswered(s, x)
        PROVE  Inv'
    BY <2>1, <2>9, PrivacyAnsweredInv
  <2>10. ASSUME NEW emergency \in Emergencies, MtLrReq(emergency) PROVE Inv'
    BY <2>1, <2>10, MtLrReqInv
  <2>11. ASSUME NEW emergency \in Emergencies, NEW finds \in BOOLEAN,
                MeasurementControl(emergency, finds)
         PROVE  Inv'
    BY <2>1, <2>11, MeasurementControlInv
  <2>12. CASE MtLrCancelInd
    BY <2>1, <2>12, MtLrCancelIndInv
  <2>13. ASSUME NEW cancelled \in BOOLEAN, MeasurementControlError(cancelled) PROVE Inv'
    BY <2>1, <2>13, MeasurementControlErrorInv
  <2>14. CASE NetworkError
    BY <2>1, <2>14, NetworkErrorInv
  <2>15. ASSUME NEW position \in BOOLEAN, NetworkResult(position) PROVE Inv'
    BY <2>1, <2>15, NetworkResultInv
  <2>16. CASE ResetAssistanceData
    BY <2>1, <2>16, ResetAssistanceDataInv
  <2>17. ASSUME NEW k \in Machine, Run(k) PROVE Inv'
    BY <2>1, <2>17, RunInv
  <2>18. ASSUME NEW k \in Machine, NEW t \in TimerOf(k), Timeout(k, t) PROVE Inv'
    BY <2>1, <2>18, TimeoutInv
  <2> QED
    BY <1>2, <2>2, <2>3, <2>4, <2>5, <2>6, <2>7, <2>8, <2>9, <2>10, <2>11, <2>12, <2>13,
       <2>14, <2>15, <2>16, <2>17, <2>18 DEF Next
<1> QED
  BY <1>1, <1>2

\* The invariant holds for any sessions, kinds and priorities, and whatever
\* comes in a behaviour.
THEOREM Invariance == Spec => []Inv
<1>1. Init => Inv
  BY InitInv
<1>2. Inv /\ [Next]_vars => Inv'
  BY NextInv
<1> QED
  BY <1>1, <1>2, PTL DEF Spec

-----------------------------------------------------------------------------
(***************************************************************************)
(* What the invariant says of the module.                                  *)
(***************************************************************************)

\* The state has its shape: no request or answer makes a machine leave the
\* states CStateMachineBase and its derived classes have.
THEOREM TypeIsOK == Spec => []TypeOK
<1>1. ASSUME Inv PROVE TypeOK
  <2>1. Shaped(World)
    BY <1>1 DEF Inv, Lasts, Sound
  <2>2. /\ World.mach = mach /\ World.op = op /\ World.tracking = tracking
        /\ World.missing = missing /\ World.expecting = expecting /\ World.used = used
        /\ World.fac = fac /\ World.lbs = lbs /\ World.locAsked = locAsked
        /\ World.privAsked = privAsked /\ World.induced = induced
        /\ World.leftover = leftover
    BY WorldIs
  <2>3. \A k \in Machine : mach[k] \in MachineState(k, AllSessions)
    BY <2>1, <2>2 DEF Shaped, State
  <2>4. /\ op \in [kind : Machine \union {"nilr", "none"},
                   prio : {"none", "low", "medium", "high", "emergency"}]
        /\ tracking \in BOOLEAN /\ missing \in BOOLEAN /\ expecting \in BOOLEAN
        /\ fac \in BOOLEAN /\ leftover \in BOOLEAN
        /\ used \in 0..Len(Internal)
        /\ lbs \in [Session -> {"new", "open", "cancelled", "completed"}]
        /\ locAsked \subseteq AllSessions /\ privAsked \subseteq InternalSession
        /\ induced \subseteq InternalSession
    <3> HIDE DEF World
    <3> QED
      BY <2>1, <2>2 DEF Shaped, Worlds, Ops
  <2>5. /\ answer \in [InternalSession -> Answer] /\ located \subseteq AllSessions
        /\ \A m \in sent : m \in AllSessions \X {"position", "accepted"}
        /\ budget \in Budget
    BY <1>1 DEF Inv, AnswersAreGiven
  <2> QED
    BY <2>3, <2>4, <2>5 DEF TypeOK
<1> QED
  BY <1>1, Invariance, PTL

\* CProtocolManager lets one procedure run at a time, and iCurrentOp is the one
\* that runs, whatever cancels, queued requests and results come in between.
THEOREM OneProcedureRuns == Spec => []OneProcedure
<1>1. ASSUME Inv PROVE OneProcedure
  <2>1. One(World) /\ Known(World) /\ World.mach = mach /\ World.op = op
    BY <1>1, WorldIs DEF Inv, Lasts, Sound
  <2> QED
    BY <2>1 DEF One, Known, OneProcedure, Idle, AllReady, Suits, Kinds
<1> QED
  BY <1>1, Invariance, PTL

\* No session LBS waits for is forgotten, also when its request was queued, or
\* took the place of another one (ProcedureCompleteInd, ResolveConflict).
THEOREM SessionIsHeld == Spec => []SessionHeld
<1>1. ASSUME Inv PROVE SessionHeld
  <2>1. Held(World, Session) /\ Follows(World) /\ World.mach = mach /\ World.lbs = lbs
    BY <1>1, WorldIs DEF Inv, Lasts
  <2>2. \A s : Over(World, s) => TakenOver(s)
    BY <2>1 DEF Over, TakenOver
  <2>3. \A s \in Session : lbs[s] = "open" => Holds(World, s)
    BY <2>1 DEF Held
  <2> QED
    BY <2>1, <2>2, <2>3 DEF Holds, Follows, AllReady, Idle, SessionHeld
<1> QED
  BY <1>1, Invariance, PTL

\* The network is told of a consent LBS gave, and gets a position of a session
\* LBS located (MtLrResp, and the location response on entering "locSent").
THEOREM ConsentIsGiven == Spec => []Consent
<1>1. Inv => Consent
  BY DEF Inv
<1> QED
  BY <1>1, Invariance, PTL

\* A procedure that is not cancelled leaves at least three of the entries of its
\* queue free, for all that it has had and not acted on.
QueueFits == ~leftover => \A k \in Machine : Calm(mach[k]) => mach[k].pending + 3 <= KMaxQueueEntry

\* No response is lost to a full queue: the machines do not look at the error
\* CStateQueue::AddRequest returns when KMaxQueueEntry entries wait.
THEOREM QueueNeverFull == Spec => []QueueFits
<1>1. ASSUME Inv PROVE QueueFits
  <2>1. /\ Lasts(World, located, answer) /\ Shaped(World)
        /\ World.mach = mach /\ World.leftover = leftover
    BY <1>1, WorldIs DEF Inv, Lasts, Sound
  <2> HIDE DEF World
  <2>2. SUFFICES ASSUME ~leftover, NEW k \in Machine, Calm(mach[k])
                 PROVE  mach[k].pending + 3 <= KMaxQueueEntry
    BY DEF QueueFits
  <2>3. mach[k] \in State(k) /\ FitIn(k, World, located, answer)
    BY <2>1, <2>2 DEF Lasts, Fits, Shaped
  <2>4. Load(mach[k]) \in 0..2
    BY <2>1, <2>2, <2>3, LoadIsSmall DEF FitIn
  <2>5. mach[k].pending \in 0..5 /\ B(Moving(mach[k])) \in {0, 1}
    BY <2>3 DEF State, MachineState, KMaxQueueEntry, B
  <2> QED
    BY <2>4, <2>5 DEF Load, KMaxQueueEntry
<1> QED
  BY <1>1, Invariance, PTL
=============================================================================
