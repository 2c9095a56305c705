-------------------------- MODULE AgpsRequests_proof --------------------------
(***************************************************************************)
(* What the combination tables and the operations of the AGPS interface    *)
(* handler give, for any number of sessions, any limit and every kind of   *)
(* device: the lemmas that the proofs about its callers rest on.           *)
(***************************************************************************)
EXTENDS AgpsRequests, TLAPS

Mode == GpsMode \union {{}}

-----------------------------------------------------------------------------
\* The combination tables.

\* What the device can do of a mode is part of the mode.
LEMMA UsableIsPart ==
    ASSUME NEW cur \in Mode, NEW new \in GpsMode
    PROVE  Usable(cur, new) \in Mode /\ Usable(cur, new) \subseteq new
<1>1. new = {"auto"} \/ new = {"tb"} \/ new = {"ta"} \/ new = {"tb", "ta"}
  BY DEF GpsMode, Hybrid
<1>2. HybridChoice \in {{"tb"}, {"ta"}}
  BY DEF HybridChoice
<1>3. /\ new \ {"ta"} \in Mode /\ new \ {"ta"} \subseteq new
      /\ new \intersect {"ta"} \in Mode /\ new \intersect {"ta"} \subseteq new
      /\ new \in Mode
  <2>1. CASE new = {"auto"}
    <3>1. new \ {"ta"} = {"auto"} /\ new \intersect {"ta"} = {}
      BY <2>1
    <3> QED
      BY <3>1, <2>1 DEF Mode, GpsMode
  <2>2. CASE new = {"tb"}
    <3>1. new \ {"ta"} = {"tb"} /\ new \intersect {"ta"} = {}
      BY <2>2
    <3> QED
      BY <3>1, <2>2 DEF Mode, GpsMode
  <2>3. CASE new = {"ta"}
    <3>1. new \ {"ta"} = {} /\ new \intersect {"ta"} = {"ta"}
      BY <2>3
    <3> QED
      BY <3>1, <2>3 DEF Mode, GpsMode
  <2>4. CASE new = {"tb", "ta"}
    <3>1. new \ {"ta"} = {"tb"} /\ new \intersect {"ta"} = {"ta"}
      BY <2>4
    <3> QED
      BY <3>1, <2>4 DEF Mode, GpsMode
  <2> QED
    BY <1>1, <2>1, <2>2, <2>3, <2>4
<1>4. new = Hybrid => HybridChoice \in Mode /\ HybridChoice \subseteq new
  BY <1>2 DEF Hybrid, Mode, GpsMode
<1> QED
  BY <1>3, <1>4, AgpsAssumption DEF Usable

\* Adding modes up gives a mode the AGPS manager knows.
LEMMA NormalIsMode ==
    ASSUME NEW cur \in Mode, NEW part \in Mode, part # {}
    PROVE  Normal(cur \union part) \in GpsMode
<1> DEFINE m == cur \union part
<1>1. m \subseteq {"auto", "tb", "ta"} /\ m # {}
  BY DEF Mode, GpsMode, Hybrid
<1>2. CASE "ta" \in m
  BY <1>2 DEF Normal, GpsMode, Hybrid
<1>3. CASE "ta" \notin m /\ "tb" \in m
  BY <1>3 DEF Normal, GpsMode
<1>4. CASE "ta" \notin m /\ "tb" \notin m
  <2>1. m = {"auto"}
    BY <1>1, <1>4
  <2> QED
    BY <2>1, <1>4 DEF Normal, GpsMode
<1> QED
  BY <1>2, <1>3, <1>4

\* A mode answers whatever part of it answered.
LEMMA NormalServes ==
    ASSUME NEW cur \in Mode, NEW part \in Mode, NEW x \in GpsMode,
           x \intersect (cur \union part) # {} \/ Serves(cur, x)
    PROVE  Serves(Normal(cur \union part), x)
<1> DEFINE m == cur \union part
<1>1. m \subseteq {"auto", "tb", "ta"}
  BY DEF Mode, GpsMode, Hybrid
<1>2. x \intersect m # {} \/ (x = {"auto"} /\ "tb" \in m)
  BY DEF Serves
<1>3. PICK p \in m : p \in x \/ (x = {"auto"} /\ p = "tb")
  BY <1>2
<1>4. p \in {"auto", "tb", "ta"}
  BY <1>1, <1>3
<1>5. p \in Normal(m) \/ (p = "auto" /\ "tb" \in Normal(m))
  BY <1>3, <1>4 DEF Normal, Hybrid
<1>6. "auto" \in x => x = {"auto"}
  BY DEF GpsMode, Hybrid
<1> QED
  BY <1>3, <1>5, <1>6 DEF Serves

\* A request that is not refused is answered by the new combined mode.
LEMMA CombinedServes ==
    ASSUME NEW cur \in Mode, NEW new \in GpsMode, NEW s \in Session,
           Combined(cur, new, s \in Emergency) # {}
    PROVE  /\ Combined(cur, new, s \in Emergency) \in GpsMode
           /\ Serves(Combined(cur, new, s \in Emergency), new)
<1>1. Usable(cur, new) \in Mode /\ Usable(cur, new) \subseteq new
  BY UsableIsPart
<1>2. CASE Usable(cur, new) # {}
  <2>1. new \intersect (cur \union Usable(cur, new)) # {}
    BY <1>1, <1>2
  <2>2. Combined(cur, new, s \in Emergency) = Normal(cur \union Usable(cur, new))
    BY <1>2 DEF Combined
  <2> QED
    BY <1>1, <1>2, <2>1, <2>2, NormalIsMode, NormalServes
<1>3. CASE Usable(cur, new) = {}
  <2>1. Combined(cur, new, s \in Emergency) = new
    BY <1>3 DEF Combined
  <2>2. new # {}
    BY DEF GpsMode, Hybrid
  <2> QED
    BY <2>1, <2>2 DEF Serves
<1> QED
  BY <1>2, <1>3

\* A request that is not an emergency takes nothing from the others.
LEMMA CombinedKeeps ==
    ASSUME NEW cur \in Mode, NEW new \in GpsMode, NEW x \in GpsMode,
           Combined(cur, new, FALSE) # {}, Serves(cur, x)
    PROVE  Serves(Combined(cur, new, FALSE), x)
<1>1. Usable(cur, new) # {} /\ Combined(cur, new, FALSE) = Normal(cur \union Usable(cur, new))
  BY DEF Combined
<1>2. Usable(cur, new) \in Mode
  BY UsableIsPart
<1>3. Serves(Normal(cur \union Usable(cur, new)), x)
  BY <1>2, NormalServes
<1> QED
  BY <1>1, <1>3

\* What a mode may be for the device to be able to do it.
Able(mode) ==
    /\ Device = "tb" => "ta" \notin mode
    /\ Device = "ta" => mode \subseteq {"ta"}
    /\ Device = "either" => mode # Hybrid

\* The combined mode stays within what the device can do.
LEMMA CombinedAble ==
    ASSUME NEW cur \in Mode, NEW new \in GpsMode, NEW s \in Session, Able(cur),
           Combined(cur, new, s \in Emergency) # {}
    PROVE  Able(Combined(cur, new, s \in Emergency))
<1> DEFINE part == Usable(cur, new)
           mode == Combined(cur, new, s \in Emergency)
<1>0. /\ part \in Mode /\ part \subseteq new
      /\ new = {"auto"} \/ new = {"tb"} \/ new = {"ta"} \/ new = {"tb", "ta"}
      /\ cur = {} \/ cur = {"auto"} \/ cur = {"tb"} \/ cur = {"ta"} \/ cur = {"tb", "ta"}
  BY UsableIsPart DEF Mode, GpsMode, Hybrid
<1>1. CASE Device = "tb"
  <2>1. part # {} /\ mode = Normal(cur \union part)
    BY <1>1 DEF Combined
  <2>2. "ta" \notin cur \union part
    BY <1>1 DEF Usable, Able
  <2> QED
    BY <1>1, <2>1, <2>2 DEF Normal, Able
<1>2. CASE Device = "ta"
  <2>1. part # {} /\ mode = Normal(cur \union part)
    BY <1>2 DEF Combined
  <2>2. cur \union part = {"ta"}
    BY <1>2, <2>1 DEF Usable, Able
  <2> QED
    BY <1>2, <2>1, <2>2 DEF Normal, Able
<1>3. CASE Device = "both"
  BY <1>3 DEF Able
<1>4. CASE Device = "either"
  <2>1. cur # {"tb", "ta"}
    BY <1>4 DEF Able, Hybrid
  <2>2. CASE part = {}
    <3>1. new # {"tb", "ta"}
      BY <1>0, <1>4, <2>1, <2>2 DEF Usable, HybridChoice, Hybrid
    <3>2. mode = new
      BY <1>4, <2>2 DEF Combined
    <3> QED
      BY <1>4, <3>1, <3>2 DEF Able, Hybrid
  <2>3. CASE part # {}
    <3>1. mode = Normal(cur \union part)
      BY <2>3 DEF Combined
    <3>2. "ta" \notin cur \union part \/ cur \union part = {"ta"}
      <4>1. CASE cur = {}
        BY <4>1, <1>0, <1>4 DEF Usable, HybridChoice, Hybrid
      <4>2. CASE cur = {"ta"}
        BY <4>2, <1>4 DEF Usable
      <4>3. CASE cur # {} /\ cur # {"ta"}
        BY <4>3, <1>0, <1>4, <2>1 DEF Usable
      <4> QED
        BY <4>1, <4>2, <4>3
    <3>3. mode # {"tb", "ta"}
      BY <3>1, <3>2 DEF Normal
    <3> QED
      BY <1>4, <3>3 DEF Able, Hybrid
  <2> QED
    BY <2>2, <2>3
<1> QED
  BY <1>1, <1>2, <1>3, <1>4, AgpsAssumption

-----------------------------------------------------------------------------
\* The operations, one by one: what each does to its session, and what it
\* leaves alone.

\* RemoveRequest only takes the session off the list.
LEMMA RemoveRequestRemoves ==
    ASSUME NEW a \in AgpsState, NEW s \in Session
    PROVE  /\ RemoveRequest(a, s) \in AgpsState
           /\ RemoveRequest(a, s).req = [a.req EXCEPT ![s] = "none"]
           /\ RemoveRequest(a, s).method = [a.method EXCEPT ![s] = {}]
           /\ RemoveRequest(a, s).mode = a.mode
           /\ RemoveRequest(a, s).running = a.running
BY DEF RemoveRequest, AgpsState, RequestState

\* A request prepared before there is anything to locate is not active.
LEMMA PreStartGives ==
    ASSUME NEW a \in AgpsState, NEW s \in Session
    PROVE  LET b == PreStartPositioning(a, s) IN
           /\ b \in AgpsState
           /\ b.mode = a.mode /\ b.running = a.running
           /\ b.req[s] # "active"
           /\ \A t \in Session \ {s} : b.req[t] = a.req[t] /\ b.method[t] = a.method[t]
<1>1. CASE MayAdd(a, s)
  BY <1>1 DEF PreStartPositioning, AgpsState, RequestState
<1>2. CASE ~MayAdd(a, s)
  BY <1>2 DEF PreStartPositioning, AgpsState, MayAdd
<1> QED
  BY <1>1, <1>2

\* Requests that have been answered stay on the list.
LEMMA HoldGives ==
    ASSUME NEW a \in AgpsState, NEW S \in SUBSET Session
    PROVE  LET b == HoldPositioning(a, S) IN
           /\ b \in AgpsState
           /\ b.mode = a.mode /\ b.running = a.running /\ b.method = a.method
           /\ \A t \in S : b.req[t] = IF a.req[t] = "none" THEN "none" ELSE "hold"
           /\ \A t \in Session \ S : b.req[t] = a.req[t]
BY DEF HoldPositioning, AgpsState, RequestState

\* A session that stops leaves the others their mode, and with the last one
\* the AGPS manager is cancelled.
LEMMA StopGives ==
    ASSUME NEW a \in AgpsState, NEW s \in Session
    PROVE  LET b == StopPositioning(a, s) IN
           /\ b \in AgpsState
           /\ b.req[s] = "none"
           /\ \A t \in Session \ {s} : b.req[t] = a.req[t] /\ b.method[t] = a.method[t]
           /\ \A t \in Session \ {s} : a.req[t] = "active" => b.mode = a.mode /\ b.running
           /\ (\A t \in Session \ {s} : a.req[t] = "none") => ~b.running
<1> DEFINE r == RemoveRequest(a, s)
           b == StopPositioning(a, s)
<1>1. /\ r \in AgpsState
      /\ r.req = [a.req EXCEPT ![s] = "none"] /\ r.method = [a.method EXCEPT ![s] = {}]
      /\ r.mode = a.mode /\ r.running = a.running
  BY RemoveRequestRemoves
<1>2. /\ b = IF AnyRequest(r, "active") THEN [r EXCEPT !.running = TRUE]
             ELSE IF ~AnyRequest(r, "hold") /\ r.running
             THEN [r EXCEPT !.running = FALSE, !.mode = {}]
             ELSE r
  BY DEF StopPositioning
<1>3. /\ r.req[s] = "none"
      /\ \A t \in Session \ {s} : r.req[t] = a.req[t] /\ r.method[t] = a.method[t]
  BY <1>1 DEF AgpsState
<1> HIDE DEF r, b
<1>4. b \in AgpsState /\ b.req = r.req /\ b.method = r.method
  BY <1>1, <1>2 DEF AgpsState
<1>5. ASSUME NEW t \in Session \ {s}, a.req[t] = "active"
      PROVE  b.mode = a.mode /\ b.running
  <2>1. AnyRequest(r, "active")
    BY <1>3, <1>5 DEF AnyRequest
  <2> QED
    BY <1>1, <1>2, <2>1 DEF AgpsState
<1>6. ASSUME \A t \in Session \ {s} : a.req[t] = "none"
      PROVE  ~b.running
  <2>1. ~AnyRequest(r, "active") /\ ~AnyRequest(r, "hold")
    BY <1>3, <1>6 DEF AnyRequest
  <2> QED
    BY <1>1, <1>2, <2>1 DEF AgpsState
<1> QED
  BY <1>3, <1>4, <1>5, <1>6 DEF b

\* A session that starts is answered by the combined mode, and only an
\* emergency takes anything from the others; one that is refused is off the
\* list.
LEMMA StartGives ==
    ASSUME NEW a \in AgpsState, NEW s \in Session, NEW m \in GpsMode
    PROVE  LET b == StartPositioning(a, s, m) IN
           /\ b \in AgpsState
           /\ \A t \in Session \ {s} : b.req[t] = a.req[t] /\ b.method[t] = a.method[t]
           /\ Starts(a, s, m) =>
                 /\ b.req[s] = "active" /\ b.method[s] = m
                 /\ b.running /\ Serves(b.mode, m)
                 /\ s \notin Emergency =>
                       \A x \in GpsMode : Serves(a.mode, x) => Serves(b.mode, x)
           /\ ~Starts(a, s, m) =>
                 b.req[s] = "none" /\ b.mode = a.mode /\ b.running = a.running
<1> DEFINE c == Combined(a.mode, m, s \in Emergency)
           b == StartPositioning(a, s, m)
<1>0. a.mode \in Mode
  BY DEF AgpsState, Mode
<1>1. CASE c = {}
  <2>1. b = RemoveRequest(a, s) /\ ~Starts(a, s, m)
    BY <1>1 DEF StartPositioning, Starts
  <2>2. /\ b \in AgpsState
        /\ b.req = [a.req EXCEPT ![s] = "none"] /\ b.method = [a.method EXCEPT ![s] = {}]
        /\ b.mode = a.mode /\ b.running = a.running
    BY <2>1, RemoveRequestRemoves
  <2> QED
    BY <2>1, <2>2 DEF AgpsState
<1>2. CASE c # {} /\ ~MayAdd(a, s)
  <2>1. b = a /\ ~Starts(a, s, m) /\ a.req[s] = "none"
    BY <1>2 DEF StartPositioning, Starts, MayAdd
  <2> QED
    BY <2>1
<1>3. CASE c # {} /\ MayAdd(a, s)
  <2>1. Starts(a, s, m)
    BY <1>3 DEF Starts
  <2>2. c \in GpsMode /\ Serves(c, m)
    BY <1>0, <1>3, CombinedServes
  <2>3. ASSUME s \notin Emergency, NEW x \in GpsMode, Serves(a.mode, x)
        PROVE  Serves(c, x)
    <3>1. c = Combined(a.mode, m, FALSE)
      BY <2>3 DEF Combined
    <3> QED
      BY <1>0, <1>3, <2>3, <3>1, CombinedKeeps
  <2> HIDE DEF c
  <2>4. b = [a EXCEPT !.req[s] = "active", !.method[s] = m, !.mode = c, !.running = TRUE]
    BY <1>3 DEF StartPositioning, c
  <2> HIDE DEF b
  <2>5. /\ b.req = [a.req EXCEPT ![s] = "active"] /\ b.method = [a.method EXCEPT ![s] = m]
        /\ b.mode = c /\ b.running
    BY <2>4 DEF AgpsState
  <2> DEFINE q == [a.req EXCEPT ![s] = "active"]
             n == [a.method EXCEPT ![s] = m]
  <2>8. b = [a EXCEPT !.req = q, !.method = n, !.mode = c, !.running = TRUE]
    BY <2>4 DEF AgpsState
  <2>9. q \in [Session -> RequestState] /\ n \in [Session -> GpsMode \union {{}}]
    BY DEF AgpsState, RequestState
  <2> HIDE DEF q, n
  <2>7. b \in AgpsState
    BY <2>2, <2>8, <2>9 DEF AgpsState
  <2>6. /\ b.req[s] = "active" /\ b.method[s] = m
        /\ \A t \in Session \ {s} : b.req[t] = a.req[t] /\ b.method[t] = a.method[t]
    BY <2>5 DEF AgpsState
  <2> QED
    BY <2>1, <2>2, <2>3, <2>5, <2>6, <2>7 DEF b
<1> QED
  BY <1>1, <1>2, <1>3

\* A device that can calculate and measure, if not both at once, starts for an
\* emergency whatever it is doing, and though the list is full.
LEMMA EmergencyStarts ==
    ASSUME NEW a \in AgpsState, NEW s \in Emergency, NEW m \in GpsMode,
           Device \in {"either", "both"}
    PROVE  Starts(a, s, m)
<1>0. a.mode \in Mode /\ s \in Session
  BY AgpsAssumption DEF AgpsState, Mode
<1>1. MayAdd(a, s)
  BY DEF MayAdd
<1>2. m # {}
  BY DEF GpsMode, Hybrid
<1>3. CASE Usable(a.mode, m) # {}
  <2>1. Usable(a.mode, m) \in Mode
    BY <1>0, UsableIsPart
  <2>2. Normal(a.mode \union Usable(a.mode, m)) \in GpsMode
    BY <1>0, <1>3, <2>1, NormalIsMode
  <2>3. Normal(a.mode \union Usable(a.mode, m)) # {}
    BY <2>2 DEF GpsMode, Hybrid
  <2> QED
    BY <1>1, <1>3, <2>3 DEF Starts, Combined
<1>4. CASE Usable(a.mode, m) = {}
  <2>1. Device = "either"
    BY <1>2, <1>4 DEF Usable
  <2> QED
    BY <1>1, <1>2, <1>4, <2>1 DEF Starts, Combined
<1> QED
  BY <1>3, <1>4

=============================================================================
