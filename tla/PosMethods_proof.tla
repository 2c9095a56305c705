-------------------------- MODULE PosMethods_proof --------------------------
(***************************************************************************)
(* What the combination tables of the AGPS manager give, for a GPS module  *)
(* of any capability.                                                      *)
(***************************************************************************)
EXTENDS PosMethods, TLAPS

\* The lookup finds a method exactly when the LS method is one a request can
\* ask for: it fails for the method of a session in which the module did two
\* things at a time (LookUpPositioningMethodInCombinationTables).
THEOREM LookUpFinds ==
    ASSUME NEW ls \in {None, Autonomous, TB, TA, Dual}, NEW nrh \in NrhMethods
    PROVE  LookUp(ls, nrh) # Fault <=> ls \in Supported
<1>1. CASE ls \notin Supported
  BY <1>1 DEF LookUp
<1>2. CASE ls \in Supported
  <2>1. "fault" \notin ls
    BY <1>2 DEF Supported, Autonomous, TB, TA
  <2>2. "fault" \notin UNION nrh
    BY DEF NrhMethods, Supported, Autonomous, TB, TA
  <2>3. "fault" \notin UNION (nrh \union {ls})
    BY <2>1, <2>2
  <2> QED BY <1>2, <2>1, <2>2, <2>3 DEF LookUp, Fault
<1> QED BY <1>1, <1>2

\* The method of the tables gives the NRH everything it asks for, and the LS
\* too if the module can do both at a time.
THEOREM LookUpServes ==
    ASSUME NEW ls \in Supported, NEW nrh \in NrhMethods
    PROVE  /\ UNION nrh \subseteq LookUp(ls, nrh)
           /\ Capability = "tbAndTa" => ls \subseteq LookUp(ls, nrh)
<1>1. CASE Capability = "tbAndTa"
  BY <1>1 DEF LookUp
<1>2. CASE Capability # "tbAndTa"
  BY <1>2 DEF LookUp
<1> QED BY <1>1, <1>2

\* The methods an NRH request asks for: one, or terminal assisted and another.
LEMMA NrhShapes ==
    ASSUME NEW nrh \in NrhMethods
    PROVE  \/ UNION nrh \in Supported /\ nrh = {UNION nrh}
           \/ Capability = "tbAndTa" /\ UNION nrh = Dual
<1>1. CASE nrh \in {{m} : m \in Supported}
  <2>1. PICK m \in Supported : nrh = {m}
    BY <1>1
  <2>2. UNION nrh = m
    BY <2>1
  <2> QED BY <2>1, <2>2
<1>2. CASE Capability = "tbAndTa" /\ nrh \in {{TA, Autonomous}, {TA, TB}}
  <2>1. UNION nrh = Dual
    BY <1>2 DEF TA, Autonomous, TB, Dual
  <2> QED BY <1>2, <2>1
<1> QED BY <1>1, <1>2 DEF NrhMethods

\* A method that is found is one the module can be set to: both at a time
\* only for a module that can (ConfigureGpsMode hands it to SetGpsOptions).
THEOREM LookUpIsSettable ==
    ASSUME NEW ls \in Supported, NEW nrh \in NrhMethods
    PROVE  \/ LookUp(ls, nrh) \in Supported
           \/ Capability = "tbAndTa" /\ LookUp(ls, nrh) = Dual
<1> DEFINE u == UNION nrh
<1>1. CASE Capability # "tbAndTa"
  <2>1. u \in Supported
    BY <1>1, NrhShapes
  <2> QED BY <1>1, <2>1 DEF LookUp
<1>2. CASE Capability = "tbAndTa"
  <2>1. Supported = {Autonomous, TB, TA}
    BY <1>2 DEF Supported
  <2>2. LookUp(ls, nrh) = u \union ls
    BY <1>2 DEF LookUp
  <2>3. CASE u = Dual
    BY <1>2, <2>1, <2>2, <2>3 DEF Dual, Autonomous, TB, TA
  <2>4. CASE u \in Supported
    BY <1>2, <2>1, <2>2, <2>4 DEF Dual, Autonomous, TB, TA
  <2> QED BY <2>3, <2>4, NrhShapes
<1> QED BY <1>1, <1>2
=============================================================================
