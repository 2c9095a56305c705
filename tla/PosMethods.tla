------------------------------ MODULE PosMethods ------------------------------
(***************************************************************************)
(* Positioning methods of the AGPS manager and how it combines those of a  *)
(* location server (LS) request with those of a network request handler    *)
(* (NRH) request: the combination tables of lbsmanagermainlogic.cpp.       *)
(*                                                                         *)
(* A method is the set of bits of its TTechnologyType: "n" network, "t"    *)
(* terminal, "a" assisted.  The LS asks for one method, the NRH for a      *)
(* preferred and perhaps an alternative one: a set, as no table makes a    *)
(* difference between the two orders.                                      *)
(***************************************************************************)
EXTENDS Naturals, FiniteSets

CONSTANT Capability  \* iCapabilities: what the GPS module can do

None == {}
Autonomous == {"t"}
TB == {"t", "a"}
TA == {"n", "a"}
Dual == {"n", "t", "a"}

\* A failed assertion: no method.
Fault == {"fault"}

Supported ==
    CASE Capability = "autonomous" -> {Autonomous}
      [] Capability = "terminalBased" -> {Autonomous, TB}
      [] Capability = "terminalAssisted" -> {TA}
      [] OTHER -> {Autonomous, TB, TA}

ASSUME CapabilityAssumption ==
    Capability \in {"autonomous", "terminalBased", "terminalAssisted",
                    "tbOrTa", "tbAndTa"}

\* The methods an NRH request may ask for: two only if the module calculates
\* and measures at the same time.
NrhMethods ==
    {{m} : m \in Supported} \union
    (IF Capability = "tbAndTa" THEN {{TA, Autonomous}, {TA, TB}} ELSE {})

\* The method for an LS request and an NRH request.  A module that does one
\* thing at a time does what the NRH wants, unless the LS wants more of the
\* same; the other does everything.
LookUp(ls, nrh) ==
    IF ls \notin Supported \/ nrh \notin NrhMethods THEN Fault
    ELSE IF Capability = "tbAndTa" THEN UNION (nrh \union {ls})
    ELSE IF UNION nrh \subseteq ls THEN ls
    ELSE UNION nrh

\* The method for an NRH request alone.
NrhOnly(nrh) == IF nrh \in NrhMethods THEN UNION nrh ELSE Fault

\* The method for an LS request alone.
LsOnly(ls) == IF ls \in Supported THEN ls ELSE Fault
=============================================================================
