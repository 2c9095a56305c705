------------------------------ MODULE PrivLocMC ------------------------------
(***************************************************************************)
(* PrivLoc with sessions named after their type.                           *)
(***************************************************************************)
EXTENDS PrivLoc

MCType ==
    [s \in Session |->
        CASE s \in {"mt1", "mt2", "mt3", "em1", "em2"} -> "MT"
          [] s \in {"ni1", "en1"} -> "NI"
          [] s \in {"self1", "self2"} -> "SELF"
          [] s = "x3p1" -> "X3P"
          [] s = "nl1" -> "NL"]

\* What the sessions ask for.
HybridOnly == [s \in Session |-> {Hybrid}]
HybridOrUnknown == [s \in Session |-> IF Type[s] = "NI" THEN {{}} ELSE {Hybrid}]
UnknownOnly == [s \in Session |-> {{}}]
EmergencyClashes ==
    [s \in Session |-> IF s \in Emergency THEN {{"ta"}}
                      ELSE IF Type[s] = "NL" THEN {{"tb"}, {"ta"}} ELSE {{"tb"}}]

\* How many requests they make.
OneEach == [s \in Session |-> 1]
TwoEach == [s \in Session |-> 2]
TwoMT == [s \in Session |-> IF Type[s] = "MT" THEN 2 ELSE 1]
=============================================================================
