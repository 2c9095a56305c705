-------------------------- MODULE ProtocolModuleMC --------------------------
(***************************************************************************)
(* ProtocolModule with two self location sessions, two X3P sessions and a  *)
(* network based location.                                                 *)
(***************************************************************************)
EXTENDS ProtocolModule

MCKind == [self1 |-> "molr", self2 |-> "molr", low |-> "x3p", high |-> "x3p",
           net |-> "netloc"]
MCPriority == [self1 |-> "none", self2 |-> "none", low |-> "low", high |-> "high",
               net |-> "none"]
MCInternal == <<"m1", "m2", "m3", "m4">>

Scene(mtlr, measurement, trouble, tr, data, sessions) ==
    [mtlr |-> mtlr, measurement |-> measurement, trouble |-> trouble,
     tracking |-> tr, data |-> data, sessions |-> sessions]

Scenes ==
    {Scene(1, 0, 1, 0, 0, {"self1"}),
     Scene(1, 1, 0, 0, 0, {"self1"}),
     Scene(1, 1, 0, 0, 0, {"low"}),
     Scene(0, 1, 0, 0, 0, {"low", "high"}),
     Scene(1, 0, 0, 0, 0, {"low", "high"}),
     Scene(1, 2, 0, 0, 0, {}),
     Scene(1, 1, 0, 0, 1, {}),
     Scene(2, 1, 1, 0, 0, {}),
     Scene(0, 1, 0, 2, 0, {"self1", "low"}),
     Scene(1, 0, 0, 2, 0, {"self1"}),
     Scene(1, 0, 0, 1, 0, {"low"}),
     Scene(0, 1, 1, 0, 1, {"self1"}),
     Scene(0, 1, 0, 0, 0, {"self1", "self2"}),
     Scene(0, 1, 1, 0, 0, {"net"}),
     Scene(0, 1, 0, 0, 0, {"self1", "net"}),
     Scene(1, 1, 0, 0, 0, {"net"})}
=============================================================================
