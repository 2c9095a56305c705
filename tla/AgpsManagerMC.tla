---------------------------- MODULE AgpsManagerMC ----------------------------
EXTENDS AgpsManager

AutoOrTA == {Autonomous, TA}
TBOnly == {{TB}}
AllPower == {Power.close, Power.off, Power.standby, Power.on}

\* Two requests of the LS meet one of the NRH, in two sessions.
Merging ==
    [requests |-> [c \in Channel |-> IF c = "LS" THEN 2 ELSE 1],
     sessions |-> 2, tracking |-> 1, power |-> 0, assist |-> 0, close |-> 0]

\* A request of the LS is put off for one of the NRH, and met by another.
PuttingOff ==
    [requests |-> [c \in Channel |-> IF c = "LS" THEN 2 ELSE 1],
     sessions |-> 1, tracking |-> 0, power |-> 0, assist |-> 1, close |-> 0]

\* A request of each, assistance data without a session, a close-down.
Closing ==
    [requests |-> [c \in Channel |-> 1],
     sessions |-> 1, tracking |-> 0, power |-> 0, assist |-> 1, close |-> 1]

\* Power advice, during a request of the LS and a close-down.
Powering ==
    [requests |-> [c \in Channel |-> IF c = "LS" THEN 1 ELSE 0],
     sessions |-> 0, tracking |-> 0, power |-> 4, assist |-> 0, close |-> 1]

Scenes == {Merging, PuttingOff, Closing, Powering}
=============================================================================
