---------------------------- MODULE NetGatewayMC ----------------------------
EXTENDS NetGateway

CONSTANTS h, r, b, mt, em, self1, self2, x3p, psy1, psy2, net1

MCOwner == [s \in NetSession |-> IF s = mt THEN h ELSE b]
MCClient ==
    [s \in SetSession |->
        IF s \in {self1, self2} THEN "self"
        ELSE IF s = x3p THEN "x3p"
        ELSE IF s \in {psy1, psy2} THEN "psy" ELSE "net"]
MCScenes == {{mt, em}, {self1, self2}, {psy1, psy2}, {mt, x3p, net1}}
MCMaxCalls == [sc \in MCScenes |-> IF sc = {self1, self2} THEN 4 ELSE 5]
=============================================================================
