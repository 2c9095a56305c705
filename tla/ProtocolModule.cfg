SPECIFICATION FairSpec
CONSTANTS
    Session = {"self1", "self2", "low", "high", "net"}
    Kind <- MCKind
    Priority <- MCPriority
    Internal <- MCInternal
    Emergencies = {TRUE, FALSE}
    Budgets <- Scenes
    NoSession = NoSession
INVARIANTS
    TypeOK
    OneProcedure
    SessionHeld
    Consent
CHECK_DEADLOCK FALSE
PROPERTIES
    ProcedureEnds
