SPECIFICATION Spec
CONSTANTS
  Session = {"mt1", "ni1"}
  Emergency = {}
  Device = "both"
  DefaultMode = {"tb"}
  MaxSessions = 2
  Type <- MCType
  Methods <- HybridOrUnknown
  Admin = {"on", "alwaysVerify"}
  Advices = {"verify", "notify"}
  Silent = {FALSE}
  MaxRequests <- TwoMT
  Original = TRUE
  NetworkTimeout = TRUE
  Profile = "notInUse"
  ServerStays = FALSE
  LocationManagement = TRUE
  NoSession = NoSession
CHECK_DEADLOCK FALSE
INVARIANTS
  TypeOK
  Consent
  RepliesMatch
  Released
  LocatingIsActive
  TimerCovers
  ControllerView
