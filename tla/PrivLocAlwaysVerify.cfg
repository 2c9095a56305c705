SPECIFICATION Spec
CONSTANTS
  Session = {"mt1", "ni1"}
  Emergency = {}
  Device = "both"
  DefaultMode = {"tb"}
  MaxSessions = 2
  Type <- MCType
  Methods <- HybridOnly
  Admin = {"on", "alwaysVerify"}
  Advices = {"verify", "notify"}
  Silent = {FALSE}
  MaxRequests <- TwoEach
  Original = TRUE
  NetworkTimeout = TRUE
  Profile = "valid"
  ServerStays = TRUE
  LocationManagement = TRUE
  NoSession = NoSession
CHECK_DEADLOCK FALSE
INVARIANTS
  AlwaysVerifyIsAsked
