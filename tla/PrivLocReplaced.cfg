SPECIFICATION Spec
CONSTANTS
  Session = {"self1", "self2"}
  Emergency = {}
  Device = "both"
  DefaultMode = {"tb"}
  MaxSessions = 2
  Type <- MCType
  Methods <- HybridOnly
  Admin = {"on", "alwaysVerify"}
  Advices = {"verify", "notify"}
  Silent = {FALSE}
  MaxRequests <- TwoEach
  Original = TRUE
  NetworkTimeout = TRUE
  Profile = "valid"
  ServerStays = TRUE
  LocationManagement = TRUE
  NoSession = NoSession
CHECK_DEADLOCK FALSE
INVARIANTS
  Released
