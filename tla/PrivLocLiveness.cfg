SPECIFICATION FairSpec
CONSTANTS
  Session = {"mt1", "mt2"}
  Emergency = {}
  Device = "both"
  DefaultMode = {"tb"}
  MaxSessions = 2
  Type <- MCType
  Methods <- UnknownOnly
  Admin = {"on"}
  Advices = {"verify"}
  Silent = {FALSE}
  MaxRequests <- OneEach
  Original = TRUE
  NetworkTimeout = TRUE
  Profile = "valid"
  ServerStays = TRUE
  LocationManagement = TRUE
  NoSession = NoSession
CHECK_DEADLOCK FALSE
PROPERTIES
  PrivacyIsDecided
  LocatingEnds
