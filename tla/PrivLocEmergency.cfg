SPECIFICATION Spec
CONSTANTS
  Session = {"em1", "en1", "self1", "nl1"}
  Emergency = {"em1", "en1"}
  Device = "either"
  DefaultMode = {"tb"}
  MaxSessions = 1
  Type <- MCType
  Methods <- EmergencyClashes
  Admin = {"on"}
  Advices = {"verify"}
  Silent = {TRUE, FALSE}
  MaxRequests <- OneEach
  Original = TRUE
  NetworkTimeout = TRUE
  Profile = "valid"
  ServerStays = TRUE
  LocationManagement = FALSE
  NoSession = NoSession
CHECK_DEADLOCK FALSE
INVARIANTS
  ModeServes
  EmergencyNeverRefused
