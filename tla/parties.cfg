SPECIFICATION FairParties
CONSTANTS
  self = self
  contact = contact
  selfDevice = selfDevice
  contactDevice = contactDevice
  NoJid = NoJid
  OwnSids = {2}
  PeerSids = {1}
  MaxIdle = 1
  StaleReports = FALSE
  Reported = {"description", "connected", "failed"}
VIEW RelevantState
CHECK_DEADLOCK FALSE
INVARIANT
  RolesAreKept
  SidesAgree
PROPERTY SidesComeToAgree
