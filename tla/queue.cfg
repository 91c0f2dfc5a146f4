SPECIFICATION Spec
CONSTANTS
  ann = ann
  bob = bob
  annPhone = annPhone
  annDesk = annDesk
  bobPhone = bobPhone
  NoJid = NoJid
  Peers = {ann, bob}
  Devices = {annPhone, bobPhone}
  Bare <- OneDeviceEach
  OwnSids = {2}
  PeerSids = {3}
  Party <- WithBoth
  Direct = {}
  MaxIdle = 2
  StaleReports = TRUE
VIEW RelevantState
CHECK_DEADLOCK FALSE
INVARIANT LiveCallCanBeEnded
PROPERTY
  RingingCallCanBeAnswered
  ImplementsLifecycle
