SPECIFICATION Spec
CONSTANTS
  ann = ann
  bob = bob
  annPhone = annPhone
  annDesk = annDesk
  bobPhone = bobPhone
  NoJid = NoJid
  Peers = {ann, bob}
  Devices = {annPhone, bobPhone}
  Bare <- OneDeviceEach
  OwnSids = {2}
  PeerSids = {1, 3}
  Party <- WithBoth
  Direct = {3}
  MaxIdle = 2
  StaleReports = FALSE
VIEW RelevantState
CHECK_DEADLOCK FALSE
PROPERTY
  ClosingKeepsActiveCall
