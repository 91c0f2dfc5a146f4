SPECIFICATION Spec
CONSTANTS
  ann = ann
  bob = bob
  annPhone = annPhone
  annDesk = annDesk
  bobPhone = bobPhone
  NoJid = NoJid
  Peers = {ann}
  Devices = {annPhone, annDesk}
  Bare <- TwoDevicesForAnn
  OwnSids = {2}
  PeerSids = {3}
  Party <- WithAnnOnly
  Direct = {}
  MaxIdle = 1
  StaleReports = FALSE
SYMMETRY DeviceSymmetry
VIEW RelevantState
CHECK_DEADLOCK FALSE
PROPERTY
  PeerIsTold
  ImplementsLifecycle
