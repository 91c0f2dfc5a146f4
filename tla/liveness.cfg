SPECIFICATION FairSpec
CONSTANTS
  ann = ann
  bob = bob
  annPhone = annPhone
  annDesk = annDesk
  bobPhone = bobPhone
  NoJid = NoJid
  Peers = {ann, bob}
  Devices = {annPhone, bobPhone}
  Bare <- OneDeviceEach
  OwnSids = {2}
  PeerSids = {3}
  Party <- WithBoth
  Direct = {3}
  MaxIdle = 1
  StaleReports = FALSE
CHECK_DEADLOCK FALSE
PROPERTY TransientCallsEnd WaitingCallersAreServed
