\* ann may call, or be called, and call again to migrate; bob may wait.
SPECIFICATION MutingSpec
CONSTANTS
  ann = ann
  bob = bob
  annPhone = annPhone
  bobPhone = bobPhone
  NoJid = NoJid
  Peers = {ann, bob}
  Devices = {annPhone, bobPhone}
  Bare <- OneDeviceEach
  OwnSids = {2}
  PeerSids = {1, 3}
  Party <- WithBoth
  Direct = {}
  MaxIdle = 1
  StaleReports = FALSE
VIEW RelevantMuting
CHECK_DEADLOCK FALSE
INVARIANT
  MicrophoneIsAsShown
PROPERTY
  MuteEndsWithCall
