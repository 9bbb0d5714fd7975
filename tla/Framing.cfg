\* Two buffers of one maximal frame, pieces of one to three bytes or everything.
CONSTANTS
  Base = 4
  W16 = 1
  W32 = 2
  KeyLen = 1
  SigLen = 1
  NameMax = 1
  UserMax = 2
  DeviceMax = 1
  ClaimsMax = 1
  CfgStore = 8
  OutCap = 7
  InCap = 7
  ClearMax = 1
  PlainBuf = 4
  Header <- ShortHeader
  Plains <- SomePlains
  FinalByte = 3
  RecordSizes = {2, 4, 9}
  SendLimit = 3
  WireCap = 7
  Chunks = {1, 3, 7}
SPECIFICATION FairSpec
CHECK_DEADLOCK FALSE
INVARIANTS TypeOK InputNeverStuck RefusalExplained
PROPERTIES ImplementsStream FramesDelivered
