CONSTANTS
  Names = {"shell", "exec"}
  Allowed <- ServerForbids
  MaxChannels <- ServerOne
  InitialWindow <- SmallWindows
  MaxPacket <- UnitPackets
  DataMax = 2
  WinMod = 4
  OutCap = 1
  EventCap = 2
  WireCap = 1
  OpenLimit <- ClientTwoServerOne
  SendLens = {}
  Credits = {1}
  RecvCap = 3
  GrantLimit = 0
  SendLimit = 0
  HostCalls <- TableCalls
SPECIFICATION Spec
CHECK_DEADLOCK FALSE
INVARIANTS SlotAccounting PairingAgreement OpeningAccounted LateTraffic
PROPERTY ImplementsChannels
