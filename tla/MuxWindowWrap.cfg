CONSTANTS
  Names = {"shell"}
  Allowed <- AllAllowed
  MaxChannels <- OneChannel
  InitialWindow <- SmallWindows
  MaxPacket <- UnitPackets
  DataMax = 2
  WinMod = 4
  OutCap = 2
  EventCap = 1
  WireCap = 1
  OpenLimit <- ClientOpensOne
  SendLens = {1, 2}
  Credits = {1, 3}
  RecvCap = 7
  GrantLimit = 3
  SendLimit = 2
  HostCalls <- FlowCalls
SPECIFICATION Spec
CHECK_DEADLOCK FALSE
INVARIANT WindowAvailCoversCredit
