CONSTANTS
  Names = {"shell", "exec"}
  Allowed <- ServerForbids
  MaxChannels <- OneChannel
  InitialWindow <- SmallWindows
  MaxPacket <- UnitPackets
  DataMax = 2
  WinMod = 4
  OutCap = 1
  EventCap = 1
  WireCap = 1
  OpenLimit <- ClientOpensOne
  SendLens = {1}
  Credits = {1}
  RecvCap = 3
  GrantLimit = 0
  SendLimit = 1
  HostCalls <- LiveCalls
SPECIFICATION FairSpec
CHECK_DEADLOCK FALSE
INVARIANTS ErrorHasLocalCause CounterpartAccounted
PROPERTIES OpenResolves DataReceived DisconnectReaches
