CONSTANTS
  Names = {"shell"}
  Allowed <- AllAllowed
  MaxChannels <- OneChannel
  InitialWindow <- SmallWindows
  MaxPacket <- UnitPackets
  DataMax = 2
  WinMod = 4
  OutCap = 1
  EventCap = 2
  WireCap = 1
  OpenLimit <- ClientOpensOne
  SendLens = {1}
  Credits = {1}
  RecvCap = 3
  GrantLimit = 0
  SendLimit = 2
  HostCalls <- EventCalls
SPECIFICATION Spec
CHECK_DEADLOCK FALSE
INVARIANTS StreamGrammar EventStream EofIsFinal ErrorHasLocalCause CounterpartAccounted
