\* All byte strings over a base of four, PDU types in front.
CONSTANTS
  Base = 4
  W16 = 1
  W32 = 2
  KeyLen = 1
  SigLen = 1
  NameMax = 1
  UserMax = 2
  DeviceMax = 1
  ClaimsMax = 1
  CfgStore = 8
  MaxLen = 9
  InputBytes = {0, 1, 3}
  MaxBody = 4
  SessionBytes = {0, 3}
SPECIFICATION Spec
CHECK_DEADLOCK FALSE
INVARIANTS RoundTrip Canonical FrameExact TAuthUnambiguous AllowlistExact
