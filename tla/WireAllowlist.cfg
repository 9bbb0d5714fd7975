\* Lists up to two bytes longer than cfg_store can hold; names as long as those of the
\* default list.
CONSTANTS
  Base = 4
  W16 = 1
  W32 = 2
  KeyLen = 1
  SigLen = 1
  NameMax = 2
  UserMax = 0
  DeviceMax = 0
  ClaimsMax = 0
  CfgStore = 8
  MaxLen = 9
  InputBytes = {0, 1, 3}
  MaxBody = 4
  SessionBytes = {0}
SPECIFICATION Spec
CHECK_DEADLOCK FALSE
INVARIANT ConfiguredListBinds
