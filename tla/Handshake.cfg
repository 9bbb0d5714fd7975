CONSTANTS
  Configs <- AllConfigs
  EventCap = 1
  MaxLives = 2
SPECIFICATION FairSpec
CHECK_DEADLOCK FALSE
INVARIANTS TypeOK ServerProven SessionAgreement StreamSync DeviceProven ClientReadyIsAccepted FailureExplained
PROPERTIES HandshakeCompletes RejectionReachesClient
