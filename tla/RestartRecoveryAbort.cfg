\* The document's claim that the refund remains after the timeout height.
SPECIFICATION Spec
CONSTANTS
  Participants = {bob}
  BridgeSigner = bob
  NoCheckpoint = NoCheckpoint
  BridgeTimeoutHeight = 1
  MaxHeight = 2
  MaxCrashes = 1
  MaxLosses = 0
PROPERTY RefundableAfterTimeout
CHECK_DEADLOCK FALSE
