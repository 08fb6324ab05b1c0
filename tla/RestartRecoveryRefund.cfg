\* The declared capability to refund after the deadlines.
SPECIFICATION Spec
CONSTANTS
  Participants = {bob}
  BridgeSigner = bob
  NoCheckpoint = NoCheckpoint
  BridgeTimeoutHeight = 1
  MaxHeight = 2
  MaxCrashes = 1
  MaxLosses = 0
INVARIANT OrderedRefundHasItsInput
CHECK_DEADLOCK FALSE
