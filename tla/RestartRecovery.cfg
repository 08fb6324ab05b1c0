SPECIFICATION Spec
CONSTANTS
  Participants = {alice, bob}
  BridgeSigner = bob
  NoCheckpoint = NoCheckpoint
  BridgeTimeoutHeight = 2
  MaxHeight = 3
  MaxCrashes = 2
  MaxLosses = 2
INVARIANTS
  TypeOK
  OrdersAreValid
  AttestedNeverRefunds
PROPERTIES
  EdgeRaceIsDecided
  PartialLossFailsClosed
  EdgeIsResolved
CHECK_DEADLOCK FALSE
