SPECIFICATION Spec
CONSTANTS
  Outpoints = {u1, u2}
  NamedOutpoint = u1
  NoOutpoint = none
  MinConfirmations = 2
  RefundDelay = 6
  MaxReorgs = 1
  MaxFailures = 2
INVARIANTS
  TypeOK
  BundleIsConfirmed
PROPERTIES
  BridgeFollowsConfirmedParent
  ResumesActivation
CHECK_DEADLOCK FALSE
