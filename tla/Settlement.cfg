SPECIFICATION Spec
CONSTANTS
  ParentFundingSat = 100000
  Acks <- MCAcks
  Nothing = Nothing
  Damaged = Damaged
  Holders = {"watchtower"}
  Damageable = {"alice", "watchtower"}
  MaxFaults = 2
INVARIANTS
  TypeOK
  SettlementIsBound
  OnlyActivatingOutcomeActivates
  SettledAsAgreed
PROPERTIES
  SomeHolderActivates
CHECK_DEADLOCK FALSE
