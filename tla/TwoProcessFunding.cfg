\* The document's claim that both participants observe the same funding digest.
SPECIFICATION Spec
CONSTANTS
  SessionIds = {"s1", "s2"}
  Sessions = {"s1", "s2"}
  Materials = {"alice", "bob", "other"}
  Outpoints = {"alice", "bob", "other"}
  DustFloorSat = 1
  ParticipantFundingSat = 2
  MaxFaults = 1
  Alterations <- MCAlterations
INVARIANT FundingDigestsAgree
CHECK_DEADLOCK FALSE
