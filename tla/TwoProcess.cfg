SPECIFICATION Spec
CONSTANTS
  SessionIds = {"s1", "s2"}
  Sessions = {"s1", "s2"}
  Materials = {"alice", "bob", "other"}
  Outpoints = {"alice", "bob", "other"}
  DustFloorSat = 1
  ParticipantFundingSat = 2
  MaxFaults = 1
  Alterations <- MCAlterations
INVARIANTS
  TypeOK
  AcceptedHoldsWholeSetup
  AcknowledgementsBind
  AcceptedExchangeCompletes
  AcceptedIsOneSession
PROPERTIES
  AnswersOnce
  EveryPeerEnds
CHECK_DEADLOCK FALSE
