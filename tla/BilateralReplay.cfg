SPECIFICATION Spec
CONSTANTS
  SessionIds = {s1, s2}
  SessionIdHex = s1
  Materials = {k1, k2}
  Outpoints = {o1}
  MaxSequence = 14
  AckTargets = {0, 1, 9, 10, 12}
  Messages <- MCMessages
INVARIANTS
  TypeOK
  AcceptedMeansComplete
  RetainedInOrder
  AcceptancesDiffer
  AcceptedReplayPassesChecks
  AttestedCanSettle
PROPERTIES
  NoRegress
  TerminalIsFinal
  SessionContract
CHECK_DEADLOCK FALSE
