\* The document's claim that the roles are bound to distinct material.
SPECIFICATION Spec
CONSTANTS
  SessionIds = {s1}
  SessionIdHex = s1
  Materials = {k1, k2}
  Outpoints = {o1}
  MaxSequence = 4
  AckTargets = {1}
  Messages <- MCMessages
INVARIANT DistinctRoleMaterial
CHECK_DEADLOCK FALSE
