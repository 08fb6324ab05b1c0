SPECIFICATION Spec
CONSTANTS
  Timestamps = {"2025", "2026"}
  Payloads <- MCPayloads
  MaxEntries = 4
  MaxAltered = 2
  MaxChanges = 2
INVARIANTS
  TypeOK
  TamperEvident
  OneMessagePerNonce
  QueryFindsVerifyingAnnouncement
  HistoryAnswersAreBacked
PROPERTIES
  FaultsPersist
CHECK_DEADLOCK FALSE
