SPECIFICATION Spec

CONSTANTS
  Outcomes = {above, below}
  GivenKey = given
  FreshKeys = {random1}
  MaxCommands = 4
  MaxOracle = 3
  Nothing = Nothing

SYMMETRY OutcomesAreAlike

INVARIANTS
  TypeOK
  ReportsAreTrue

PROPERTIES
  ImplementsConditionalPayment

CHECK_DEADLOCK FALSE
