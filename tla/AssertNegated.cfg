CONSTANTS
  MaxEntries = 5
  MaxRounds = 3
  MaxTimes = 3
  Operands <- MCOperands
SPECIFICATION Spec
INVARIANT OnlyAssertionsNegated
CHECK_DEADLOCK FALSE
