CONSTANTS
  MaxEntries = 5
  MaxRounds = 3
  MaxTimes = 3
  Operands <- MCOperands
SPECIFICATION Spec
INVARIANTS ExpandedAsMeant AlwaysCovers CountsSound
CHECK_DEADLOCK FALSE
