SPECIFICATION Spec
CONSTANTS
  Values <- MCValues
  Blank = Blank
  Traces <- AllTraces
INVARIANTS
  TypeOK
  FloatRows
  TakenKept
  DeadGone
  EndsFound
PROPERTIES
  Displayed
