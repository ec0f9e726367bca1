SPECIFICATION Spec
CONSTANTS
  Vars <- MCVars
  Blocks <- MCBlocks
  Funs <- MCFuns
  Groups <- MCGroups
  Programs <- PathPrograms
  Run = "Run"
  NoGroup = "none"
  NoBlock = "nil"
  Lit = "lit"
  MaxParallel = 3
INVARIANTS
  ReadsCurrent
  MergesPathEnds
  PhiAboveEnds
  RoundsComplete
  RoundsCovered
  ResultsLeadBack
  RunBlocksOnce
  NoCallLost
  NeverPanics
