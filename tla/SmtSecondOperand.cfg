SPECIFICATION Spec
CONSTANTS
  Vars <- MCVars
  Blocks <- MCBlocks
  Funs <- MCFuns
  Groups <- MCGroups
  Programs <- SecondOperandPrograms
  Run = "Run"
  NoGroup = "none"
  NoBlock = "nil"
  Lit = "lit"
  MaxParallel = 3
INVARIANTS
  OptionsSameStart
