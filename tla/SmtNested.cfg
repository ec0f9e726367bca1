SPECIFICATION Spec
CONSTANTS
  Vars <- MCVars
  Blocks <- MCBlocks
  Funs <- MCFuns
  Groups <- MCGroups
  Programs <- NestedPrograms
  Run = "Run"
  NoGroup = "none"
  NoBlock = "nil"
  Lit = "lit"
  MaxParallel = 3
INVARIANTS
  TypeOK
  VersionsContiguous
  PhisHandedOut
  ForkOpen
  ReadsDeclared
PROPERTIES
  VersionsGrow
  Terminates
