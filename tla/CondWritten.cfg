CONSTANTS
  Atoms <- TwoAtoms
  Sources <- AllSources
  MaxDepth = 14
SPECIFICATION Spec
INVARIANT AsWritten
