CONSTANTS
  Atoms <- FourAtoms
  Sources <- AllSources
  MaxDepth = 14
SPECIFICATION Spec
INVARIANTS WalksEnd StraightAsWritten BlocksClosed
