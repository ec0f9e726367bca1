CONSTANTS
  MaxRepeat = 2
  Ids = {"x", "y", "n"}
  Sort <- Sorts
  Versions = {0, 1, 2}
  MaxInt16 = 1
  Literals = {1, 2, 3}
  Scale = 2
  Negatives = TRUE
  AnswerFuel = 3
  Uncertains = {"x"}
SPECIFICATION Spec
INVARIANT AnswerKept
PROPERTIES HonestVerdict RunEnds
