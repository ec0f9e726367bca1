SPECIFICATION Spec
CONSTANTS
  States <- MCStates
  Specs <- MCSpecs
INVARIANTS
  TypeOK
  VerdictExact
PROPERTIES
  Decides
