\* An if/else, a while and an if in a while, with a value defined and read anywhere.
SPECIFICATION Spec
CONSTANTS
  Val <- MCVal
  Block = {1, 2, 3, 4, 5, 6}
  Functions <- MCFunctions
CHECK_DEADLOCK FALSE
INVARIANTS
  TypeOK
  ReadsInside
  CoveredUnlessCarried
  SlotsDisjoint
