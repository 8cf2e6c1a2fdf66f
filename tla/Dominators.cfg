\* Every graph of four blocks, and some of seven whose iteration takes several passes.
SPECIFICATION FairSpec
CONSTANTS
  N = 4
  Block = {1, 2, 3, 4, 5, 6, 7}
  NoBlock = NoBlock
  Functions <- MCFunctions
CHECK_DEADLOCK FALSE
INVARIANTS
  TypeOK
  ParentsAbove
  AssertsHold
  IdomCorrect
  FrontierCorrect
PROPERTIES
  Terminates
