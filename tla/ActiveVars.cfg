\* Every placement of a plain value and a phi in an if/else, a while and an if in
\* a while.
SPECIFICATION FairSpec
CONSTANTS
  Var <- MCVar
  Block = {1, 2, 3, 4, 5, 6}
  Functions <- MCFunctions
CHECK_DEADLOCK FALSE
INVARIANTS
  TypeOK
  NeverTooMuch
  StopsAtSolution
PROPERTIES
  Terminates
