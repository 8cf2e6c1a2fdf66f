\* An if with an else, a while and an if in a while, with variables that are swapped,
\* local to a branch, or without a value on some path.
SPECIFICATION Spec
CONSTANTS
  Block <- MCBlock
  Functions <- MCFunctions
  Data <- MCData
  Undef = Undef
CHECK_DEADLOCK FALSE
INVARIANTS
  DefsDominate
  EmptyMeansUnassigned
  UseListsExact
  SameReads
