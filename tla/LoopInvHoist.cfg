\* Loops alone, nested, in sequence and around or inside an if, and four graphs the
\* builder does not make.
SPECIFICATION Spec
CONSTANTS
  Block <- MCBlock
  Functions <- MCFunctions
  Data <- MCData
  Undef = Undef
CHECK_DEADLOCK FALSE
INVARIANTS
  LoopsExact
  Nesting
  SameBehaviour
PROPERTIES
  MovesOutwards
  HoistEnds
