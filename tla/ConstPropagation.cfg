\* Operations on the constants at the edges of 4-bit integers, chains through
\* conversions, phis and globals.
SPECIFICATION Spec
CONSTANTS
  Block <- MCBlock
  Functions <- MCFunctions
  Width <- MCWidth
  Data <- MCData
  Undef = Undef
CHECK_DEADLOCK FALSE
INVARIANTS
  UseListsExact
  OnlyZextLeft
  SameBehaviour
