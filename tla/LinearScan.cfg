\* Every pattern of four instruction intervals and two parameters, and two
\* functions one after the other.
SPECIFICATION Spec
CONSTANTS
  NumInstr = 4
  Val <- MCVal
  TempIds <- MCTempIds
  ArgIds <- MCArgIds
  Modules <- MCModules
CHECK_DEADLOCK FALSE
INVARIANTS
  TypeOK
  NoInterference
  RegistersConserved
  AllPlaced
PROPERTIES
  SpillLongest
