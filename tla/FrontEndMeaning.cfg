\* Programs whose compiled form does not do what the language's document says.
SPECIFICATION Spec
CONSTANTS
  Programs <- Unsafe
  Inputs <- MCInputs
CHECK_DEADLOCK FALSE
INVARIANT
  SameMeaning
