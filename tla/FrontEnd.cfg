\* Programs with every construct of the language, each with four inputs.
SPECIFICATION Spec
CONSTANTS
  Programs <- MCPrograms
  Inputs <- MCInputs
INVARIANTS
  OneTerminator
  AllWellTyped
  NothingLeftOver
  SameMeaning
