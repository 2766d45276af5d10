\* Both programs, up to two unusable devices, kills everywhere; the ARM build.
SPECIFICATION Spec
CONSTANTS
  CharSigned = FALSE
  Byte = 4
  CommandLines <- TwoLines
  MaxBad = 2
INVARIANTS
  TypeOK
  PromptWhole
  FaultsKnown
