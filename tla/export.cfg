\* two runs with the same output file
SPECIFICATION Spec
CONSTANTS
  a = a  b = b
  Kinds <- Catalog
  Names = {a, b}
  InitItems <- AtStart
  Budget <- Interfere
INVARIANTS
  SuccessMeansComplete
  NothingLostSilently
  NothingStale
CHECK_DEADLOCK FALSE
