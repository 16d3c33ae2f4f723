CONSTANTS
  Bits = 2
  W32 = 4
  W64 = 5
  Thousand = 4
  Null = Null
  Failed = Failed
  Misfit = Misfit
  Inputs <- MCInputs
SPECIFICATION Spec
INVARIANTS
  RowsSurvive
  KeysDistinct
  CutRefused
CHECK_DEADLOCK FALSE
