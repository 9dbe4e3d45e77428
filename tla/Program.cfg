SPECIFICATION MCSpec
CHECK_DEADLOCK FALSE
CONSTANTS
  MaxAddr = 4
  PtrMax = 4
  VarSizes = {1, 2}
  Forces = {FALSE, TRUE}
  MaxRanges = 3
  MaxFuncs = 2
  MaxVars = 3
  MaxLoops = 2
INVARIANTS LookupsAgree VisitsEachOnce
PROPERTIES FindNextByteCrosses KeepsPromise
