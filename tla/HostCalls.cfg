SPECIFICATION BothSpec
CONSTANTS
  Threads = {t1, t2}
  Accesses <- MCAccesses
  Values = {1, 2}
  MaxTime = 5
  Half = 2
  Narrow = 8
  Files <- MCFiles
  Garbage <- MCGarbage
  MaxOps = 2
  ThreadIds = {t1, t2}
  Modules <- MCModules
  MaxCalls = 3
  NoCall = NoCall
INVARIANTS FSIsTheThreads PrintsItsOwn
PROPERTIES ReadsItsClock StatTellsTheFile
