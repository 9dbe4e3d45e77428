SPECIFICATION FairSpec
CHECK_DEADLOCK FALSE
CONSTANTS
  Address <- MCAddress
  Functions <- MCFunctions
  Internal <- MCFunctions
  Modules <- AllModules
  MaxWalk = 256
INVARIANTS MatchesCFG IndirectJumpsReachAll BlocksTerminated
PROPERTIES LiftsClosure Terminates
