SPECIFICATION ScriptSpec
CONSTANTS
  NamePart <- MCNamePart
  Underscored <- MCUnderscored
  WeakList <- MCWeakList
  ListedParams <- MCListedParams
  FunctionToBeChangedMap <- MCChanged
  Lifted <- MCLifted
  Programs <- MCPrograms
  MaxRuns = 2
  MaxFaults = 1
CHECK_DEADLOCK FALSE
CONSTRAINT RunOnce
ACTION_CONSTRAINT Rebuilds
INVARIANTS EveryPassApplied PassesAgree
PROPERTY CompletedIsCurrent
