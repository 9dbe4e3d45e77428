SPECIFICATION FairSpec
CONSTANT Programs <- MCPrograms
INVARIANT FunctionsWrapped
PROPERTIES RunsTheMachine LiftEnds
