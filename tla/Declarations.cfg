SPECIFICATION DeclarationsSpec
CHECK_DEADLOCK FALSE
CONSTANTS
  Conventions <- MCConventions
  ReturnTypes <- MCReturnTypes
  ArgumentTypes <- MCArgumentTypes
  MaxParams <- MCMaxParams
  MaxTrips = 4
INVARIANTS ValuesApart DeclaredWhole StackOnlyWhenFull TypesSurvive
