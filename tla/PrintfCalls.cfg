SPECIFICATION Spec
CONSTANTS
  Programs <- MCPrograms
  MaxSteps = 12
INVARIANT PrintsRight
PROPERTIES PassEnds
