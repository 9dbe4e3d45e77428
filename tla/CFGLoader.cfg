SPECIFICATION Spec
CONSTANTS
  Modules <- CFGs
  PointerSize = 2
  MergeAdjacent = TRUE
  MaxBlobSize = 2
  PrivateNames = {"k"}
  ThunkNames = {"h"}
  None = "none"
INVARIANTS SegmentsDescribed LookupsLive SameVariable BlocksComplete
