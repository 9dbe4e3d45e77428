SPECIFICATION Spec
CONSTANTS
  Modules <- MCModules
  Page = 4
  ShiftWidth = 3
  LastAddress = 24
  Threads = {t1, t2}
  StackTop = 20
  MaxEntries = 3
ACTION_CONSTRAINT RunsReferences
SYMMETRY AnyThread
INVARIANTS XrefsResolved LayoutKept CodeSeesTargets WritesSurvive FramesKept
