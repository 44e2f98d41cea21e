SPECIFICATION Spec
CONSTANTS
  N = 3
  Keys = {k1}
  Values = {0, 1}
  Zero = 0
  InitState <- MCInitState
  MaxIncarnation = 0
INVARIANTS
  WritesetIndexed
  ValidMeansReread
PROPERTY WriteBackReplays
