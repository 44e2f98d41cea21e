SPECIFICATION Spec
CONSTANTS
  N = 3
  Keys = {a, b}
  Values = {0, 1, 2, 3}
  Zero = 0
  a = a
  b = b
  InitState <- MCInitState
  Workers = 0
  MaxIterations = 3
  Programs <- MCPrograms
  Blocks <- EveryBlock
  Deliver <- MCDeliver
INVARIANTS
  TypeOK
  CommittedIsSequential
  ParentIsCommitted
  UpdatesSeeLatest
  ParallelIsSequential
  MaxIncarnationExact
  NoTaskForgotten
  VersionsRecorded
PROPERTIES
  CommittedIsFinal
  RoundsImplementSequential
