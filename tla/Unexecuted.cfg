SPECIFICATION Spec
CONSTANTS
  N = 4
  Keys = {a, b}
  Values = {0, 1, 2}
  Zero = 0
  a = a
  b = b
  InitState <- MCInitState
  Workers = 0
  MaxIterations = 10
  Programs <- MCPrograms
  Blocks <- UnexecutedBlocks
  Deliver <- MCDeliver
INVARIANT SuccessfulIsExecuted
