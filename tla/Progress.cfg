SPECIFICATION Spec
CONSTANTS
  N = 4
  Keys = {a, b}
  Values = {0, 1, 2, 3}
  Zero = 0
  a = a
  b = b
  InitState <- MCInitState
  Workers = 2
  MaxIterations = 3
  Programs <- MCPrograms
  Blocks <- HardBlocks
  Deliver <- MCDeliver
PROPERTY Termination
