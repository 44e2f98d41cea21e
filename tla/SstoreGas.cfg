SPECIFICATION Spec
CONSTANTS
  N = 2
  Addrs = {"a", "b", "c"}
  Slots = {"s"}
  WordSize = 4
  NonceSize = 4
  Keys <- StoreKeys
  Values <- TracedValues
  Zero = 0
  InitState <- StoreState
  Workers = 0
  MaxIterations = 10
  Programs <- StorePrograms
  Blocks <- StoreBlocks
  Deliver <- TracedDeliver
INVARIANT ParallelIsSequential
