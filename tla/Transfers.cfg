SPECIFICATION Spec
CONSTANTS
  N = 4
  Addrs = {"a", "b"}
  Slots = {}
  WordSize = 8
  NonceSize = 8
  Keys <- TransferKeys
  Values <- TracedValues
  Zero = 0
  InitState <- TransferState
  Workers = 2
  MaxIterations = 5
  Programs <- TransferPrograms
  Blocks <- TransferBlocks
  Deliver <- TracedDeliver
INVARIANT RoundsPerTask
PROPERTY ImplementsSequential
