SPECIFICATION Spec
CONSTANTS
  Addrs = {"sender", "payer", "contract", "other", "new"}
  Slots = {"s"}
  WordSize = 16
  NonceSize = 16
  Messages <- CallMessages
  Parents <- MCParents
  GasAddress = "new"
  Sums = {1, 3}
  MaxDepth = 3
INVARIANT AllOpcodesCaptured
