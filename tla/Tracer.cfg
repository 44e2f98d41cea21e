SPECIFICATION Spec
CONSTANTS
  Addrs = {"sender", "payer", "contract", "other", "new"}
  Slots = {"s"}
  WordSize = 16
  NonceSize = 16
  Messages <- MCMessages
  Parents <- MCParents
  GasAddress = "new"
  Sums = {0, 1}
  MaxDepth = 3
INVARIANTS
  PlainRunIsExact
  ObservedIsRecorded
  
  SupplyPreserved
