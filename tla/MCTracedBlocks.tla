--------------------------- MODULE MCTracedBlocks ---------------------------
(***************************************************************************)
(* The scheduler with the tracer in place of an abstract Deliver: blocks   *)
(* of value transfers, and of calls that store a word, whose read and      *)
(* write sets are the ones the tracer makes of them.                       *)
(***************************************************************************)
EXTENDS SchedulerCorrectness, TLC

CONSTANTS Addrs, Slots, WordSize, NonceSize

T == INSTANCE AccessListTracer

(* A transaction: a message, the nonce it is for, and the word it stores   *)
(* in the recipient's slot "s", or NoStore.                                *)
NoStore == -1

Tx(from, to, value, nonce, word) ==
  [msg |-> [sender |-> from, feePayer |-> from, ratio |-> T!NoRatio, gas |-> 2,
            gasPrice |-> 1, to |-> to, value |-> value, create |-> FALSE],
   nonce |-> nonce, word |-> word]

\* External: filling an empty slot costs more.
SstoreCost(old, new) == IF old = 0 /\ new # 0 THEN 2 ELSE 1

\* deliverTx: ApplyTransaction refuses a wrong nonce and a sender who cannot pay;
\* otherwise the tracer is told of the start, of the store and of the end.
TracedDeliver(p, s) ==
  LET parent  == T!WriteBack(s, [addr \in Addrs |-> T!NoAccount])
      sender  == parent[p.msg.sender]
      frame   == [addr |-> p.msg.to, caller |-> p.msg.sender, value |-> p.msg.value]
      started == T!CaptureStart(T!NewAccessListTracer, parent, p.msg, FALSE)
      stored  == IF p.word = NoStore THEN started
                 ELSE T!CaptureState(started, parent, frame, "SSTORE", "s", p.word)
      cost    == IF p.word = NoStore THEN 1
                 ELSE SstoreCost(parent[p.msg.to].storage["s"], p.word)
      ended   == T!CaptureTxEnd(stored, parent, p.msg, p.msg.gas - cost)
  IN  IF \/ sender.nonce # p.nonce
         \/ sender.balance < p.msg.gas * p.msg.gasPrice + p.msg.value
      THEN NoOutcome
      ELSE [result |-> "ok", reads |-> DOMAIN ended.readset, writes |-> ended.writeset]

TracedValues == T!Word

\* The accounts have these balances; nonces and slots start at zero.
Funded(balance) ==
  [k \in Keys |-> IF k.slot = "balance" THEN balance[k.addr] ELSE Zero]

-----------------------------------------------------------------------------
(* Transfers between accounts.                                             *)

TransferKeys ==
  {T!BalanceKey(addr) : addr \in Addrs} \cup {T!NonceKey(addr) : addr \in Addrs}

EvenState == Funded([addr \in Addrs |-> 5])

\* "b" is refused its first transaction, the second of "a" is until the first is
\* written back, and "b"'s next is validated long before the two have run.
RefusedPrograms == {Tx("b", "b", 1, 1, NoStore), Tx("a", "a", 1, 0, NoStore),
                    Tx("a", "b", 1, 1, NoStore), Tx("b", "b", 1, 0, NoStore)}

RefusedBlocks == {[i \in Tasks |-> CASE i = 0 -> Tx("b", "b", 1, 1, NoStore)
                                      [] i = 1 -> Tx("a", "a", 1, 0, NoStore)
                                      [] i = 2 -> Tx("a", "b", 1, 1, NoStore)
                                      [] i = 3 -> Tx("b", "b", 1, 0, NoStore)]}

\* Between two transfers that change the balance of "b", one of nothing to "b".
NothingPrograms == {Tx("a", "b", 1, 0, NoStore), Tx("c", "b", 0, 0, NoStore),
                    Tx("b", "b", 1, 0, NoStore)}

NothingBlocks == {[i \in Tasks |-> CASE i = 0 -> Tx("a", "b", 1, 0, NoStore)
                                      [] i = 1 -> Tx("c", "b", 0, 0, NoStore)
                                      [] i = 2 -> Tx("b", "b", 1, 0, NoStore)]}

-----------------------------------------------------------------------------
(* Stores: "a" and "b" each store a word in the same slot of "c".          *)

StoreKeys  == TransferKeys \cup {T!ToStorageKey("c", "s")}
StoreState == Funded([addr \in Addrs |-> IF addr = "c" THEN 0 ELSE 3])

StorePrograms == {Tx("a", "c", 0, 0, 1), Tx("b", "c", 0, 0, 2)}

StoreBlocks == {[i \in Tasks |-> IF i = 0 THEN Tx("a", "c", 0, 0, 1)
                                          ELSE Tx("b", "c", 0, 0, 2)]}

=============================================================================
