--------------------------- MODULE SequentialBlock ---------------------------
(***************************************************************************)
(* What executing a block means: its transactions are committed one after  *)
(* the other, as chain.Executor.CommitTransaction does.  The scheduler     *)
(* promises the same to whoever sees only the committed prefix and its     *)
(* state; it may commit several transactions at once.                      *)
(***************************************************************************)
EXTENDS Naturals

CONSTANTS
  N,              \* number of transactions
  Keys,           \* the keys of the state
  InitState,      \* the state the block starts from
  Blocks,         \* the blocks
  Deliver(_, _)   \* external: the outcome of a transaction on a state

VARIABLES
  txs,            \* the block
  committed,      \* the transactions below it are committed
  state           \* the state they leave

vars == <<txs, committed, state>>

\* A failed transaction is reverted.
CommitTransaction(p, s) ==
  LET out == Deliver(p, s)
  IN  IF out.result = "err" THEN s
      ELSE [k \in Keys |-> IF k \in DOMAIN out.writes THEN out.writes[k] ELSE s[k]]

\* The state after the first n transactions.
Sequential[n \in 0 .. N] ==
  IF n = 0 THEN InitState ELSE CommitTransaction(txs[n - 1], Sequential[n - 1])

Init ==
  /\ txs \in Blocks
  /\ committed = 0
  /\ state = InitState

CommitUpTo(n) ==
  /\ n > committed
  /\ committed' = n
  /\ state' = Sequential[n]
  /\ UNCHANGED txs

Next == \E n \in 1 .. N : CommitUpTo(n)

Spec == Init /\ [][Next]_vars

=============================================================================
