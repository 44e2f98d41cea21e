---------------------------- MODULE MCTransfers ----------------------------
(***************************************************************************)
(* Blocks of transfers between two accounts, with the assumption of the    *)
(* proofs: the read sets the tracer makes of transfers are complete.       *)
(***************************************************************************)
EXTENDS MCTracedBlocks, UpdateInvariant

\* The two send to each other, and "b" to itself; "a" can just afford its two.
TransferState == Funded([addr \in Addrs |-> IF addr = "a" THEN 5 ELSE 4])

TransferPrograms ==
  {Tx("a", "b", 1, 0, NoStore), Tx("a", "b", 1, 1, NoStore),
   Tx("b", "a", 1, 0, NoStore), Tx("b", "b", 1, 1, NoStore)}

\* Every choice and order of them: a sender's second transaction may come without
\* or before the first, and then fails.
TransferBlocks == {block \in [Tasks -> TransferPrograms] :
                     \A i, j \in Tasks : block[i] = block[j] => i = j}

=============================================================================
