---------------------------- MODULE MCStoreClient ----------------------------
(* Instances of the store for TLC: every key starts out empty.             *)
EXTENDS StoreClient

MCInitState == [k \in Keys |-> Zero]

=============================================================================
