----------------------------- MODULE StoreClient -----------------------------
(***************************************************************************)
(* The multi-version store under an arbitrary client: any call of its      *)
(* interface, with any arguments, in any order.  What holds here holds     *)
(* whatever the scheduler does with the store.                             *)
(***************************************************************************)
EXTENDS MultiVersionStore

CONSTANT MaxIncarnation   \* bound on the incarnations a client passes

ASSUME IncarnationAssumption == MaxIncarnation \in Nat

Init == StoreInit

Next ==
  \/ \E i \in Tasks, n \in 0 .. MaxIncarnation, ws \in WriteSet :
       SetWriteset(i, n, ws) \/ SetEstimatedWriteset(i, n, ws)
  \/ \E i \in Tasks, n \in 0 .. MaxIncarnation : InvalidateWriteset(i, n)
  \/ \E i \in Tasks : ClearReadset(i)
  \/ \E i \in Tasks, rs \in ReadSet : SetReadset(i, rs)
  \/ WriteLatestToStore
  \/ \E lo \in Tasks, hi \in 0 .. N : WriteLatestToStoreUntil(lo, hi)

Spec == Init /\ [][Next]_storeVars

-----------------------------------------------------------------------------
(* The key index of removeOldWriteset is exact: a transaction has a        *)
(* version of a key exactly when the key is in its recorded write set.  A  *)
(* version the index forgot could never be removed again, and would be     *)
(* read, validated against and written back for ever (store.go:107-133).   *)
WritesetIndexed ==
  \A i \in Tasks, k \in Keys :
    i \in Held(multiVersionMap[k]) <=> k \in txWritesetKeys[i]

(* The states after replaying what the store holds on the parent state.    *)
Replayed == Replay(multiVersionMap, parentStore)

(* A read set that is accepted, found valid and without conflicts, is what *)
(* a re-execution would read: every key has exactly the one value that     *)
(* replaying the lower indices gives, and none hides behind an estimate.   *)
(* On this answer the scheduler marks the task validated                   *)
(* (store.go:225-278, scheduler.go:352-367).                               *)
ValidMeansReread ==
  \A i \in Tasks :
    LET check == ValidateTransactionState(i, parentStore)
    IN  check.valid /\ check.conflicts = {} =>
          \A k \in KeysRead(i) :
            /\ txReadSets[i][k] = {Replayed[i][k]}
            /\ \A j \in LatestBefore(i, k) : ~IsEstimate(multiVersionMap[k][j])

(* The final write-back equals replaying the block in order: whatever mix  *)
(* of estimates, deletions and values the trees hold, WriteLatestToStore   *)
(* leaves in the parent state the last value written to each key           *)
(* (store.go:334-374).                                                     *)
WriteBackReplays ==
  [][WriteLatestToStore => parentStore' = Replayed[N]]_storeVars

-----------------------------------------------------------------------------
(* What a test of the repository says, and the store does not do.          *)

(* A read set that is what replaying the values of the lower indices gives *)
(* is valid, also if an estimate is in the way, which is then a conflict   *)
(* (store_test.go:376-377, `require.True(t, valid)` and `require.Equal(t,  *)
(* []int{4}, conflicts)` with an estimate of transaction 4 over the        *)
(* version read; the scheduler has a branch for it, scheduler.go:369).  In *)
(* the code an estimate makes the read invalid (store.go:253-255).         *)
RereadMeansValid ==
  \A i \in Tasks :
    (\A k \in KeysRead(i) : txReadSets[i][k] = {Replayed[i][k]}) =>
      ValidateTransactionState(i, parentStore).valid

=============================================================================
