------------------------- MODULE TracedRunInvariant -------------------------
(***************************************************************************)
(* The inductive invariant of a traced run: the types of the EVM's state   *)
(* and of the tracer's maps, what the read set holds, and how the write    *)
(* set follows the EVM.                                                    *)
(***************************************************************************)
EXTENDS TracedRun

EvmState == [db : StateDB, dirty : SUBSET StorageKeys]

OpenFrame == [addr : Addrs, code : Addrs, caller : Addrs, value : Nat,
              create : BOOLEAN, saved : EvmState]

(* Every nonce a run can still come to: a unit of gas for each increment.  *)
NoncesBelow(db) ==
  \A a \in Addrs : db[a].nonce + gas <= parent[a].nonce + msg.gas + 1

(* The read set holds words of the parent state, the write set any words,  *)
(* but none for a code key.                                                *)
BooksOK(t, p) ==
  /\ t = Tracer(t.readset, t.writeset, t.aborted)
  /\ DOMAIN t.readset \subseteq StorageKeys
  /\ DOMAIN t.writeset \subseteq StorageKeys
  /\ DOMAIN t.writeset \cap CodeKeys = {}
  /\ \A k \in DOMAIN t.readset : t.readset[k] = GetValue(k, p)
  /\ \A k \in DOMAIN t.writeset : t.writeset[k] \in Word

Started ==
  /\ evm = [db |-> parent, dirty |-> {}]
  /\ frames = <<>>
  /\ gas = msg.gas
  /\ tracer = NewAccessListTracer
  /\ met = {}
  /\ observed = {}
  /\ codes = {}
  /\ Affordable(parent, msg)

EvmOK == evm \in EvmState /\ NoncesBelow(evm.db)

FramesOK ==
  /\ frames \in Seq(OpenFrame)
  /\ Len(frames) <= MaxDepth
  /\ \A j \in 1 .. Len(frames) : NoncesBelow(frames[j].saved.db)

TypeInv ==
  /\ TypeOK
  /\ EvmOK
  /\ FramesOK
  /\ BooksOK(tracer, parent)
  /\ phase = "start" => Started

(* What the EVM has not written, the tracer has not written, so that Get   *)
(* records it.                                                             *)
RecordInv ==
  met \cap Unrecorded = {} =>
    /\ observed \ codes \subseteq DOMAIN tracer.readset
    /\ DOMAIN tracer.writeset \subseteq evm.dirty
    /\ phase = "run" => {BalanceKey(msg.sender), BalanceKey(msg.feePayer)} \subseteq evm.dirty

(* Balances stay where the transaction's start has put them, and only      *)
(* frames that are met as CREATE leave code.                               *)
ExactInv ==
  phase # "start" /\ met \cap Misbooked = {} =>
    /\ Exact
    /\ \A j \in 1 .. Len(frames) : ~frames[j].create
    /\ phase = "run" =>
         \A a \in Addrs : evm.db[a].balance <= parent[a].balance + msg.value

(* What the write set stands for has lost the fee, and each balance has    *)
(* room for the refund.                                                    *)
SupplyInv ==
  phase # "start" /\ "VALUECALL" \notin met =>
    /\ SupplyPreserved
    /\ phase = "run" =>
         \A a \in Addrs :
           WriteBack(tracer.writeset, parent)[a].balance <= parent[a].balance + msg.value

=============================================================================
