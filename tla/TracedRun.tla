------------------------------ MODULE TracedRun ------------------------------
(***************************************************************************)
(* One execution of a transaction with the tracer attached, as deliverTx   *)
(* (processor/processor.go) starts it: the EVM, external, runs arbitrary   *)
(* contract code on its copy of the parent state and tells the tracer of   *)
(* the start, of every opcode before it is executed, and of the end.  The  *)
(* code is arbitrary, so each step may be any opcode the gas pays for.     *)
(*                                                                         *)
(* The EVM is that of the Kaia library: fees, frames, value transfers and  *)
(* the undoing of a failed frame.  Every opcode costs one unit of gas,     *)
(* SSTORE more if it fills an empty slot.                                  *)
(***************************************************************************)
EXTENDS AccessListTracer, Sequences, FiniteSetsExt

CONSTANTS
  Messages,    \* the transactions
  Parents,     \* the parent states
  GasAddress,  \* the account that the gas argument of a call reads as
  Sums,        \* the values calls carry
  MaxDepth     \* bound on the call depth

ASSUME AddrsAssumption == IsFiniteSet(Addrs)
ASSUME MessagesAssumption == Messages \subseteq Message
ASSUME ParentsAssumption == Parents \subseteq StateDB
ASSUME GasAddressAssumption == GasAddress \in Addrs
ASSUME SumsAssumption == Sums \subseteq Nat
ASSUME MaxDepthAssumption == MaxDepth \in Nat \ {0}

\* A sender is no contract.
ASSUME SendersAssumption == \A m \in Messages, p \in Parents : p[m.sender].codeSize = 0

\* Nonces are far below 2^63, balances and fees far below 2^256.
ASSUME SmallAssumption ==
  \A m \in Messages, p \in Parents, a \in Addrs :
    /\ 2 * (p[a].nonce + m.gas + 1) < NonceSize
    /\ p[a].balance + m.value + m.gas * m.gasPrice < WordSize

VARIABLES
  msg, parent,
  evm,      \* the EVM's state: [db, dirty], dirty being the keys it has written
  frames,   \* the open calls, innermost first
  gas,      \* the gas left
  tracer,   \* the tracer
  phase,    \* "start", "run" or "done"
  met,      \* history: the operations met that the properties tell apart
  observed, \* history: the keys whose value in the parent state mattered
  codes     \* history: those of them that mattered only as the code to be run

vars == <<msg, parent, evm, frames, gas, tracer, phase, met, observed, codes>>

TypeOK ==
  /\ msg \in Messages
  /\ parent \in Parents
  /\ evm.db \in StateDB
  /\ evm.dirty \subseteq StorageKeys
  /\ Len(frames) <= MaxDepth
  /\ gas \in 0 .. msg.gas
  /\ DOMAIN tracer.readset \subseteq StorageKeys
  /\ DOMAIN tracer.writeset \subseteq StorageKeys
  /\ phase \in {"start", "run", "done"}
  /\ observed \subseteq StorageKeys
  /\ codes \subseteq CodeKeys

-----------------------------------------------------------------------------
(* The EVM.                                                                *)

Pay(db, addr, sum) == [db EXCEPT ![addr].balance = @ - sum]
Move(db, from, to, sum) == Pay(Pay(db, from, sum), to, -sum)

\* The fee is bought (sign = 1) or what is left of it refunded (sign = -1).
Fee(db, m, fee, sign) ==
  LET part == IF m.ratio = NoRatio THEN [feePayer |-> fee, sender |-> 0]
                                   ELSE CalcFeeWithRatio(m.ratio, fee)
  IN  Pay(Pay(db, m.feePayer, sign * part.feePayer), m.sender, sign * part.sender)

GasBought(db, m) == Fee(db, m, m.gas * m.gasPrice, 1)

\* ApplyTransaction refuses a message whose fee and value cannot be paid.
Affordable(db, m) ==
  \A a \in Addrs : /\ GasBought(db, m)[a].balance >= 0
                   /\ Pay(GasBought(db, m), m.sender, m.value)[a].balance >= 0

Frame(addr, code, caller, value, create) ==
  [addr |-> addr, code |-> code, caller |-> caller, value |-> value,
   create |-> create, saved |-> evm]

Wrote(db, keys) == [db |-> db, dirty |-> evm.dirty \cup keys]

\* What code an account runs, if any, depends on its code hash.
CodeKey(addr) == ToStorageKey(addr, "codehash")

SstoreCost(old, new) == IF old = 0 /\ new # 0 THEN 2 ELSE 1

-----------------------------------------------------------------------------

Init ==
  /\ msg \in Messages
  /\ parent \in {p \in Parents : Affordable(p, msg)}
  /\ evm = [db |-> parent, dirty |-> {}]
  /\ frames = <<>>
  /\ gas = msg.gas
  /\ tracer = NewAccessListTracer
  /\ phase = "start"
  /\ met = {}
  /\ observed = {}
  /\ codes = {}

\* The nonce goes up and the fee is bought before the frame is entered, and stay
\* if it fails; the tracer is told of it all with CaptureStart, which looks at the
\* code size of the sender.  The code of the recipient is run.
TxStart ==
  LET fees   == {BalanceKey(msg.sender), BalanceKey(msg.feePayer), NonceKey(msg.sender)}
      bought == [GasBought(parent, msg) EXCEPT ![msg.sender].nonce = @ + 1]
      moved  == Move(bought, msg.sender, msg.to, msg.value)
      saved  == [db |-> bought, dirty |-> fees]
      code   == {CodeKey(msg.to), ToStorageKey(msg.sender, "codesize")}
  IN  /\ phase = "start"
      /\ phase' = "run"
      /\ frames' = <<[addr |-> msg.to, code |-> msg.to, caller |-> msg.sender,
                      value |-> msg.value, create |-> msg.create, saved |-> saved]>>
      /\ evm' = [db    |-> IF msg.create THEN [moved EXCEPT ![msg.to].nonce = 1]
                                         ELSE moved,
                 dirty |-> fees \cup {BalanceKey(msg.to)}]
      /\ tracer' = CaptureStart(tracer, parent, msg, parent[msg.sender].codeSize > 0)
      /\ met' = IF msg.create THEN {"CREATE"} ELSE {}
      /\ observed' = fees \cup {BalanceKey(msg.to)} \cup code
      /\ codes' = code
      /\ UNCHANGED <<msg, parent, gas>>

Current == Head(frames)

HasCode(frame) == frame.create \/ evm.db[frame.code].codeSize > 0

\* An opcode is met in the innermost frame.  It depends on the values of the
\* keys uses, and of runs, the code it starts; tags is what the history keeps
\* of it.
Opcode(op, top, second, cost, uses, runs, tags) ==
  /\ phase = "run"
  /\ frames # <<>>
  /\ HasCode(Current)
  /\ gas >= cost
  /\ gas' = gas - cost
  /\ tracer' = CaptureState(tracer, parent, Current, op, top, second)
  /\ met' = met \cup tags
  /\ observed' = observed \cup ((uses \cup runs) \ evm.dirty)
  /\ codes' = (codes \ (uses \ evm.dirty)) \cup (runs \ (observed \cup evm.dirty))
  /\ UNCHANGED <<msg, parent, phase>>

Sload(slot) ==
  /\ Opcode("SLOAD", slot, 0, 1, {ToStorageKey(Current.addr, slot)}, {}, {})
  /\ UNCHANGED <<evm, frames>>

\* What the store costs depends on the value it replaces.
Sstore(slot, word) ==
  LET key == ToStorageKey(Current.addr, slot)
  IN  /\ Opcode("SSTORE", slot, word, SstoreCost(GetValue(key, evm.db), word), {key}, {},
                IF key \in observed \cup evm.dirty THEN {} ELSE {"BLINDSTORE"})
      /\ evm' = Wrote(SetValue(key, evm.db, word), {key})
      /\ UNCHANGED frames

\* The code of an account changes only with CREATE.
ExtCode(op, addr) ==
  /\ op \in {"EXTCODECOPY", "EXTCODEHASH", "EXTCODESIZE"}
  /\ Opcode(op, addr, 0, 1,
            {ToStorageKey(addr, CASE op = "EXTCODECOPY" -> "codecopy"
                                  [] op = "EXTCODEHASH" -> "codehash"
                                  [] op = "EXTCODESIZE" -> "codesize")}, {}, {})
  /\ UNCHANGED <<evm, frames>>

Balance(addr) ==
  /\ Opcode("BALANCE", addr, 0, 1, {BalanceKey(addr)}, {}, {})
  /\ UNCHANGED <<evm, frames>>

\* Like BALANCE of the contract itself, with nothing on the stack.
SelfBalance ==
  /\ Opcode("SELFBALANCE", 0, 0, 1, {BalanceKey(Current.addr)}, {}, {"SELFBALANCE"})
  /\ UNCHANGED <<evm, frames>>

\* A call from a frame that was given value, or that gives value.
CallTag(sum) == IF sum > 0 \/ Current.value > 0 THEN {"VALUECALL"} ELSE {}

Enter(frame) ==
  /\ Len(frames) < MaxDepth
  /\ frames' = <<frame>> \o frames

Call(to, sum) ==
  LET self == Current.addr
      uses == IF sum > 0 THEN {BalanceKey(self), BalanceKey(to)} ELSE {}
  IN  /\ Opcode("CALL", GasAddress, 0, 1, uses, {CodeKey(to)}, CallTag(sum))
      /\ sum <= evm.db[self].balance
      /\ Enter(Frame(to, to, self, sum, FALSE))
      /\ evm' = Wrote(Move(evm.db, self, to, sum), uses)

\* The contract cannot pay: the call fails without entering a frame.
CallUnpaid(sum) ==
  /\ Opcode("CALL", GasAddress, 0, 1, {BalanceKey(Current.addr)}, {}, CallTag(sum))
  /\ sum > evm.db[Current.addr].balance
  /\ UNCHANGED <<evm, frames>>

\* The code of another account, run in this one.
CallCode(code, sum) ==
  /\ Opcode("CALLCODE", GasAddress, 0, 1,
            IF sum > 0 THEN {BalanceKey(Current.addr)} ELSE {}, {CodeKey(code)}, CallTag(sum))
  /\ sum <= evm.db[Current.addr].balance
  /\ Enter(Frame(Current.addr, code, Current.addr, sum, FALSE))
  /\ UNCHANGED evm

\* The same with this frame's caller and value.
DelegateCall(code) ==
  /\ Opcode("DELEGATECALL", GasAddress, 0, 1, {}, {CodeKey(code)}, {})
  /\ Enter(Frame(Current.addr, code, Current.caller, Current.value, FALSE))
  /\ UNCHANGED evm

Create(new, sum) ==
  LET self  == Current.addr
      moved == Move(evm.db, self, new, sum)
      keys  == {BalanceKey(self), BalanceKey(new), NonceKey(self), NonceKey(new)}
  IN  /\ Opcode("CREATE", 0, 0, 1, keys, {CodeKey(new)}, {"CREATE"})
      /\ evm.db[new].codeSize = 0 /\ evm.db[new].nonce = 0
      /\ sum <= evm.db[self].balance
      /\ Enter(Frame(new, new, self, sum, TRUE))
      /\ evm' = Wrote([moved EXCEPT ![self].nonce = @ + 1, ![new].nonce = 1], keys)

\* The frame succeeds; one that creates a contract leaves its code.
Return ==
  /\ phase = "run"
  /\ frames # <<>>
  /\ frames' = Tail(frames)
  /\ evm' = IF Current.create
            THEN Wrote([evm.db EXCEPT ![Current.addr].codeSize = 1,
                                      ![Current.addr].codeHash = 1],
                       {ToStorageKey(Current.addr, slot) : slot \in CodeSlots})
            ELSE evm
  /\ UNCHANGED <<msg, parent, gas, tracer, phase, met, observed, codes>>

\* The frame fails and its effects are undone: REVERT keeps the gas, an invalid
\* instruction uses it up.  CaptureExit and CaptureFault do nothing.
Fail ==
  /\ phase = "run"
  /\ frames # <<>>
  /\ HasCode(Current)
  /\ frames' = Tail(frames)
  /\ evm' = Current.saved
  /\ gas' \in {gas, 0}
  /\ met' = met \cup {"REVERT"}
  /\ UNCHANGED <<msg, parent, tracer, phase, observed, codes>>

SelfDestruct(heir) ==
  LET self == Current.addr
      keys == {BalanceKey(self), BalanceKey(heir)}
  IN  /\ Opcode("SELFDESTRUCT", heir, 0, 1, keys, {}, {"SELFDESTRUCT"})
      /\ evm' = Wrote(Move(evm.db, self, heir, evm.db[self].balance), keys)
      /\ frames' = Tail(frames)

\* The outermost frame is left, successfully or not.
TxEnd ==
  /\ phase = "run"
  /\ frames = <<>>
  /\ phase' = "done"
  /\ evm' = Wrote(Fee(evm.db, msg, gas * msg.gasPrice, -1), {})
  /\ tracer' = CaptureTxEnd(tracer, parent, msg, gas)
  /\ UNCHANGED <<msg, parent, frames, gas, met, observed, codes>>

Terminated == phase = "done" /\ UNCHANGED vars

Next ==
  \/ TxStart \/ SelfBalance \/ Return \/ Fail \/ TxEnd \/ Terminated
  \/ \E slot \in Slots : Sload(slot) \/ \E word \in {0, 1} : Sstore(slot, word)
  \/ \E addr \in Addrs :
       \/ Balance(addr) \/ DelegateCall(addr) \/ SelfDestruct(addr)
       \/ \E op \in {"EXTCODECOPY", "EXTCODEHASH", "EXTCODESIZE"} : ExtCode(op, addr)
       \/ \E sum \in Sums : Call(addr, sum) \/ CallCode(addr, sum) \/ Create(addr, sum)
  \/ \E sum \in Sums : CallUnpaid(sum)

Spec == Init /\ [][Next]_vars

-----------------------------------------------------------------------------
(* What the tracer's books are worth.                                      *)

\* The parent state with the write set written back is what the EVM has.
Exact == WriteBack(tracer.writeset, parent) = evm.db

Misbooked == {"REVERT", "VALUECALL", "CREATE", "SELFDESTRUCT"}
Unrecorded == Misbooked \cup {"SELFBALANCE", "BLINDSTORE"}

(* The write set alone makes up the block's result, so it must be the      *)
(* effect of the run: after every step, whatever opcodes it met, unless a  *)
(* frame failed, value went through a call, a contract was created or      *)
(* destroyed (tracer.go:91-187, 247-259; store.go:317-331).                *)
PlainRunIsExact == phase # "start" /\ met \cap Misbooked = {} => Exact

(* Validation re-reads the recorded reads, so every key on whose value in  *)
(* the parent state the run depended must be in the read set, or be one    *)
(* that no transaction's write set can change.  Such are the codes that    *)
(* were run, and the code size of the sender (tracer.go:108), of which     *)
(* nothing is recorded: no write set names a code key.  BLINDSTORE and     *)
(* SELFBALANCE are not recorded either, nor is what a call with value      *)
(* touches, and after a failed frame its writes hide later reads           *)
(* (tracer.go:122-187, 318-351).                                           *)
ObservedIsRecorded ==
  /\ met \cap Unrecorded = {} => observed \ codes \subseteq DOMAIN tracer.readset
  /\ DOMAIN tracer.writeset \cap CodeKeys = {}

(* What is recorded of a key is the word of the parent state, also if the  *)
(* run has written the key before it reads it: validation compares it with *)
(* the versions before the transaction's own, and would refuse in every    *)
(* round one that had recorded its own write (tracer.go:322-351).          *)
ReadsetIsParents ==
  \A k \in DOMAIN tracer.readset : tracer.readset[k] = GetValue(k, parent)

Total(db) == MapThenSumSet(LAMBDA a : db[a].balance, Addrs)

(* The balances of the write set lose exactly the fee, in every run that   *)
(* passes no value through a call, failed frames included, whoever sends,  *)
(* pays and receives, one account or three: each update builds on the one  *)
(* before it, and no balance goes below zero, where BigToHash would make   *)
(* it positive (tracer.go:405-420).                                        *)
SupplyPreserved ==
  phase # "start" /\ "VALUECALL" \notin met =>
    Total(WriteBack(tracer.writeset, parent))
      + (IF phase = "done" THEN msg.gas - gas ELSE msg.gas) * msg.gasPrice
      = Total(parent)

-----------------------------------------------------------------------------
(* What a test and a comment of the repository say, and the tracer does    *)
(* not do.                                                                 *)

ExactDespite(tags) == phase = "done" /\ met \cap (Misbooked \ tags) = {} => Exact

(* The state that is written back is that of the execution                 *)
(* (processor_test.go:238, `assert.Equal(t, root, rootSequential)`), so    *)
(* the writes of a failed frame, the transaction's own value transfer      *)
(* among them, are not in it; CaptureExit does nothing (tracer.go:243).    *)
RevertIsUndone == ExactDespite({"REVERT"})

(* "CaptureState captures all opcodes that touch storage or addresses"     *)
(* (tracer.go:122): the balances that CALL moves and the account that      *)
(* CREATE makes are in the write set as the EVM has them.  For CALL the    *)
(* frame's caller and value are recorded, with the gas taken for the other *)
(* account (tracer.go:168-177); for CREATE nothing is (tracer.go:184).     *)
AllOpcodesCaptured == ExactDespite({"VALUECALL", "CREATE"})

=============================================================================
