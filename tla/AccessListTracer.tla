-------------------------- MODULE AccessListTracer --------------------------
(***************************************************************************)
(* What the tracer (multiversion/tracer.go) makes of the calls the EVM     *)
(* gives it.  The EVM runs on a copy of the parent state; the tracer keeps *)
(* its own account of balances, nonces and slots in a read set and a write *)
(* set, starting from the parent state, and this account, not the copy, is *)
(* what the block's result is made of.                                     *)
(*                                                                         *)
(* A tracer is a record; each call is an operator from tracer to tracer.   *)
(* That a read meets an estimate of another transaction, and aborts, is in *)
(* module Scheduler (Get).                                                 *)
(***************************************************************************)
EXTENDS StorageKey

(* A message: its sender and fee payer, the share of the fee in percent    *)
(* that the fee payer bears (NoRatio if it bears all of it), gas limit and *)
(* price, recipient, value, and whether it creates a contract.             *)
NoRatio == 0

Message == [sender : Addrs, feePayer : Addrs, ratio : 0 .. 99, gas : Nat,
            gasPrice : Nat, to : Addrs, value : Nat, create : BOOLEAN]

\* A read set has one value per key: Get records the first and looks there
\* before it reads again.
Tracer(readset, writeset, aborted) ==
  [readset |-> readset, writeset |-> writeset, aborted |-> aborted]

NewAccessListTracer == Tracer(<<>>, <<>>, FALSE)

\* The map with one entry set.
With(map, key, word) ==
  [k \in DOMAIN map \cup {key} |-> IF k = key THEN word ELSE map[k]]

\* The value Get returns: own write, own earlier read, parent state.
Get(t, parent, key) ==
  CASE key \in DOMAIN t.writeset -> t.writeset[key]
    [] key \in DOMAIN t.readset \ DOMAIN t.writeset -> t.readset[key]
    [] OTHER -> GetValue(key, parent)

\* Mutant: a read of the empty word is not recorded.
ReadNonEmpty(t, parent, key) ==
  IF key \in DOMAIN t.writeset \cup DOMAIN t.readset \/ GetValue(key, parent) = 0 THEN t
  ELSE [t EXCEPT !.readset = With(@, key, GetValue(key, parent))]

\* Mutant: a read of a key that the transaction has written is recorded.
ReadOwnWrite(t, parent, key) ==
  IF key \in DOMAIN t.readset THEN t
  ELSE [t EXCEPT !.readset = With(@, key, Get(t, parent, key))]

\* The tracer after Get.
Read(t, parent, key) ==
  IF key \in DOMAIN t.writeset \cup DOMAIN t.readset THEN t
  ELSE [t EXCEPT !.readset = With(@, key, GetValue(key, parent))]

Set(t, key, word) == [t EXCEPT !.writeset = With(@, key, word)]

\* Mutant: the balance is taken from the parent state, not from the write set.
UpdateParentBalance(t, parent, addr, value) ==
  LET key == BalanceKey(addr)
  IN  Set(Read(t, parent, key), key, BigToHash(GetValue(key, parent) - value))

\* updateAndSetBalance takes value away from the balance.
UpdateAndSetBalance(t, parent, addr, value) ==
  LET key == BalanceKey(addr)
  IN  Set(Read(t, parent, key), key, BigToHash(Get(t, parent, key) - value))

UpdateAndSetNonce(t, parent, addr) ==
  LET key == NonceKey(addr)
  IN  Set(Read(t, parent, key), key, BigToHash(Get(t, parent, key) + 1))

\* types.CalcFeeWithRatio, of the library: the fee payer's part, rounded down,
\* and the sender's.
CalcFeeWithRatio(ratio, fee) ==
  LET part == (fee * ratio) \div 100 IN [feePayer |-> part, sender |-> fee - part]

\* handleRatioTransaction and handleRegularTransaction: the fee is taken from
\* (sign = 1) or given back to (sign = -1) those who bear it.
ChargeFee(t, parent, msg, fee, sign) ==
  IF msg.ratio = NoRatio
  THEN UpdateAndSetBalance(t, parent, msg.feePayer, sign * fee)
  ELSE LET part == CalcFeeWithRatio(msg.ratio, fee)
       IN  UpdateAndSetBalance(
             UpdateAndSetBalance(t, parent, msg.feePayer, sign * part.feePayer),
             parent, msg.sender, sign * part.sender)

Transfer(t, parent, from, to, value) ==
  UpdateAndSetBalance(UpdateAndSetBalance(t, parent, from, value), parent, to, -value)

\* The whole gas limit is charged, the nonce goes up unless the sender has code
\* and creates nothing, and the value is transferred.
CaptureStart(t, parent, msg, senderHasCode) ==
  LET charged == ChargeFee(t, parent, msg, msg.gas * msg.gasPrice, 1)
      counted == IF senderHasCode /\ ~msg.create THEN charged
                 ELSE UpdateAndSetNonce(charged, parent, msg.sender)
  IN  Transfer(counted, parent, msg.sender, msg.to, msg.value)

(* CaptureState, called before an opcode is executed.  frame is the call   *)
(* it belongs to (scope.Contract); top and second are the words on top of  *)
(* the stack, top read as a slot or as an address.                         *)

\* For CALL and CALLCODE the top of the stack is the gas, and the value is that
\* of the frame, not of the call.
CaptureState(t, parent, frame, op, top, second) ==
  CASE op = "SLOAD"        -> Read(t, parent, ToStorageKey(frame.addr, top))
    [] op = "SSTORE"       -> Set(t, ToStorageKey(frame.addr, top), second)
    [] op = "EXTCODECOPY"  -> Read(t, parent, ToStorageKey(top, "codecopy"))
    [] op = "EXTCODEHASH"  -> Read(t, parent, ToStorageKey(top, "codehash"))
    [] op = "EXTCODESIZE"  -> Read(t, parent, ToStorageKey(top, "codesize"))
    [] op = "BALANCE"      -> Read(t, parent, BalanceKey(top))
    [] op \in {"CALL", "CALLCODE"} ->
         IF frame.value > 0 /\ frame.caller # top
         THEN Transfer(t, parent, frame.caller, top, frame.value) ELSE t
    [] op = "SELFDESTRUCT" -> [t EXCEPT !.aborted = TRUE]
    [] OTHER               -> t

\* Mutant: the refund is not shared.
RefundFeePayer(t, parent, msg, restGas) ==
  UpdateAndSetBalance(t, parent, msg.feePayer, -(restGas * msg.gasPrice))

\* What is left of the gas is given back.
CaptureTxEnd(t, parent, msg, restGas) ==
  ChargeFee(t, parent, msg, restGas * msg.gasPrice, -1)

=============================================================================
