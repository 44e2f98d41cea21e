----------------------------- MODULE StorageKey -----------------------------
(***************************************************************************)
(* The keys of the multi-version store (multiversion/storage_key.go): a    *)
(* storage slot of an account, or one of six reserved slots that stand for *)
(* its balance, its nonce and its code, and how a key is read from and     *)
(* written to a StateDB.                                                   *)
(***************************************************************************)
EXTENDS Integers

CONSTANTS
  Addrs,      \* the accounts
  Slots,      \* the storage slots that contracts use
  WordSize,   \* number of values of a common.Hash (2^256)
  NonceSize   \* number of values of a nonce (2^64)

SpecialSlots ==
  {"codecopy", "codehash", "codesize", "balance", "selfdestruct", "nonce"}

\* A contract's slot is one of the reserved words only if the contract names it
\* on purpose: slots are small numbers or hashes.
ASSUME SlotsAssumption == Slots \cap SpecialSlots = {}
ASSUME SizeAssumption ==
  /\ WordSize \in Nat \ {0, 1}
  /\ NonceSize \in Nat \ {0, 1}
  /\ NonceSize <= WordSize

Word == 0 .. WordSize - 1

StorageKeys == [addr : Addrs, slot : Slots \cup SpecialSlots]

ToStorageKey(addr, slot) == [addr |-> addr, slot |-> slot]

CodeSlots == {"codecopy", "codehash", "codesize"}
CodeKeys  == [addr : Addrs, slot : CodeSlots]

BalanceKey(addr) == ToStorageKey(addr, "balance")
NonceKey(addr)   == ToStorageKey(addr, "nonce")

\* StateDB, of the Kaia library: what the methods called here tell apart.
Account == [balance : Nat, nonce : 0 .. NonceSize - 1, codeHash : Word,
            codeSize : Nat, storage : [Slots \cup SpecialSlots -> Word]]
StateDB == [Addrs -> Account]

NoAccount == [balance |-> 0, nonce |-> 0, codeHash |-> 0, codeSize |-> 0,
              storage |-> [s \in Slots \cup SpecialSlots |-> 0]]

\* common.BigToHash: the low bytes of the magnitude; the sign is lost.
BigToHash(n) == (IF n < 0 THEN -n ELSE n) % WordSize

\* int64(nonce).
Int64(n) == IF 2 * n < NonceSize THEN n ELSE n - NonceSize

GetValue(key, db) ==
  LET account == db[key.addr]
  IN  CASE key.slot \in {"codecopy", "codehash"} -> account.codeHash
        [] key.slot = "codesize"                 -> BigToHash(account.codeSize)
        [] key.slot = "balance"                  -> BigToHash(account.balance)
        [] key.slot = "nonce"                    -> BigToHash(Int64(account.nonce))
        [] key.slot = "selfdestruct"             -> 0
        [] OTHER                                 -> account.storage[key.slot]

\* A code key is not special here: it names a storage slot.
SetValue(key, db, word) ==
  CASE key.slot = "balance" -> [db EXCEPT ![key.addr].balance = word]
    [] key.slot = "nonce"   -> [db EXCEPT ![key.addr].nonce = word % NonceSize]
    [] OTHER                -> [db EXCEPT ![key.addr].storage[key.slot] = word]

\* A write set applied to a state, as the store's write-back does with SetValue,
\* key by key; no two keys name the same field, so the order does not matter.
WriteBack(writeset, db) ==
  LET Written(key, old) == IF key \in DOMAIN writeset THEN writeset[key] ELSE old
  IN  [a \in Addrs |->
        [balance  |-> Written(BalanceKey(a), db[a].balance),
         nonce    |-> Written(NonceKey(a), db[a].nonce) % NonceSize,
         codeHash |-> db[a].codeHash,
         codeSize |-> db[a].codeSize,
         storage  |-> [s \in Slots \cup SpecialSlots |->
                        IF s \in {"balance", "nonce"} THEN db[a].storage[s]
                        ELSE Written(ToStorageKey(a, s), db[a].storage[s])]]]

=============================================================================
