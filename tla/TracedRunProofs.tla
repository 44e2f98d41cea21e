--------------------------- MODULE TracedRunProofs ---------------------------
(***************************************************************************)
(* The tracer's books, proved for every message, parent state and contract *)
(* code.                                                                   *)
(***************************************************************************)
EXTENDS TracedRunInvariant, InductionLemmas, TLAPS

-----------------------------------------------------------------------------
(* Keys, words and states.                                                 *)

(* A number in the range of a word is its own hash (common.BigToHash).     *)
LEMMA HashOfWord == \A n \in 0 .. WordSize - 1 : BigToHash(n) = n
  BY SizeAssumption DEF BigToHash

(* BigToHash gives a word for every number, a negative one too.            *)
LEMMA HashIsWord == \A n \in Int : BigToHash(n) \in Word
  BY SizeAssumption DEF BigToHash, Word

(* Reading a key of a state gives a word (storage_key.go, GetValue).       *)
LEMMA ValueIsWord ==
  ASSUME NEW db \in StateDB, NEW key \in StorageKeys
  PROVE  GetValue(key, db) \in Word
<1>1. db[key.addr] \in Account /\ key.slot \in Slots \cup SpecialSlots
  BY DEF StateDB, StorageKeys
<1>2. Int64(db[key.addr].nonce) \in Int
  BY <1>1, SizeAssumption DEF Account, Int64
<1>3. /\ BigToHash(db[key.addr].codeSize) \in Word
      /\ BigToHash(db[key.addr].balance) \in Word
      /\ BigToHash(Int64(db[key.addr].nonce)) \in Word
  BY <1>1, <1>2, HashIsWord DEF Account
<1>4. 0 \in Word
  BY SizeAssumption DEF Word
<1> QED
  BY <1>1, <1>3, <1>4 DEF GetValue, Account

(* SetValue leaves a nonce in range as it is (storage_key.go:73-82).       *)
LEMMA NonceOfWord == \A n \in 0 .. NonceSize - 1 : n % NonceSize = n
  BY SizeAssumption

(* Every key the callbacks of the tracer build is a storage key.           *)
LEMMA KeyTypes ==
  /\ \A a \in Addrs, s \in Slots \cup SpecialSlots : ToStorageKey(a, s) \in StorageKeys
  /\ \A a \in Addrs : BalanceKey(a) \in StorageKeys /\ NonceKey(a) \in StorageKeys
  BY DEF StorageKeys, ToStorageKey, BalanceKey, NonceKey, SpecialSlots

(* The keys of code are storage keys, and apart from those that the tracer *)
(* writes: balances, nonces and the contracts' slots.                      *)
LEMMA CodeKeyTypes ==
  /\ CodeKeys \subseteq StorageKeys
  /\ \A a \in Addrs, s \in CodeSlots : ToStorageKey(a, s) \in CodeKeys
  /\ \A a \in Addrs : CodeKey(a) \in CodeKeys
  /\ \A a \in Addrs : BalanceKey(a) \notin CodeKeys /\ NonceKey(a) \notin CodeKeys
  /\ \A a \in Addrs, s \in Slots : ToStorageKey(a, s) \notin CodeKeys
<1>1. CodeSlots \subseteq SpecialSlots /\ {"codehash"} \subseteq CodeSlots
  BY DEF CodeSlots, SpecialSlots
<1>2. \A s \in Slots \cup {"balance", "nonce"} : s \notin CodeSlots
  BY SlotsAssumption DEF CodeSlots, SpecialSlots
<1>3. \A k \in CodeKeys : k.slot \in CodeSlots
  BY DEF CodeKeys
<1> QED
  BY <1>1, <1>2, <1>3 DEF CodeKeys, StorageKeys, ToStorageKey, CodeKey, BalanceKey, NonceKey

(* Two states are equal if they agree field by field.                      *)
LEMMA StateEquality ==
  ASSUME NEW d \in StateDB, NEW e \in StateDB,
         \A a \in Addrs : /\ d[a].balance = e[a].balance
                          /\ d[a].nonce = e[a].nonce
                          /\ d[a].codeHash = e[a].codeHash
                          /\ d[a].codeSize = e[a].codeSize
                          /\ \A s \in Slots \cup SpecialSlots :
                               d[a].storage[s] = e[a].storage[s]
  PROVE  d = e
<1>1. ASSUME NEW a \in Addrs PROVE d[a] = e[a]
  <2>1. d[a] \in Account /\ e[a] \in Account
    BY DEF StateDB
  <2>2. d[a].storage = e[a].storage
    BY <2>1 DEF Account
  <2> QED
    BY <2>1, <2>2 DEF Account
<1> QED
  BY <1>1 DEF StateDB

(* What a write-back leaves is a state.                                    *)
LEMMA WriteBackType ==
  ASSUME NEW db \in StateDB, NEW w, DOMAIN w \subseteq StorageKeys,
         \A k \in DOMAIN w : w[k] \in Word
  PROVE  WriteBack(w, db) \in StateDB
<1> SUFFICES ASSUME NEW a \in Addrs PROVE WriteBack(w, db)[a] \in Account
  BY DEF WriteBack, StateDB
<1>1. db[a] \in Account
  BY DEF StateDB
<1>2. /\ WriteBack(w, db)[a].balance \in Nat
      /\ WriteBack(w, db)[a].nonce \in 0 .. NonceSize - 1
  BY <1>1, SizeAssumption DEF WriteBack, Account, Word
<1>3. WriteBack(w, db)[a].storage \in [Slots \cup SpecialSlots -> Word]
  BY <1>1 DEF WriteBack, Account
<1> QED
  BY <1>1, <1>2, <1>3 DEF WriteBack, Account

(* Written back with nothing in it, a write set changes nothing.           *)
LEMMA WriteBackNothing ==
  ASSUME NEW db \in StateDB, NEW w, DOMAIN w = {}
  PROVE  WriteBack(w, db) = db
<1>1. WriteBack(w, db) \in StateDB
  BY WriteBackType
<1>2. \A a \in Addrs : db[a] \in Account
  BY DEF StateDB
<1>3. \A a \in Addrs : db[a].nonce % NonceSize = db[a].nonce
  BY <1>2, NonceOfWord DEF Account
<1> QED
  BY <1>1, <1>2, <1>3, StateEquality DEF WriteBack

(* What setting one key does to each field of a state.                     *)
LEMMA SetValueType ==
  ASSUME NEW db \in StateDB, NEW key \in StorageKeys, NEW word \in Word
  PROVE  /\ SetValue(key, db, word) \in StateDB
         /\ \A a \in Addrs :
              /\ SetValue(key, db, word)[a].balance =
                   IF key = BalanceKey(a) THEN word ELSE db[a].balance
              /\ SetValue(key, db, word)[a].nonce =
                   IF key = NonceKey(a) THEN word % NonceSize ELSE db[a].nonce
              /\ SetValue(key, db, word)[a].codeHash = db[a].codeHash
              /\ SetValue(key, db, word)[a].codeSize = db[a].codeSize
              /\ \A s \in Slots \cup SpecialSlots :
                   SetValue(key, db, word)[a].storage[s] =
                     IF key = ToStorageKey(a, s) /\ s \notin {"balance", "nonce"}
                     THEN word ELSE db[a].storage[s]
<1>1. /\ key = [addr |-> key.addr, slot |-> key.slot]
      /\ key.addr \in Addrs
      /\ key.slot \in Slots \cup SpecialSlots
  BY DEF StorageKeys
<1>2. \A a \in Addrs : db[a] \in Account
  BY DEF StateDB
<1>keys. \A a \in Addrs :
        /\ key = BalanceKey(a) <=> key.addr = a /\ key.slot = "balance"
        /\ key = NonceKey(a) <=> key.addr = a /\ key.slot = "nonce"
  BY <1>1 DEF BalanceKey, NonceKey, ToStorageKey
<1>3. word \in Nat /\ word % NonceSize \in 0 .. NonceSize - 1
  BY SizeAssumption DEF Word
<1>4. CASE key.slot = "balance"
  <2> DEFINE acc == [db[key.addr] EXCEPT !.balance = word]
             e   == [db EXCEPT ![key.addr] = acc]
  <2>1. SetValue(key, db, word) = e
    BY <1>4 DEF SetValue
  <2>2. acc \in Account
    BY <1>1, <1>2, <1>3 DEF Account
  <2>3. \A a \in Addrs : e[a] = IF a = key.addr THEN acc ELSE db[a]
    BY <1>1 DEF StateDB
  <2>4. e \in StateDB
    BY <1>1, <2>2 DEF StateDB
  <2>5. \A a \in Addrs : \A s \in Slots \cup SpecialSlots :
          e[a].storage[s] = IF key = ToStorageKey(a, s) /\ s \notin {"balance", "nonce"}
                            THEN word ELSE db[a].storage[s]
    BY <1>1, <1>2, <1>4, <2>3 DEF Account, ToStorageKey
  <2>fields. /\ acc.balance = word /\ acc.nonce = db[key.addr].nonce
        /\ acc.codeHash = db[key.addr].codeHash
        /\ acc.codeSize = db[key.addr].codeSize
    BY <1>1, <1>2 DEF Account
  <2> HIDE DEF acc, e
  <2>6. \A a \in Addrs :
          /\ e[a].balance = IF key = BalanceKey(a) THEN word ELSE db[a].balance
          /\ e[a].nonce = IF key = NonceKey(a) THEN word % NonceSize ELSE db[a].nonce
          /\ e[a].codeHash = db[a].codeHash
          /\ e[a].codeSize = db[a].codeSize
    BY <1>2, <1>keys, <1>4, <2>3, <2>fields
  <2> QED
    BY <2>1, <2>4, <2>5, <2>6
<1>5. CASE key.slot = "nonce"
  <2> DEFINE acc == [db[key.addr] EXCEPT !.nonce = word % NonceSize]
             e   == [db EXCEPT ![key.addr] = acc]
  <2>1. SetValue(key, db, word) = e
    BY <1>5 DEF SetValue
  <2>2. acc \in Account
    BY <1>1, <1>2, <1>3 DEF Account
  <2>3. \A a \in Addrs : e[a] = IF a = key.addr THEN acc ELSE db[a]
    BY <1>1 DEF StateDB
  <2>4. e \in StateDB
    BY <1>1, <2>2 DEF StateDB
  <2>5. \A a \in Addrs : \A s \in Slots \cup SpecialSlots :
          e[a].storage[s] = IF key = ToStorageKey(a, s) /\ s \notin {"balance", "nonce"}
                            THEN word ELSE db[a].storage[s]
    BY <1>1, <1>2, <1>5, <2>3 DEF Account, ToStorageKey
  <2>fields. /\ acc.balance = db[key.addr].balance /\ acc.nonce = word % NonceSize
        /\ acc.codeHash = db[key.addr].codeHash
        /\ acc.codeSize = db[key.addr].codeSize
    BY <1>1, <1>2 DEF Account
  <2> HIDE DEF acc, e
  <2>6. \A a \in Addrs :
          /\ e[a].balance = IF key = BalanceKey(a) THEN word ELSE db[a].balance
          /\ e[a].nonce = IF key = NonceKey(a) THEN word % NonceSize ELSE db[a].nonce
          /\ e[a].codeHash = db[a].codeHash
          /\ e[a].codeSize = db[a].codeSize
    BY <1>2, <1>keys, <1>5, <2>3, <2>fields
  <2> QED
    BY <2>1, <2>4, <2>5, <2>6
<1>6. CASE key.slot \notin {"balance", "nonce"}
  <2> DEFINE acc == [db[key.addr] EXCEPT !.storage[key.slot] = word]
             e   == [db EXCEPT ![key.addr] = acc]
  <2>1. SetValue(key, db, word) = e
    BY <1>6 DEF SetValue
  <2>2. acc \in Account
    BY <1>1, <1>2, <1>3 DEF Account
  <2>3. \A a \in Addrs : e[a] = IF a = key.addr THEN acc ELSE db[a]
    BY <1>1 DEF StateDB
  <2>4. e \in StateDB
    BY <1>1, <2>2 DEF StateDB
  <2>5. \A a \in Addrs : \A s \in Slots \cup SpecialSlots :
          e[a].storage[s] = IF key = ToStorageKey(a, s) /\ s \notin {"balance", "nonce"}
                            THEN word ELSE db[a].storage[s]
    BY <1>1, <1>2, <1>6, <2>3 DEF Account, ToStorageKey
  <2>fields. /\ acc.balance = db[key.addr].balance /\ acc.nonce = db[key.addr].nonce
        /\ acc.codeHash = db[key.addr].codeHash
        /\ acc.codeSize = db[key.addr].codeSize
    BY <1>1, <1>2 DEF Account
  <2> HIDE DEF acc, e
  <2>6. \A a \in Addrs :
          /\ e[a].balance = IF key = BalanceKey(a) THEN word ELSE db[a].balance
          /\ e[a].nonce = IF key = NonceKey(a) THEN word % NonceSize ELSE db[a].nonce
          /\ e[a].codeHash = db[a].codeHash
          /\ e[a].codeSize = db[a].codeSize
    BY <1>2, <1>keys, <1>6, <2>3, <2>fields
  <2> QED
    BY <2>1, <2>4, <2>5, <2>6
<1> QED
  BY <1>4, <1>5, <1>6

(* Writing back is setting key by key: one more key in the write set is    *)
(* one more SetValue, in whatever order the keys came (store.go:317-331).  *)
LEMMA WriteBackSets ==
  ASSUME NEW db \in StateDB, NEW w, DOMAIN w \subseteq StorageKeys,
         \A k \in DOMAIN w : w[k] \in Word,
         NEW key \in StorageKeys, NEW word \in Word
  PROVE  WriteBack(With(w, key, word), db) = SetValue(key, WriteBack(w, db), word)
<1> DEFINE v == With(w, key, word)
           d == WriteBack(w, db)
<1>1. /\ DOMAIN v = DOMAIN w \cup {key}
      /\ \A k \in DOMAIN v : v[k] = IF k = key THEN word ELSE w[k]
  BY DEF With
<1>2. WriteBack(v, db) \in StateDB /\ d \in StateDB
  BY <1>1, WriteBackType
<1>3. SetValue(key, d, word) \in StateDB
  BY <1>2, SetValueType
<1>4. ASSUME NEW a \in Addrs
      PROVE  /\ WriteBack(v, db)[a].balance = SetValue(key, d, word)[a].balance
             /\ WriteBack(v, db)[a].nonce = SetValue(key, d, word)[a].nonce
             /\ WriteBack(v, db)[a].codeHash = SetValue(key, d, word)[a].codeHash
             /\ WriteBack(v, db)[a].codeSize = SetValue(key, d, word)[a].codeSize
             /\ \A s \in Slots \cup SpecialSlots :
                  WriteBack(v, db)[a].storage[s] = SetValue(key, d, word)[a].storage[s]
  <2> HIDE DEF v
  <2>1. WriteBack(v, db)[a].balance = IF key = BalanceKey(a) THEN word ELSE d[a].balance
    BY <1>1 DEF WriteBack
  <2>2. WriteBack(v, db)[a].nonce = IF key = NonceKey(a) THEN word % NonceSize ELSE d[a].nonce
    BY <1>1 DEF WriteBack
  <2>3. WriteBack(v, db)[a].codeHash = d[a].codeHash /\ WriteBack(v, db)[a].codeSize = d[a].codeSize
    BY DEF WriteBack
  <2>4. \A s \in Slots \cup SpecialSlots :
          WriteBack(v, db)[a].storage[s] =
            IF key = ToStorageKey(a, s) /\ s \notin {"balance", "nonce"}
            THEN word ELSE d[a].storage[s]
    BY <1>1 DEF WriteBack
  <2> HIDE DEF d
  <2> QED
    BY <1>2, <2>1, <2>2, <2>3, <2>4, SetValueType
<1> HIDE DEF v, d
<1>5. WriteBack(v, db) = SetValue(key, d, word)
  BY <1>2, <1>3, <1>4, StateEquality
<1> QED
  BY <1>5 DEF v, d

-----------------------------------------------------------------------------
(* The tracer.                                                             *)

(* Get returns a word, and the own write if there is one.                  *)
LEMMA GetIsWord ==
  ASSUME NEW p \in StateDB, NEW t, BooksOK(t, p), NEW key \in StorageKeys
  PROVE  Get(t, p, key) \in Word
  BY ValueIsWord DEF Get, BooksOK

(* A read adds the key, with its word in the parent state, to the read     *)
(* set, unless it is there or in the write set (tracer.go:318-351).        *)
LEMMA ReadBooks ==
  ASSUME NEW p \in StateDB, NEW t, BooksOK(t, p), NEW key \in StorageKeys
  PROVE  LET u == Read(t, p, key)
         IN  /\ BooksOK(u, p)
             /\ u.writeset = t.writeset
             /\ DOMAIN t.readset \subseteq DOMAIN u.readset
             /\ key \in DOMAIN u.readset \cup DOMAIN t.writeset
<1>1. CASE key \in DOMAIN t.writeset \cup DOMAIN t.readset
  BY <1>1 DEF Read
<1>2. CASE key \notin DOMAIN t.writeset \cup DOMAIN t.readset
  <2> DEFINE u == Read(t, p, key)
             r == With(t.readset, key, GetValue(key, p))
  <2>1. /\ DOMAIN r = DOMAIN t.readset \cup {key}
        /\ \A k \in DOMAIN r : r[k] = IF k = key THEN GetValue(key, p) ELSE t.readset[k]
    BY DEF With
  <2> HIDE DEF r
  <2>2. u = [t EXCEPT !.readset = r]
    BY <1>2 DEF Read, r
  <2>3. /\ u = Tracer(r, t.writeset, t.aborted)
        /\ u.readset = r /\ u.writeset = t.writeset /\ u.aborted = t.aborted
    BY <2>2 DEF BooksOK, Tracer
  <2> HIDE DEF u
  <2>4. BooksOK(u, p)
    BY <2>1, <2>3 DEF BooksOK
  <2>5. LET v == u
        IN  /\ BooksOK(v, p)
            /\ v.writeset = t.writeset
            /\ DOMAIN t.readset \subseteq DOMAIN v.readset
            /\ key \in DOMAIN v.readset \cup DOMAIN t.writeset
    BY <2>1, <2>3, <2>4
  <2> QED
    BY <2>5 DEF u
<1> QED
  BY <1>1, <1>2

(* A write changes one key of the write set, and what the write set stands *)
(* for in this key only.                                                   *)
LEMMA SetBooks ==
  ASSUME NEW p \in StateDB, NEW t, BooksOK(t, p),
         NEW key \in StorageKeys \ CodeKeys, NEW word \in Word
  PROVE  LET u == Set(t, key, word)
         IN  /\ BooksOK(u, p)
             /\ u.readset = t.readset
             /\ DOMAIN u.writeset = DOMAIN t.writeset \cup {key}
             /\ WriteBack(u.writeset, p) = SetValue(key, WriteBack(t.writeset, p), word)
<1> DEFINE u == Set(t, key, word)
           w == With(t.writeset, key, word)
<1>1. /\ DOMAIN w = DOMAIN t.writeset \cup {key}
      /\ \A k \in DOMAIN w : w[k] = IF k = key THEN word ELSE t.writeset[k]
  BY DEF With
<1>2. WriteBack(w, p) = SetValue(key, WriteBack(t.writeset, p), word)
  BY WriteBackSets DEF BooksOK
<1> HIDE DEF w
<1>3. /\ u = Tracer(t.readset, w, t.aborted)
      /\ u.readset = t.readset /\ u.writeset = w /\ u.aborted = t.aborted
  BY DEF Set, BooksOK, Tracer, w
<1> HIDE DEF u
<1>4. BooksOK(u, p)
  BY <1>1, <1>3 DEF BooksOK
<1> QED
  BY <1>1, <1>2, <1>3, <1>4 DEF u

(* Bookings read the keys they write, unless they have written them.       *)
Booked(t, u, p, keys) ==
  /\ BooksOK(u, p)
  /\ DOMAIN u.writeset = DOMAIN t.writeset \cup keys
  /\ DOMAIN t.readset \subseteq DOMAIN u.readset
  /\ keys \subseteq DOMAIN u.readset \cup DOMAIN t.writeset

(* Two bookings in a row, as CaptureStart makes them, are a booking of the *)
(* keys of both (tracer.go:91-120).                                        *)
LEMMA BookedTwice ==
  ASSUME NEW p, NEW t, NEW u, NEW v, NEW K, NEW L,
         Booked(t, u, p, K), Booked(u, v, p, L)
  PROVE  Booked(t, v, p, K \cup L)
  BY DEF Booked

(* A key that is read and then set is booked, and the write-back of the    *)
(* new write set is one SetValue more.                                     *)
LEMMA ReadSetBooks ==
  ASSUME NEW p \in StateDB, NEW t, BooksOK(t, p),
         NEW key \in StorageKeys \ CodeKeys, NEW word \in Word
  PROVE  LET u == Set(Read(t, p, key), key, word)
         IN  /\ Booked(t, u, p, {key})
             /\ WriteBack(u.writeset, p) = SetValue(key, WriteBack(t.writeset, p), word)
<1> DEFINE r == Read(t, p, key)
<1>1. /\ BooksOK(r, p)
      /\ r.writeset = t.writeset
      /\ DOMAIN t.readset \subseteq DOMAIN r.readset
      /\ key \in DOMAIN r.readset \cup DOMAIN t.writeset
  BY ReadBooks
<1> HIDE DEF r
<1>2. LET u == Set(r, key, word)
      IN  /\ BooksOK(u, p)
          /\ u.readset = r.readset
          /\ DOMAIN u.writeset = DOMAIN r.writeset \cup {key}
          /\ WriteBack(u.writeset, p) = SetValue(key, WriteBack(r.writeset, p), word)
  BY <1>1, SetBooks
<1> QED
  BY <1>1, <1>2 DEF Booked, r

(* updateAndSetBalance books the balance of one account                    *)
(* (tracer.go:416-420).                                                    *)
LEMMA BalanceBooks ==
  ASSUME NEW p \in StateDB, NEW t, BooksOK(t, p), NEW a \in Addrs, NEW v \in Int
  PROVE  LET u == UpdateAndSetBalance(t, p, a, v)
         IN  /\ Booked(t, u, p, {BalanceKey(a)})
             /\ WriteBack(u.writeset, p) =
                  SetValue(BalanceKey(a), WriteBack(t.writeset, p),
                           BigToHash(Get(t, p, BalanceKey(a)) - v))
<1>1. BalanceKey(a) \in StorageKeys \ CodeKeys
  BY KeyTypes, CodeKeyTypes
<1>2. Get(t, p, BalanceKey(a)) \in Word
  BY <1>1, GetIsWord
<1>3. BigToHash(Get(t, p, BalanceKey(a)) - v) \in Word
  BY <1>2, HashIsWord, SizeAssumption DEF Word
<1> QED
  BY <1>1, <1>3, ReadSetBooks DEF UpdateAndSetBalance

(* updateAndSetNonce books the nonce of one account (tracer.go:422-425).   *)
LEMMA NonceBooks ==
  ASSUME NEW p \in StateDB, NEW t, BooksOK(t, p), NEW a \in Addrs
  PROVE  LET u == UpdateAndSetNonce(t, p, a)
         IN  /\ Booked(t, u, p, {NonceKey(a)})
             /\ WriteBack(u.writeset, p) =
                  SetValue(NonceKey(a), WriteBack(t.writeset, p),
                           BigToHash(Get(t, p, NonceKey(a)) + 1))
<1>1. NonceKey(a) \in StorageKeys \ CodeKeys
  BY KeyTypes, CodeKeyTypes
<1>2. Get(t, p, NonceKey(a)) \in Word
  BY <1>1, GetIsWord
<1>3. BigToHash(Get(t, p, NonceKey(a)) + 1) \in Word
  BY <1>2, HashIsWord, SizeAssumption DEF Word
<1> QED
  BY <1>1, <1>3, ReadSetBooks DEF UpdateAndSetNonce

-----------------------------------------------------------------------------
(* The fee, its parts and the value.                                       *)

(* A product of natural numbers is one: gas times gas price.               *)
LEMMA Products == \A m, n \in Nat : m * n \in Nat
  OBVIOUS

(* What is left of the gas costs no more than all of it.                   *)
LEMMA ProductsMonotone == \A l, m, n \in Nat : l <= m => l * n <= m * n
  OBVIOUS

(* CalcFeeWithRatio splits the fee in two parts that add up to it.         *)
LEMMA FeeParts ==
  ASSUME NEW ratio \in 0 .. 99, NEW fee \in Nat
  PROVE  LET part == CalcFeeWithRatio(ratio, fee)
         IN  part.feePayer \in 0 .. fee /\ part.sender = fee - part.feePayer
<1>1. fee * ratio \in Nat /\ fee * ratio <= 100 * fee
  OBVIOUS
<1>2. \A x \in Nat : x <= 100 * fee => x \div 100 \in 0 .. fee
  OBVIOUS
<1> QED
  BY <1>1, <1>2 DEF CalcFeeWithRatio

(* handleRatioTransaction books the balance of the fee payer and, if the   *)
(* fee is shared, of the sender (tracer.go:405-414).                       *)
LEMMA FeeBooks ==
  ASSUME NEW p \in StateDB, NEW t, BooksOK(t, p), NEW m \in Message,
         NEW fee \in Nat, NEW sign \in {1, -1}
  PROVE  Booked(t, ChargeFee(t, p, m, fee, sign), p,
                IF m.ratio = NoRatio THEN {BalanceKey(m.feePayer)}
                ELSE {BalanceKey(m.feePayer), BalanceKey(m.sender)})
<1>1. m.feePayer \in Addrs /\ m.sender \in Addrs /\ m.ratio \in 0 .. 99
  BY DEF Message
<1>2. CASE m.ratio = NoRatio
  BY <1>1, <1>2, BalanceBooks DEF ChargeFee
<1>3. CASE m.ratio # NoRatio
  <2> DEFINE part == CalcFeeWithRatio(m.ratio, fee)
             x == sign * part.feePayer
             y == sign * part.sender
             u == UpdateAndSetBalance(t, p, m.feePayer, x)
             v == UpdateAndSetBalance(u, p, m.sender, y)
  <2>1. part.feePayer \in 0 .. fee /\ part.sender = fee - part.feePayer
    BY <1>1, FeeParts
  <2> HIDE DEF part
  <2>2. x \in Int /\ y \in Int
    BY <2>1
  <2> HIDE DEF x, y
  <2>3. Booked(t, u, p, {BalanceKey(m.feePayer)})
    BY <1>1, <2>2, BalanceBooks
  <2> HIDE DEF u
  <2>4. Booked(u, v, p, {BalanceKey(m.sender)})
    BY <1>1, <2>2, <2>3, BalanceBooks DEF Booked
  <2> HIDE DEF v
  <2>5. Booked(t, v, p, {BalanceKey(m.feePayer)} \cup {BalanceKey(m.sender)})
    BY <2>3, <2>4, BookedTwice
  <2>6. ChargeFee(t, p, m, fee, sign) = v
    BY <1>3 DEF ChargeFee, u, v, x, y, part
  <2>7. {BalanceKey(m.feePayer)} \cup {BalanceKey(m.sender)}
          = {BalanceKey(m.feePayer), BalanceKey(m.sender)}
    OBVIOUS
  <2> QED
    BY <1>3, <2>5, <2>6, <2>7
<1> QED
  BY <1>2, <1>3

(* A transfer books the two balances it names (tracer.go:117-119).         *)
LEMMA TransferBooks ==
  ASSUME NEW p \in StateDB, NEW t, BooksOK(t, p), NEW from \in Addrs, NEW to \in Addrs,
         NEW value \in Int
  PROVE  Booked(t, Transfer(t, p, from, to, value), p, {BalanceKey(from), BalanceKey(to)})
<1> DEFINE u == UpdateAndSetBalance(t, p, from, value)
           v == UpdateAndSetBalance(u, p, to, -value)
<1>1. Booked(t, u, p, {BalanceKey(from)})
  BY BalanceBooks
<1> HIDE DEF u
<1>2. Booked(u, v, p, {BalanceKey(to)})
  BY <1>1, BalanceBooks DEF Booked
<1> HIDE DEF v
<1>3. Booked(t, v, p, {BalanceKey(from)} \cup {BalanceKey(to)})
  BY <1>1, <1>2, BookedTwice
<1>4. {BalanceKey(from)} \cup {BalanceKey(to)} = {BalanceKey(from), BalanceKey(to)}
  OBVIOUS
<1> QED
  BY <1>3, <1>4 DEF Transfer, u, v

(* CaptureStart books the balances of sender, fee payer and receiver and   *)
(* the nonce of the sender, and nothing else (tracer.go:91-120).           *)
LEMMA StartBooks ==
  ASSUME NEW p \in StateDB, NEW t, BooksOK(t, p), NEW m \in Message
  PROVE  Booked(t, CaptureStart(t, p, m, FALSE), p,
                {BalanceKey(m.sender), BalanceKey(m.feePayer), NonceKey(m.sender),
                 BalanceKey(m.to)})
<1>1. /\ m.feePayer \in Addrs /\ m.sender \in Addrs /\ m.to \in Addrs
      /\ m.gas \in Nat /\ m.gasPrice \in Nat /\ m.value \in Nat
  BY DEF Message
<1> DEFINE fees == IF m.ratio = NoRatio THEN {BalanceKey(m.feePayer)}
                   ELSE {BalanceKey(m.feePayer), BalanceKey(m.sender)}
           u == ChargeFee(t, p, m, m.gas * m.gasPrice, 1)
           v == UpdateAndSetNonce(u, p, m.sender)
           w == Transfer(v, p, m.sender, m.to, m.value)
<1>2. Booked(t, u, p, fees)
  BY <1>1, Products, FeeBooks
<1> HIDE DEF u, fees
<1>3. Booked(u, v, p, {NonceKey(m.sender)})
  BY <1>1, <1>2, NonceBooks DEF Booked
<1> HIDE DEF v
<1>4. Booked(v, w, p, {BalanceKey(m.sender), BalanceKey(m.to)})
  BY <1>1, <1>3, TransferBooks DEF Booked
<1> HIDE DEF w
<1>8. Booked(t, v, p, fees \cup {NonceKey(m.sender)})
  BY <1>2, <1>3, BookedTwice
<1>5. Booked(t, w, p, (fees \cup {NonceKey(m.sender)}) \cup
                        {BalanceKey(m.sender), BalanceKey(m.to)})
  BY <1>8, <1>4, BookedTwice
<1>6. (fees \cup {NonceKey(m.sender)}) \cup {BalanceKey(m.sender), BalanceKey(m.to)}
        = {BalanceKey(m.sender), BalanceKey(m.feePayer), NonceKey(m.sender),
           BalanceKey(m.to)}
  BY DEF fees
<1>7. CaptureStart(t, p, m, FALSE) = w
  BY DEF CaptureStart, u, v, w
<1> QED
  BY <1>5, <1>6, <1>7

-----------------------------------------------------------------------------
(* The EVM's payments.                                                     *)

(* States with debts, as a sequence of payments may pass through.          *)
Debtor == [balance : Int, nonce : 0 .. NonceSize - 1, codeHash : Word,
           codeSize : Nat, storage : [Slots \cup SpecialSlots -> Word]]
Ledger == [Addrs -> Debtor]

(* A state is a ledger, and a ledger without debts is a state.             *)
LEMMA StateIsLedger ==
  /\ StateDB \subseteq Ledger
  /\ \A d \in Ledger : (\A a \in Addrs : d[a].balance \in Nat) => d \in StateDB
<1>1. \A d \in StateDB, a \in Addrs : d[a] \in Account
  BY DEF StateDB
<1>2. \A acc \in Account : acc \in Debtor
  BY DEF Account, Debtor
<1>5. StateDB \subseteq Ledger
  BY <1>1, <1>2 DEF StateDB, Ledger
<1>6. \A acc \in Debtor : acc.balance \in Nat => acc \in Account
  BY DEF Account, Debtor
<1>3. ASSUME NEW d \in Ledger, \A a \in Addrs : d[a].balance \in Nat, NEW a \in Addrs
      PROVE  d[a] \in Account
  BY <1>3, <1>6 DEF Ledger
<1>4. ASSUME NEW d \in Ledger, \A a \in Addrs : d[a].balance \in Nat
      PROVE  d \in StateDB
  BY <1>3, <1>4 DEF Ledger, StateDB
<1> QED
  BY <1>5, <1>4

\* e is d but for the balances.
OnlyBalances(d, e) ==
  \A a \in Addrs : /\ e[a].nonce = d[a].nonce
                    /\ e[a].codeHash = d[a].codeHash
                    /\ e[a].codeSize = d[a].codeSize
                    /\ e[a].storage = d[a].storage

(* A payment changes the balance of one account.                           *)
LEMMA PayFields ==
  ASSUME NEW db \in Ledger, NEW a \in Addrs, NEW v \in Int
  PROVE  /\ Pay(db, a, v) \in Ledger
         /\ OnlyBalances(db, Pay(db, a, v))
         /\ \A b \in Addrs :
              Pay(db, a, v)[b].balance =
                IF b = a THEN db[a].balance - v ELSE db[b].balance
<1> DEFINE acc == [db[a] EXCEPT !.balance = db[a].balance - v]
           e   == [db EXCEPT ![a] = acc]
<1>1. Pay(db, a, v) = e
  BY DEF Pay
<1>5. db[a] \in Debtor
  BY DEF Ledger
<1>2. acc \in Debtor
  BY <1>5 DEF Debtor
<1>3. /\ acc.balance = db[a].balance - v /\ acc.nonce = db[a].nonce
      /\ acc.codeHash = db[a].codeHash /\ acc.codeSize = db[a].codeSize
      /\ acc.storage = db[a].storage
  BY <1>5 DEF Debtor
<1>4. e \in Ledger /\ \A b \in Addrs : e[b] = IF b = a THEN acc ELSE db[b]
  BY <1>2 DEF Ledger
<1> HIDE DEF acc, e
<1> QED
  BY <1>1, <1>3, <1>4 DEF OnlyBalances

(* A transfer that the payer can afford leads from state to state and      *)
(* changes balances only.                                                  *)
LEMMA MoveFields ==
  ASSUME NEW db \in StateDB, NEW from \in Addrs, NEW to \in Addrs, NEW v \in Nat,
         v <= db[from].balance
  PROVE  /\ Move(db, from, to, v) \in StateDB
         /\ OnlyBalances(db, Move(db, from, to, v))
<1>1. db \in Ledger /\ \A b \in Addrs : db[b].balance \in Nat
  BY StateIsLedger DEF StateDB, Account
<1> DEFINE d == Pay(db, from, v)
           w == -v
           e == Pay(d, to, w)
<1>2. /\ d \in Ledger /\ OnlyBalances(db, d)
      /\ \A b \in Addrs : d[b].balance = IF b = from THEN db[from].balance - v ELSE db[b].balance
  BY <1>1, PayFields
<1> HIDE DEF d
<1>6. w \in Int /\ w = -v
  OBVIOUS
<1> HIDE DEF w
<1>3. /\ e \in Ledger /\ OnlyBalances(d, e)
      /\ \A b \in Addrs : e[b].balance = IF b = to THEN d[to].balance - w ELSE d[b].balance
  BY <1>2, <1>6, PayFields
<1> HIDE DEF e
<1>7. \A b \in Addrs : d[b].balance \in Nat
  <2>1. db[from].balance - v \in Nat
    BY <1>1
  <2> QED
    BY <1>1, <1>2, <2>1
<1>8. d[to].balance - w \in Nat
  BY <1>6, <1>7
<1>4. \A b \in Addrs : e[b].balance \in Nat
  BY <1>3, <1>7, <1>8
<1>5. e \in StateDB /\ OnlyBalances(db, e)
  BY <1>2, <1>3, <1>4, StateIsLedger DEF OnlyBalances
<1> QED
  BY <1>5 DEF Move, d, e, w

(* The fee payer pays x of a fee, or gets it back, and the sender y.       *)
Charged(d, m, fee, sign, x, y) ==
  LET e == Fee(d, m, fee, sign)
  IN  /\ x + y = fee
      /\ m.ratio = NoRatio => x = fee /\ y = 0
      /\ m.ratio # NoRatio => /\ x = CalcFeeWithRatio(m.ratio, fee).feePayer
                              /\ y = CalcFeeWithRatio(m.ratio, fee).sender
      /\ e = Pay(Pay(d, m.feePayer, sign * x), m.sender, sign * y)
      /\ e \in Ledger
      /\ OnlyBalances(d, e)
      /\ \A a \in Addrs :
           e[a].balance = d[a].balance - (IF a = m.feePayer THEN sign * x ELSE 0)
                                       - (IF a = m.sender THEN sign * y ELSE 0)

(* The fee is taken, or given back, in two parts of which one may be       *)
(* nothing.                                                                *)
LEMMA FeeFields ==
  ASSUME NEW db \in Ledger, NEW m \in Message, NEW fee \in Nat, NEW sign \in {1, -1}
  PROVE  \E x, y \in 0 .. fee : Charged(db, m, fee, sign, x, y)
<1>1. m.feePayer \in Addrs /\ m.sender \in Addrs /\ m.ratio \in 0 .. 99
  BY DEF Message
<1> DEFINE part == IF m.ratio = NoRatio THEN [feePayer |-> fee, sender |-> 0]
                                        ELSE CalcFeeWithRatio(m.ratio, fee)
           x == part.feePayer
           y == part.sender
<1>2. x \in 0 .. fee /\ y \in 0 .. fee /\ x + y = fee
  <2>1. CASE m.ratio = NoRatio
    BY <2>1
  <2>2. CASE m.ratio # NoRatio
    <3>1. /\ CalcFeeWithRatio(m.ratio, fee).feePayer \in 0 .. fee
          /\ CalcFeeWithRatio(m.ratio, fee).sender
               = fee - CalcFeeWithRatio(m.ratio, fee).feePayer
      BY <1>1, FeeParts
    <3> QED
      BY <2>2, <3>1
  <2> QED
    BY <2>1, <2>2
<1>3. /\ m.ratio = NoRatio => x = fee /\ y = 0
      /\ m.ratio # NoRatio => /\ x = CalcFeeWithRatio(m.ratio, fee).feePayer
                              /\ y = CalcFeeWithRatio(m.ratio, fee).sender
  OBVIOUS
<1>4. Fee(db, m, fee, sign) = Pay(Pay(db, m.feePayer, sign * x), m.sender, sign * y)
  BY DEF Fee
<1> HIDE DEF part, x, y
<1> DEFINE sx == sign * x
           sy == sign * y
           d == Pay(db, m.feePayer, sx)
           e == Pay(d, m.sender, sy)
<1>5. sx \in Int /\ sy \in Int
  BY <1>2
<1> HIDE DEF sx, sy
<1>6. /\ d \in Ledger /\ OnlyBalances(db, d)
      /\ \A b \in Addrs : d[b].balance = IF b = m.feePayer THEN db[m.feePayer].balance - sx
                                          ELSE db[b].balance
  BY <1>1, <1>5, PayFields
<1> HIDE DEF d
<1>7. /\ e \in Ledger /\ OnlyBalances(d, e)
      /\ \A b \in Addrs : e[b].balance = IF b = m.sender THEN d[m.sender].balance - sy
                                          ELSE d[b].balance
  BY <1>1, <1>5, <1>6, PayFields
<1> HIDE DEF e
<1>8. OnlyBalances(db, e)
  BY <1>6, <1>7 DEF OnlyBalances
<1>9. \A b \in Addrs : db[b].balance \in Int
  BY DEF Ledger, Debtor
<1>10. \A a \in Addrs : e[a].balance = db[a].balance - (IF a = m.feePayer THEN sx ELSE 0)
                                                     - (IF a = m.sender THEN sy ELSE 0)
  BY <1>1, <1>5, <1>6, <1>7, <1>9
<1>11. Fee(db, m, fee, sign) = e /\ Pay(db, m.feePayer, sign * x) = d
  BY <1>4 DEF d, e, sx, sy
<1>12. Charged(db, m, fee, sign, x, y)
  BY <1>2, <1>3, <1>4, <1>6, <1>7, <1>8, <1>10, <1>11 DEF sx, sy, Charged
<1> QED
  BY <1>2, <1>12

-----------------------------------------------------------------------------
(* Types.                                                                  *)

(* What the constants say of the message and the parent state of a run.    *)
LEMMA RunTypes ==
  ASSUME TypeOK
  PROVE  /\ msg \in Message /\ parent \in StateDB
         /\ msg.sender \in Addrs /\ msg.feePayer \in Addrs /\ msg.to \in Addrs
         /\ msg.gas \in Nat /\ msg.gasPrice \in Nat /\ msg.value \in Nat
         /\ msg.create \in BOOLEAN
         /\ parent[msg.sender].codeSize = 0
         /\ \A a \in Addrs : parent[a].nonce \in Nat /\ parent[a].balance \in Nat
<1>1. msg \in Messages /\ parent \in Parents
  BY DEF TypeOK
<1>2. msg \in Message /\ parent \in StateDB
  BY <1>1, MessagesAssumption, ParentsAssumption
<1>3. \A acc \in Account : acc.nonce \in Nat /\ acc.balance \in Nat
  BY SizeAssumption DEF Account
<1>4. \A a \in Addrs : parent[a] \in Account
  BY <1>2 DEF StateDB
<1>5. parent[msg.sender].codeSize = 0
  BY <1>1, SendersAssumption
<1> QED
  BY <1>2, <1>3, <1>4, <1>5 DEF Message

(* No nonce and no balance that a run can come to leaves its range.        *)
LEMMA RunBounds ==
  ASSUME TypeOK, NEW a \in Addrs
  PROVE  /\ 2 * (parent[a].nonce + msg.gas + 1) < NonceSize
         /\ parent[a].nonce + msg.gas + 1 < NonceSize
         /\ parent[a].balance + msg.value + msg.gas * msg.gasPrice < WordSize
<1>1. /\ 2 * (parent[a].nonce + msg.gas + 1) < NonceSize
      /\ parent[a].balance + msg.value + msg.gas * msg.gasPrice < WordSize
  BY SmallAssumption DEF TypeOK
<1>2. parent[a].nonce \in Nat /\ msg.gas \in Nat /\ NonceSize \in Nat
  BY RunTypes, SizeAssumption
<1>3. parent[a].nonce + msg.gas + 1 < NonceSize
  <2> DEFINE x == parent[a].nonce + msg.gas + 1
  <2>1. x \in Nat /\ 2 * x < NonceSize
    BY <1>1, <1>2
  <2> HIDE DEF x
  <2>2. x < NonceSize
    BY <1>2, <2>1
  <2> QED
    BY <2>2 DEF x
<1> QED
  BY <1>1, <1>3

(* The invariant of types holds before the transaction starts.             *)
LEMMA InitTypes == Init => TypeInv
<1> SUFFICES ASSUME Init PROVE TypeInv
  OBVIOUS
<1>1. /\ msg \in Messages /\ parent \in Parents
      /\ Started /\ phase = "start"
  BY DEF Init, Started
<1>2. /\ msg.gas \in Nat /\ parent \in StateDB
      /\ \A a \in Addrs : parent[a].nonce \in Nat
  <2>1. msg \in Message /\ parent \in StateDB
    BY <1>1, MessagesAssumption, ParentsAssumption
  <2>2. \A a \in Addrs : parent[a] \in Account
    BY <2>1 DEF StateDB
  <2> QED
    BY <2>1, <2>2, SizeAssumption DEF Message, Account
<1>3. /\ tracer.readset = <<>> /\ tracer.writeset = <<>> /\ BooksOK(tracer, parent)
      /\ DOMAIN tracer.readset = {} /\ DOMAIN tracer.writeset = {}
  BY <1>1 DEF Started, NewAccessListTracer, Tracer, BooksOK
<1>4. Len(frames) = 0 /\ frames \in Seq(OpenFrame)
  BY <1>1 DEF Started
<1>5. TypeOK
  BY <1>1, <1>2, <1>3, <1>4, MaxDepthAssumption DEF TypeOK, Started
<1>6. EvmOK
  BY <1>1, <1>2 DEF Started, EvmState, NoncesBelow, EvmOK
<1> QED
  BY <1>1, <1>3, <1>4, <1>5, <1>6, MaxDepthAssumption DEF TypeInv, FramesOK

(* What every step within a run leaves in order; the EVM's state and the   *)
(* open frames are left to the steps.                                      *)
RunStep ==
  /\ phase = "run" /\ phase' \in {"run", "done"}
  /\ msg' = msg /\ parent' = parent
  /\ gas' \in 0 .. gas
  /\ BooksOK(tracer', parent)
  /\ observed' \subseteq StorageKeys
  /\ codes' \subseteq CodeKeys

(* A step of a run keeps the invariant of types if it keeps the parts      *)
(* about the EVM and its frames.                                           *)
LEMMA StepTypes ==
  ASSUME TypeInv, RunStep, EvmOK', FramesOK'
  PROVE  TypeInv'
<1>1. msg \in Messages /\ parent \in Parents /\ msg.gas \in Nat /\ gas \in 0 .. msg.gas
  BY RunTypes DEF TypeInv, TypeOK
<1>2. gas' \in 0 .. msg'.gas
  BY <1>1 DEF RunStep
<1>3. evm'.db \in StateDB /\ evm'.dirty \subseteq StorageKeys
  BY DEF EvmOK, EvmState
<1>4. TypeOK'
  BY <1>1, <1>2, <1>3 DEF TypeOK, RunStep, FramesOK, BooksOK
<1>5. BooksOK(tracer, parent)' /\ phase' # "start"
  BY DEF RunStep
<1> QED
  BY <1>4, <1>5 DEF TypeInv

(* A step that leaves the EVM alone keeps its part: gas only goes down.    *)
LEMMA EvmKept ==
  ASSUME TypeInv, RunStep, evm' = evm
  PROVE  EvmOK'
<1>1. \A a \in Addrs : evm.db[a].nonce \in Int /\ parent[a].nonce \in Int
  BY RunTypes DEF TypeInv, EvmOK, EvmState, StateDB, Account
<1>2. msg.gas \in Int /\ gas \in Int
  BY RunTypes DEF TypeInv, TypeOK
<1> QED
  BY <1>1, <1>2 DEF TypeInv, EvmOK, NoncesBelow, RunStep

(* So does a step that writes, if the nonces stay within the gas left.     *)
LEMMA EvmWritten ==
  ASSUME TypeInv, RunStep, NEW db \in StateDB, NEW keys \in SUBSET StorageKeys,
         evm' = Wrote(db, keys),
         \A a \in Addrs : db[a].nonce + gas' <= parent[a].nonce + msg.gas + 1
  PROVE  EvmOK'
  BY DEF TypeInv, EvmOK, EvmState, Wrote, NoncesBelow, RunStep

\* The nonces stay.
LEMMA EvmMoved ==
  ASSUME TypeInv, RunStep, NEW db \in StateDB, NEW keys \in SUBSET StorageKeys,
         evm' = Wrote(db, keys), \A a \in Addrs : db[a].nonce = evm.db[a].nonce
  PROVE  EvmOK'
<1>1. \A a \in Addrs : evm.db[a].nonce \in Int /\ parent[a].nonce \in Int
  BY RunTypes DEF TypeInv, EvmOK, EvmState, StateDB, Account
<1>2. msg.gas \in Int /\ gas \in Int
  BY RunTypes DEF TypeInv, TypeOK
<1>3. \A a \in Addrs : db[a].nonce + gas' <= parent[a].nonce + msg.gas + 1
  BY <1>1, <1>2 DEF TypeInv, EvmOK, NoncesBelow, RunStep
<1> QED
  BY <1>3, EvmWritten

(* The numbers that NoncesBelow compares are integers.                     *)
LEMMA NonceTypes ==
  ASSUME TypeInv
  PROVE  /\ msg.gas \in Int /\ gas \in Int
         /\ \A a \in Addrs : parent[a].nonce \in Int
  BY RunTypes DEF TypeInv, TypeOK

(* The state a frame has saved stays good for a later return to it.        *)
LEMMA FramesLater ==
  ASSUME TypeInv, RunStep, NEW f \in OpenFrame, NoncesBelow(f.saved.db)
  PROVE  NoncesBelow(f.saved.db)'
<1> DEFINE d == f.saved.db
<1>1. d \in StateDB /\ NoncesBelow(d)
  BY DEF OpenFrame, EvmState
<1> HIDE DEF d
<1>2. \A a \in Addrs : d[a].nonce \in Int
  BY <1>1 DEF StateDB, Account
<1>3. /\ msg.gas \in Int /\ gas \in Int
      /\ \A a \in Addrs : parent[a].nonce \in Int
  BY NonceTypes
<1>5. NoncesBelow(d)'
  BY <1>1, <1>2, <1>3 DEF NoncesBelow, RunStep
<1> QED
  BY <1>5 DEF d

(* A step within the frame keeps the frames.                               *)
LEMMA FramesKept ==
  ASSUME TypeInv, RunStep, frames' = frames
  PROVE  FramesOK'
<1>1. \A j \in 1 .. Len(frames) : frames[j] \in OpenFrame /\ NoncesBelow(frames[j].saved.db)
  BY DEF TypeInv, FramesOK
<1>2. \A j \in 1 .. Len(frames) : NoncesBelow(frames[j].saved.db)'
  BY <1>1, FramesLater
<1> QED
  BY <1>2 DEF TypeInv, FramesOK

(* A call keeps them: the new frame saves the state of the EVM.            *)
LEMMA FramesEntered ==
  ASSUME TypeInv, RunStep, NEW f \in OpenFrame, f.saved = evm, Enter(f)
  PROVE  FramesOK'
<1>1. /\ frames \in Seq(OpenFrame)
      /\ \A j \in 1 .. Len(frames) : frames[j] \in OpenFrame /\ NoncesBelow(frames[j].saved.db)
  BY DEF TypeInv, FramesOK
<1>2. /\ frames' \in Seq(OpenFrame)
      /\ Len(frames') = Len(frames) + 1
      /\ \A j \in 1 .. Len(frames') : frames'[j] = IF j = 1 THEN f ELSE frames[j - 1]
  BY <1>1 DEF Enter
<1>3. NoncesBelow(f.saved.db)
  BY DEF TypeInv, EvmOK
<1>4. ASSUME NEW j \in 1 .. Len(frames')
      PROVE  frames'[j] \in OpenFrame /\ NoncesBelow(frames'[j].saved.db)
  <2>1. CASE j = 1
    BY <1>2, <1>3, <2>1
  <2>2. CASE j # 1
    <3>1. j - 1 \in 1 .. Len(frames) /\ frames'[j] = frames[j - 1]
      BY <1>1, <1>2, <2>2
    <3> QED
      BY <1>1, <3>1
  <2> QED
    BY <2>1, <2>2
<1>5. \A j \in 1 .. Len(frames') : NoncesBelow(frames[j].saved.db)'
  BY <1>4, FramesLater DEF NoncesBelow
<1> QED
  BY <1>1, <1>2, <1>5, MaxDepthAssumption DEF FramesOK, Enter

(* So does the end of a frame, good or bad.                                *)
LEMMA FramesLeft ==
  ASSUME TypeInv, RunStep, frames # <<>>, frames' = Tail(frames)
  PROVE  FramesOK'
<1>1. /\ frames \in Seq(OpenFrame)
      /\ \A j \in 1 .. Len(frames) : frames[j] \in OpenFrame /\ NoncesBelow(frames[j].saved.db)
  BY DEF TypeInv, FramesOK
<1>2. /\ frames' \in Seq(OpenFrame)
      /\ Len(frames') = Len(frames) - 1
      /\ \A j \in 1 .. Len(frames') : frames'[j] = frames[j + 1]
  BY <1>1
<1>3. \A j \in 1 .. Len(frames') : frames'[j] \in OpenFrame /\ NoncesBelow(frames'[j].saved.db)
  BY <1>1, <1>2
<1>4. \A j \in 1 .. Len(frames') : NoncesBelow(frames[j].saved.db)'
  BY <1>3, FramesLater DEF NoncesBelow
<1> QED
  BY <1>1, <1>2, <1>4, MaxDepthAssumption DEF TypeInv, FramesOK

(* The innermost frame is an open frame.                                   *)
LEMMA CurrentType ==
  ASSUME TypeInv, frames # <<>>
  PROVE  Current \in OpenFrame /\ Current = frames[1] /\ Len(frames) >= 1
  BY DEF TypeInv, FramesOK, Current

(* An opcode, whatever it is, is met in a frame.                           *)
LEMMA OpcodeStep ==
  ASSUME TypeInv, NEW op, NEW top, NEW second, NEW cost \in Nat, NEW uses, NEW runs, NEW tags,
         uses \subseteq StorageKeys, runs \subseteq CodeKeys, BooksOK(tracer', parent),
         Opcode(op, top, second, cost, uses, runs, tags)
  PROVE  RunStep /\ gas' = gas - cost
<1>1. gas \in Nat /\ gas - cost \in 0 .. gas
  BY RunTypes DEF TypeInv, TypeOK, Opcode
<1> QED
  BY <1>1, CodeKeyTypes DEF Opcode, RunStep, TypeInv, TypeOK

(* An opcode that reads, and changes nothing.                              *)
LEMMA ReadStep ==
  ASSUME TypeInv, NEW op, NEW top, NEW key \in StorageKeys, NEW tags,
         Opcode(op, top, 0, 1, {key}, {}, tags), UNCHANGED <<evm, frames>>,
         tracer' \in {tracer, Read(tracer, parent, key)}
  PROVE  TypeInv'
<1>1. BooksOK(tracer', parent)
  BY RunTypes, ReadBooks DEF TypeInv
<1>2. RunStep
  BY <1>1, OpcodeStep
<1> QED
  BY <1>2, EvmKept, FramesKept, StepTypes

(* CaptureStart and what the EVM does before it: the fee and the value can *)
(* be paid, the nonce goes up by one.                                      *)
LEMMA TxStartTypes == ASSUME TypeInv, TxStart PROVE TypeInv'
<1>1. /\ msg \in Message /\ parent \in StateDB
      /\ msg.sender \in Addrs /\ msg.feePayer \in Addrs /\ msg.to \in Addrs
      /\ msg.gas \in Nat /\ msg.gasPrice \in Nat /\ msg.value \in Nat
      /\ msg.create \in BOOLEAN
      /\ msg.gas * msg.gasPrice \in Nat
  BY RunTypes, Products DEF TypeInv
<1>2. Started /\ Affordable(parent, msg) /\ gas = msg.gas
  BY DEF TypeInv, TxStart, Started
<1> DEFINE fees   == {BalanceKey(msg.sender), BalanceKey(msg.feePayer), NonceKey(msg.sender)}
           fee    == GasBought(parent, msg)
           bought == [fee EXCEPT ![msg.sender].nonce = @ + 1]
           moved  == Move(bought, msg.sender, msg.to, msg.value)
           saved  == [db |-> bought, dirty |-> fees]
           db     == IF msg.create THEN [moved EXCEPT ![msg.to].nonce = 1] ELSE moved
<1>3. fee \in StateDB /\ OnlyBalances(parent, fee) /\ msg.value <= fee[msg.sender].balance
  <2>1. fee \in Ledger /\ OnlyBalances(parent, fee)
    <3>1. parent \in Ledger /\ 1 \in {1, -1}
      BY <1>1, StateIsLedger
    <3>2. \E x, y \in 0 .. msg.gas * msg.gasPrice :
            Charged(parent, msg, msg.gas * msg.gasPrice, 1, x, y)
      BY <1>1, <3>1, FeeFields
    <3> QED
      BY <3>2 DEF Charged, GasBought
  <2>2. \A a \in Addrs : fee[a].balance \in Int /\ fee[a].balance >= 0
    BY <1>2, <2>1 DEF Affordable, Ledger, Debtor
  <2>3. fee \in StateDB
    BY <2>1, <2>2, StateIsLedger
  <2> HIDE DEF fee
  <2>4. Pay(fee, msg.sender, msg.value)[msg.sender].balance = fee[msg.sender].balance - msg.value
    <3>1. msg.sender \in Addrs /\ msg.value \in Int
      BY <1>1
    <3>2. \A b \in Addrs :
            Pay(fee, msg.sender, msg.value)[b].balance =
              IF b = msg.sender THEN fee[msg.sender].balance - msg.value ELSE fee[b].balance
      BY <2>1, <3>1, PayFields
    <3> QED
      BY <3>1, <3>2
  <2>5. Pay(fee, msg.sender, msg.value)[msg.sender].balance >= 0
    BY <1>1, <1>2 DEF Affordable, fee
  <2> QED
    BY <1>1, <2>1, <2>2, <2>3, <2>4, <2>5
<1> HIDE DEF fee
<1>4. \A a \in Addrs : /\ fee[a] \in Account /\ fee[a].nonce = parent[a].nonce
                       /\ parent[a].nonce \in Nat
                       /\ parent[a].nonce + msg.gas + 1 < NonceSize
  <2>1. \A a \in Addrs : fee[a] \in Account /\ fee[a].nonce = parent[a].nonce
    BY <1>3 DEF OnlyBalances, StateDB
  <2>2. \A a \in Addrs : /\ parent[a].nonce \in Nat
                         /\ parent[a].nonce + msg.gas + 1 < NonceSize
    BY RunTypes, RunBounds DEF TypeInv
  <2> QED
    BY <2>1, <2>2
<1>5. /\ bought \in StateDB
      /\ bought[msg.sender].balance = fee[msg.sender].balance
      /\ \A a \in Addrs : bought[a].nonce + msg.gas <= parent[a].nonce + msg.gas + 1
  <2> DEFINE acc == [fee[msg.sender] EXCEPT !.nonce = fee[msg.sender].nonce + 1]
  <2>1. acc \in Account /\ acc.balance = fee[msg.sender].balance
        /\ acc.nonce = fee[msg.sender].nonce + 1
    <3>1. fee[msg.sender].nonce + 1 \in 0 .. NonceSize - 1
      BY <1>1, <1>4, SizeAssumption
    <3> QED
      BY <1>1, <1>4, <3>1 DEF Account
  <2>2. bought = [fee EXCEPT ![msg.sender] = acc]
    OBVIOUS
  <2> HIDE DEF acc
  <2>3. bought \in StateDB /\ \A a \in Addrs : bought[a] = IF a = msg.sender THEN acc ELSE fee[a]
    BY <1>1, <1>3, <2>1, <2>2 DEF StateDB
  <2> HIDE DEF bought
  <2> QED
    BY <1>1, <1>4, <2>1, <2>3
<1> HIDE DEF bought
<1>6. moved \in StateDB /\ OnlyBalances(bought, moved)
  BY <1>1, <1>3, <1>5, MoveFields
<1> HIDE DEF moved
<1>7. db \in StateDB /\ \A a \in Addrs : db[a].nonce + msg.gas <= parent[a].nonce + msg.gas + 1
  <2>1. CASE ~msg.create
    BY <1>1, <1>5, <1>6, <2>1 DEF OnlyBalances
  <2>2. CASE msg.create
    <3> DEFINE acc == [moved[msg.to] EXCEPT !.nonce = 1]
    <3>4. 1 \in 0 .. NonceSize - 1
      BY SizeAssumption
    <3>5. moved[msg.to] \in Account
      BY <1>1, <1>6 DEF StateDB
    <3>1. acc \in Account /\ acc.nonce = 1
      BY <3>4, <3>5 DEF Account
    <3>2. db = [moved EXCEPT ![msg.to] = acc]
      BY <2>2
    <3> HIDE DEF acc
    <3>3. db \in StateDB /\ \A a \in Addrs : db[a] = IF a = msg.to THEN acc ELSE moved[a]
      BY <1>1, <1>6, <3>1, <3>2 DEF StateDB
    <3> HIDE DEF db
    <3> QED
      BY <1>1, <1>4, <1>5, <1>6, <3>1, <3>3 DEF OnlyBalances
  <2> QED
    BY <1>1, <2>1, <2>2
<1> HIDE DEF db
<1> DEFINE code == {CodeKey(msg.to), ToStorageKey(msg.sender, "codesize")}
<1>8. /\ fees \subseteq StorageKeys /\ BalanceKey(msg.to) \in StorageKeys
      /\ code \subseteq CodeKeys /\ code \subseteq StorageKeys
  BY <1>1, KeyTypes, CodeKeyTypes DEF CodeSlots
<1> HIDE DEF fees, code
<1> DEFINE f == [addr |-> msg.to, code |-> msg.to, caller |-> msg.sender,
                 value |-> msg.value, create |-> msg.create, saved |-> saved]
<1>9. /\ phase' = "run" /\ msg' = msg /\ parent' = parent /\ gas' = msg.gas
      /\ evm' = [db |-> db, dirty |-> fees \cup {BalanceKey(msg.to)}]
      /\ frames' = <<f>>
      /\ tracer' = CaptureStart(tracer, parent, msg, FALSE)
      /\ observed' = fees \cup {BalanceKey(msg.to)} \cup code
      /\ codes' = code
  <2>1. parent[msg.sender].codeSize = 0
    BY RunTypes DEF TypeInv
  <2>2. (parent[msg.sender].codeSize > 0) = FALSE
    BY <2>1
  <2> QED
    BY <1>2, <2>2 DEF TxStart, fees, code, db, moved, bought, fee
<1>10. EvmOK'
  BY <1>7, <1>8, <1>9 DEF EvmOK, EvmState, NoncesBelow
<1>11. f \in OpenFrame /\ f.saved.db = bought
  BY <1>1, <1>5, <1>8 DEF OpenFrame, EvmState
<1> HIDE DEF f
<1>12. FramesOK'
  <2>1. Len(frames') = 1 /\ frames'[1] = f /\ frames' \in Seq(OpenFrame)
    BY <1>9, <1>11
  <2>2. \A a \in Addrs : bought[a].nonce + gas' <= parent'[a].nonce + msg'.gas + 1
    BY <1>5, <1>9
  <2>3. \A j \in 1 .. Len(frames') : j = 1 /\ frames'[j].saved.db = bought
    BY <1>11, <2>1
  <2>4. \A j \in 1 .. Len(frames') : NoncesBelow(frames[j].saved.db)'
    BY <2>2, <2>3 DEF NoncesBelow
  <2> QED
    BY <2>1, <2>4, MaxDepthAssumption DEF FramesOK
<1>13. BooksOK(tracer', parent)
  BY <1>1, <1>9, StartBooks DEF TypeInv, Booked
<1>14. TypeOK'
  <2>1. msg' \in Messages /\ parent' \in Parents
    BY <1>9 DEF TypeInv, TypeOK
  <2>2. evm'.db \in StateDB /\ evm'.dirty \subseteq StorageKeys
    BY <1>10 DEF EvmOK, EvmState
  <2>3. /\ DOMAIN tracer'.readset \subseteq StorageKeys
        /\ DOMAIN tracer'.writeset \subseteq StorageKeys
    BY <1>13 DEF BooksOK
  <2>4. gas' \in 0 .. msg'.gas
    BY <1>1, <1>9
  <2>5. Len(frames') <= MaxDepth
    BY <1>12 DEF FramesOK
  <2> QED
    BY <1>8, <1>9, <2>1, <2>2, <2>3, <2>4, <2>5 DEF TypeOK
<1> QED
  BY <1>9, <1>10, <1>12, <1>13, <1>14 DEF TypeInv

(* The opcodes that read: SLOAD, BALANCE, SELFBALANCE and EXTCODE*.        *)
LEMMA ReadTypes ==
  ASSUME TypeInv,
         \/ SelfBalance
         \/ \E slot \in Slots : Sload(slot)
         \/ \E addr \in Addrs : \/ Balance(addr)
                                \/ \E op \in {"EXTCODECOPY", "EXTCODEHASH", "EXTCODESIZE"} :
                                     ExtCode(op, addr)
  PROVE  TypeInv'
<1>1. CASE SelfBalance
  <2>1. frames # <<>> /\ tracer' = tracer
    BY <1>1 DEF SelfBalance, Opcode, CaptureState
  <2>2. BalanceKey(Current.addr) \in StorageKeys
    BY <2>1, CurrentType, KeyTypes DEF OpenFrame
  <2> QED
    BY <1>1, <2>1, <2>2, ReadStep DEF SelfBalance
<1>2. ASSUME NEW slot \in Slots, Sload(slot) PROVE TypeInv'
  <2> DEFINE key == ToStorageKey(Current.addr, slot)
  <2>1. frames # <<>> /\ tracer' = Read(tracer, parent, key)
    BY <1>2 DEF Sload, Opcode, CaptureState
  <2>2. key \in StorageKeys
    BY <2>1, CurrentType, KeyTypes DEF OpenFrame
  <2>3. Opcode("SLOAD", slot, 0, 1, {key}, {}, {}) /\ UNCHANGED <<evm, frames>>
    BY <1>2 DEF Sload
  <2> HIDE DEF key
  <2> QED
    BY <2>1, <2>2, <2>3, ReadStep
<1>3. ASSUME NEW addr \in Addrs, Balance(addr) PROVE TypeInv'
  <2>1. tracer' = Read(tracer, parent, BalanceKey(addr))
    BY <1>3 DEF Balance, Opcode, CaptureState
  <2> QED
    BY <1>3, <2>1, KeyTypes, ReadStep DEF Balance
<1>4. ASSUME NEW addr \in Addrs, NEW op \in {"EXTCODECOPY", "EXTCODEHASH", "EXTCODESIZE"},
             ExtCode(op, addr)
      PROVE  TypeInv'
  <2> DEFINE slot == CASE op = "EXTCODECOPY" -> "codecopy"
                       [] op = "EXTCODEHASH" -> "codehash"
                       [] op = "EXTCODESIZE" -> "codesize"
             key == ToStorageKey(addr, slot)
  <2>1. tracer' = Read(tracer, parent, key)
    BY <1>4 DEF ExtCode, Opcode, CaptureState
  <2>2. slot \in SpecialSlots
    BY DEF SpecialSlots
  <2>3. Opcode(op, addr, 0, 1, {key}, {}, {}) /\ UNCHANGED <<evm, frames>>
    BY <1>4 DEF ExtCode
  <2> HIDE DEF slot
  <2>4. key \in StorageKeys
    BY <2>2, KeyTypes
  <2> HIDE DEF key
  <2> QED
    BY <2>1, <2>3, <2>4, ReadStep
<1> QED
  BY <1>1, <1>2, <1>3, <1>4

(* SSTORE, in the tracer and in the EVM.                                   *)
LEMMA SstoreTypes ==
  ASSUME TypeInv, NEW slot \in Slots, NEW word \in {0, 1}, Sstore(slot, word)
  PROVE  TypeInv'
<1> DEFINE key == ToStorageKey(Current.addr, slot)
           cost == SstoreCost(GetValue(key, evm.db), word)
           tags == IF key \in observed \cup evm.dirty THEN {} ELSE {"BLINDSTORE"}
<1>1. /\ Opcode("SSTORE", slot, word, cost, {key}, {}, tags)
      /\ evm' = Wrote(SetValue(key, evm.db, word), {key})
      /\ frames' = frames /\ frames # <<>>
      /\ tracer' = Set(tracer, key, word)
  BY DEF Sstore, Opcode, CaptureState
<1>2. key \in StorageKeys \ CodeKeys /\ word \in Word /\ cost \in Nat
  <2>1. word \in Word
    BY SizeAssumption DEF Word
  <2>2. cost \in Nat
    BY DEF SstoreCost
  <2> QED
    BY <1>1, <2>1, <2>2, CurrentType, KeyTypes, CodeKeyTypes DEF OpenFrame
<1>3. key.slot \notin {"balance", "nonce"} /\ key.slot = slot
  BY SlotsAssumption DEF ToStorageKey, SpecialSlots
<1> HIDE DEF key, cost, tags
<1>4. BooksOK(tracer', parent)
  BY <1>1, <1>2, RunTypes, SetBooks DEF TypeInv
<1>5. RunStep
  BY <1>1, <1>2, <1>4, OpcodeStep
<1>6. /\ SetValue(key, evm.db, word) \in StateDB
      /\ \A a \in Addrs : SetValue(key, evm.db, word)[a].nonce = evm.db[a].nonce
  <2>1. evm.db \in StateDB
    BY DEF TypeInv, EvmOK, EvmState
  <2>2. \A a \in Addrs : key # NonceKey(a)
    BY <1>3 DEF NonceKey, ToStorageKey
  <2> QED
    BY <1>2, <2>1, <2>2, SetValueType
<1>7. EvmOK'
  BY <1>1, <1>2, <1>5, <1>6, EvmMoved
<1> QED
  BY <1>1, <1>5, <1>7, FramesKept, StepTypes

(* At a call the tracer books the value of the frame, or nothing.          *)
LEMMA CallBooks ==
  ASSUME TypeInv, frames # <<>>, NEW op \in {"CALL", "CALLCODE"}
  PROVE  LET u == CaptureState(tracer, parent, Current, op, GasAddress, 0)
         IN  /\ BooksOK(u, parent)
             /\ Current.value = 0 => u = tracer
<1>1. /\ Current.caller \in Addrs /\ Current.value \in Nat /\ GasAddress \in Addrs
      /\ parent \in StateDB /\ BooksOK(tracer, parent)
  BY CurrentType, GasAddressAssumption, RunTypes DEF OpenFrame, TypeInv
<1> DEFINE moved == Transfer(tracer, parent, Current.caller, GasAddress, Current.value)
<1>2. BooksOK(moved, parent)
  BY <1>1, TransferBooks DEF Booked
<1>3. CaptureState(tracer, parent, Current, op, GasAddress, 0) =
        IF Current.value > 0 /\ Current.caller # GasAddress THEN moved ELSE tracer
  BY DEF CaptureState
<1> HIDE DEF moved
<1> QED
  BY <1>1, <1>2, <1>3

(* CALL moves what the contract has at most.                               *)
LEMMA CallTypes ==
  ASSUME TypeInv, NEW to \in Addrs, NEW sum \in Sums, Call(to, sum)
  PROVE  TypeInv'
<1> DEFINE self == Current.addr
           uses == IF sum > 0 THEN {BalanceKey(self), BalanceKey(to)} ELSE {}
           f == Frame(to, to, self, sum, FALSE)
           db == Move(evm.db, self, to, sum)
<1>1. /\ Opcode("CALL", GasAddress, 0, 1, uses, {CodeKey(to)}, CallTag(sum))
      /\ sum <= evm.db[self].balance
      /\ Enter(f)
      /\ evm' = Wrote(db, uses)
      /\ frames # <<>>
      /\ tracer' = CaptureState(tracer, parent, Current, "CALL", GasAddress, 0)
  BY DEF Call, Opcode
<1>2. self \in Addrs /\ sum \in Nat /\ evm \in EvmState /\ evm.db \in StateDB
  BY <1>1, CurrentType, SumsAssumption DEF OpenFrame, TypeInv, EvmOK, EvmState
<1>3. f \in OpenFrame /\ f.saved = evm
  BY <1>2 DEF Frame, OpenFrame
<1> HIDE DEF f, self
<1>4. uses \subseteq StorageKeys /\ {CodeKey(to)} \subseteq CodeKeys
  BY <1>2, KeyTypes, CodeKeyTypes
<1> HIDE DEF uses
<1>5. RunStep
  BY <1>1, <1>4, CallBooks, OpcodeStep
<1>6. db \in StateDB /\ \A a \in Addrs : db[a].nonce = evm.db[a].nonce
  BY <1>1, <1>2, MoveFields DEF OnlyBalances
<1> HIDE DEF db
<1>7. EvmOK'
  BY <1>1, <1>4, <1>5, <1>6, EvmMoved
<1> QED
  BY <1>1, <1>3, <1>5, <1>7, FramesEntered, StepTypes

(* A CALL that cannot be paid changes nothing but the books.               *)
LEMMA CallUnpaidTypes ==
  ASSUME TypeInv, NEW sum \in Sums, CallUnpaid(sum)
  PROVE  TypeInv'
<1>1. /\ Opcode("CALL", GasAddress, 0, 1, {BalanceKey(Current.addr)}, {}, CallTag(sum))
      /\ UNCHANGED <<evm, frames>>
      /\ frames # <<>>
      /\ tracer' = CaptureState(tracer, parent, Current, "CALL", GasAddress, 0)
  BY DEF CallUnpaid, Opcode
<1>2. BalanceKey(Current.addr) \in StorageKeys
  BY <1>1, CurrentType, KeyTypes DEF OpenFrame
<1>3. RunStep
  BY <1>1, <1>2, CallBooks, OpcodeStep
<1> QED
  BY <1>1, <1>3, EvmKept, FramesKept, StepTypes

(* CALLCODE enters a frame and moves nothing.                              *)
LEMMA CallCodeTypes ==
  ASSUME TypeInv, NEW code \in Addrs, NEW sum \in Sums, CallCode(code, sum)
  PROVE  TypeInv'
<1> DEFINE uses == IF sum > 0 THEN {BalanceKey(Current.addr)} ELSE {}
           f == Frame(Current.addr, code, Current.addr, sum, FALSE)
<1>1. /\ Opcode("CALLCODE", GasAddress, 0, 1, uses, {CodeKey(code)}, CallTag(sum))
      /\ Enter(f)
      /\ evm' = evm
      /\ frames # <<>>
      /\ tracer' = CaptureState(tracer, parent, Current, "CALLCODE", GasAddress, 0)
  BY DEF CallCode, Opcode
<1>2. Current.addr \in Addrs /\ sum \in Nat /\ evm \in EvmState
  BY <1>1, CurrentType, SumsAssumption DEF OpenFrame, TypeInv, EvmOK
<1>3. f \in OpenFrame /\ f.saved = evm
  BY <1>2 DEF Frame, OpenFrame
<1> HIDE DEF f
<1>4. uses \subseteq StorageKeys /\ {CodeKey(code)} \subseteq CodeKeys
  BY <1>2, KeyTypes, CodeKeyTypes
<1> HIDE DEF uses
<1>5. RunStep
  BY <1>1, <1>4, CallBooks, OpcodeStep
<1> QED
  BY <1>1, <1>3, <1>5, EvmKept, FramesEntered, StepTypes

(* DELEGATECALL enters a frame, and the tracer books nothing.              *)
LEMMA DelegateCallTypes ==
  ASSUME TypeInv, NEW code \in Addrs, DelegateCall(code)
  PROVE  TypeInv'
<1> DEFINE f == Frame(Current.addr, code, Current.caller, Current.value, FALSE)
<1>1. /\ Opcode("DELEGATECALL", GasAddress, 0, 1, {}, {CodeKey(code)}, {})
      /\ Enter(f)
      /\ evm' = evm
      /\ frames # <<>>
      /\ tracer' = tracer
  BY DEF DelegateCall, Opcode, CaptureState
<1>2. /\ Current.addr \in Addrs /\ Current.caller \in Addrs /\ Current.value \in Nat
      /\ evm \in EvmState
  BY <1>1, CurrentType DEF OpenFrame, TypeInv, EvmOK
<1>3. f \in OpenFrame /\ f.saved = evm
  BY <1>2 DEF Frame, OpenFrame
<1> HIDE DEF f
<1>4. RunStep
  BY <1>1, OpcodeStep, CodeKeyTypes DEF TypeInv
<1> QED
  BY <1>1, <1>3, <1>4, EvmKept, FramesEntered, StepTypes

(* CREATE raises a nonce by one and pays a unit of gas for it.             *)
LEMMA CreateTypes ==
  ASSUME TypeInv, NEW new \in Addrs, NEW sum \in Sums, Create(new, sum)
  PROVE  TypeInv'
<1> DEFINE self == Current.addr
           moved == Move(evm.db, self, new, sum)
           keys == {BalanceKey(self), BalanceKey(new), NonceKey(self), NonceKey(new)}
           f == Frame(new, new, self, sum, TRUE)
           counted == [moved EXCEPT ![self].nonce = @ + 1]
           db == [counted EXCEPT ![new].nonce = 1]
<1>1. /\ Opcode("CREATE", 0, 0, 1, keys, {CodeKey(new)}, {"CREATE"})
      /\ sum <= evm.db[self].balance
      /\ Enter(f)
      /\ evm' = Wrote(db, keys)
      /\ frames # <<>>
      /\ tracer' = tracer
  BY DEF Create, Opcode, CaptureState
<1>2. self \in Addrs /\ sum \in Nat /\ evm \in EvmState /\ evm.db \in StateDB
  BY <1>1, CurrentType, SumsAssumption DEF OpenFrame, TypeInv, EvmOK, EvmState
<1>3. f \in OpenFrame /\ f.saved = evm
  BY <1>2 DEF Frame, OpenFrame
<1> HIDE DEF f, self
<1>4. keys \in SUBSET StorageKeys /\ {CodeKey(new)} \subseteq CodeKeys
  BY <1>2, KeyTypes, CodeKeyTypes
<1> HIDE DEF keys
<1>5. RunStep /\ gas' = gas - 1
  BY <1>1, <1>4, OpcodeStep DEF TypeInv
<1>6. moved \in StateDB /\ \A a \in Addrs : moved[a].nonce = evm.db[a].nonce
  BY <1>1, <1>2, MoveFields DEF OnlyBalances
<1> HIDE DEF moved
<1>7. \A a \in Addrs : /\ moved[a] \in Account /\ moved[a].nonce \in Nat
                       /\ moved[a].nonce + gas <= parent[a].nonce + msg.gas + 1
                       /\ parent[a].nonce + msg.gas + 1 < NonceSize
  <2>1. \A a \in Addrs : moved[a] \in Account
    BY <1>6 DEF StateDB
  <2>2. \A acc \in Account : acc.nonce \in Nat
    BY SizeAssumption DEF Account
  <2>3. \A a \in Addrs : moved[a].nonce + gas <= parent[a].nonce + msg.gas + 1
    BY <1>6 DEF TypeInv, EvmOK, NoncesBelow
  <2>4. \A a \in Addrs : parent[a].nonce + msg.gas + 1 < NonceSize
    BY RunBounds DEF TypeInv
  <2> QED
    BY <2>1, <2>2, <2>3, <2>4
<1>8. /\ gas \in Nat /\ msg.gas \in Nat /\ gas - 1 \in Nat /\ gas <= msg.gas
      /\ \A a \in Addrs : parent[a].nonce \in Nat
  BY <1>1, RunTypes DEF TypeInv, TypeOK, Opcode
<1>9. counted \in StateDB
      /\ \A a \in Addrs : counted[a].nonce + (gas - 1) <= parent[a].nonce + msg.gas + 1
  <2> DEFINE acc == [moved[self] EXCEPT !.nonce = moved[self].nonce + 1]
  <2>1. moved[self].nonce + 1 \in 0 .. NonceSize - 1
    <3>1. moved[self].nonce + 1 <= parent[self].nonce + msg.gas + 1
      BY <1>2, <1>7, <1>8
    <3> QED
      BY <1>2, <1>7, <1>8, <3>1, SizeAssumption
  <2>2. acc \in Account /\ acc.nonce = moved[self].nonce + 1
    BY <1>2, <1>7, <2>1 DEF Account
  <2>3. counted = [moved EXCEPT ![self] = acc]
    OBVIOUS
  <2> HIDE DEF acc
  <2>4. counted \in StateDB /\ \A a \in Addrs : counted[a] = IF a = self THEN acc ELSE moved[a]
    BY <1>2, <1>6, <2>2, <2>3 DEF StateDB
  <2> HIDE DEF counted
  <2> QED
    BY <1>2, <1>7, <1>8, <2>2, <2>4
<1> HIDE DEF counted
<1>10. db \in StateDB
       /\ \A a \in Addrs : db[a].nonce + (gas - 1) <= parent[a].nonce + msg.gas + 1
  <2> DEFINE acc == [counted[new] EXCEPT !.nonce = 1]
  <2>1. 1 \in 0 .. NonceSize - 1
    BY SizeAssumption
  <2>2. counted[new] \in Account
    BY <1>9 DEF StateDB
  <2>3. acc \in Account /\ acc.nonce = 1
    BY <2>1, <2>2 DEF Account
  <2>4. db = [counted EXCEPT ![new] = acc]
    OBVIOUS
  <2> HIDE DEF acc
  <2>5. db \in StateDB /\ \A a \in Addrs : db[a] = IF a = new THEN acc ELSE counted[a]
    BY <1>9, <2>3, <2>4 DEF StateDB
  <2> HIDE DEF db
  <2> QED
    BY <1>8, <1>9, <2>3, <2>5
<1> HIDE DEF db
<1>11. EvmOK'
  BY <1>1, <1>4, <1>5, <1>10, EvmWritten
<1> QED
  BY <1>1, <1>3, <1>5, <1>11, FramesEntered, StepTypes

(* A frame that ends well leaves the state as it is, or with new code.     *)
LEMMA ReturnTypes == ASSUME TypeInv, Return PROVE TypeInv'
<1>1. /\ frames # <<>> /\ frames' = Tail(frames)
      /\ gas \in Nat /\ evm \in EvmState /\ evm.db \in StateDB
  BY RunTypes DEF Return, TypeInv, TypeOK, EvmOK, EvmState
<1>2. RunStep
  BY <1>1 DEF Return, RunStep, TypeInv, TypeOK
<1>3. EvmOK'
  <2>1. CASE ~Current.create
    BY <1>2, <2>1, EvmKept DEF Return
  <2>2. CASE Current.create
    <3> DEFINE self == Current.addr
               acc  == [evm.db[self] EXCEPT !.codeSize = 1, !.codeHash = 1]
               db   == [evm.db EXCEPT ![self].codeSize = 1, ![self].codeHash = 1]
               keys == {ToStorageKey(self, slot) : slot \in CodeSlots}
    <3>1. self \in Addrs /\ keys \in SUBSET StorageKeys
      BY <1>1, CurrentType, CodeKeyTypes DEF OpenFrame
    <3>2. evm' = Wrote(db, keys)
      BY <2>2 DEF Return
    <3> HIDE DEF self, keys
    <3>3. evm.db[self] \in Account /\ 1 \in Word
      BY <1>1, <3>1, SizeAssumption DEF StateDB, Word
    <3>4. acc \in Account /\ acc.nonce = evm.db[self].nonce
      BY <3>3 DEF Account
    <3>5. db = [evm.db EXCEPT ![self] = acc]
      BY <1>1, <3>1, <3>3 DEF StateDB
    <3> HIDE DEF acc
    <3>6. db \in StateDB /\ \A a \in Addrs : db[a] = IF a = self THEN acc ELSE evm.db[a]
      BY <1>1, <3>1, <3>4, <3>5 DEF StateDB
    <3> HIDE DEF db
    <3> QED
      BY <1>2, <3>1, <3>2, <3>4, <3>6, EvmMoved
  <2> QED
    BY <2>1, <2>2
<1> QED
  BY <1>1, <1>2, <1>3, FramesLeft, StepTypes

(* A frame that fails goes back to the state it saved.                     *)
LEMMA FailTypes == ASSUME TypeInv, Fail PROVE TypeInv'
<1>1. frames # <<>> /\ frames' = Tail(frames) /\ evm' = Current.saved /\ gas \in Nat
  BY RunTypes DEF Fail, TypeInv, TypeOK
<1>2. RunStep
  BY <1>1 DEF Fail, RunStep, TypeInv, TypeOK
<1>3. Current \in OpenFrame /\ NoncesBelow(Current.saved.db)
  BY <1>1, CurrentType DEF TypeInv, FramesOK
<1>4. EvmOK'
  <2> DEFINE f == Current
  <2>1. f \in OpenFrame /\ NoncesBelow(f.saved.db) /\ evm' = f.saved
    BY <1>1, <1>3
  <2>2. evm' \in EvmState
    BY <2>1 DEF OpenFrame
  <2>3. \A g \in OpenFrame : NoncesBelow(g.saved.db) /\ evm' = g.saved => NoncesBelow(evm.db)'
    <3> SUFFICES ASSUME NEW g \in OpenFrame, NoncesBelow(g.saved.db), evm' = g.saved
                 PROVE  NoncesBelow(evm.db)'
      OBVIOUS
    <3>1. NoncesBelow(g.saved.db)'
      BY <1>2, FramesLater
    <3> QED
      BY <3>1 DEF NoncesBelow
  <2> QED
    BY <2>1, <2>2, <2>3 DEF EvmOK
<1> QED
  BY <1>1, <1>2, <1>4, FramesLeft, StepTypes

(* SELFDESTRUCT moves the whole balance, to the contract itself perhaps.   *)
LEMMA SelfDestructTypes ==
  ASSUME TypeInv, NEW heir \in Addrs, SelfDestruct(heir)
  PROVE  TypeInv'
<1> DEFINE self == Current.addr
           keys == {BalanceKey(self), BalanceKey(heir)}
           sum == evm.db[self].balance
           db == Move(evm.db, self, heir, sum)
<1>1. /\ Opcode("SELFDESTRUCT", heir, 0, 1, keys, {}, {"SELFDESTRUCT"})
      /\ evm' = Wrote(db, keys)
      /\ frames # <<>> /\ frames' = Tail(frames)
      /\ tracer' = [tracer EXCEPT !.aborted = TRUE]
  BY DEF SelfDestruct, Opcode, CaptureState
<1>2. self \in Addrs /\ evm.db \in StateDB
  BY <1>1, CurrentType DEF OpenFrame, TypeInv, EvmOK, EvmState
<1> HIDE DEF self
<1>3. sum \in Nat /\ sum <= evm.db[self].balance
  BY <1>2 DEF StateDB, Account
<1>4. keys \in SUBSET StorageKeys
  BY <1>2, KeyTypes
<1> HIDE DEF keys, sum, db
<1>5. BooksOK(tracer', parent)
  <2>1. /\ tracer = Tracer(tracer.readset, tracer.writeset, tracer.aborted)
        /\ BooksOK(tracer, parent)
    BY DEF TypeInv, BooksOK
  <2>2. /\ tracer' = Tracer(tracer.readset, tracer.writeset, TRUE)
        /\ tracer'.readset = tracer.readset /\ tracer'.writeset = tracer.writeset
        /\ tracer'.aborted = TRUE
    BY <1>1, <2>1 DEF Tracer
  <2> QED
    BY <2>1, <2>2 DEF BooksOK
<1>6. RunStep
  <2>1. /\ keys \subseteq StorageKeys /\ {} \subseteq CodeKeys /\ 1 \in Nat
        /\ Opcode("SELFDESTRUCT", heir, 0, 1, keys, {}, {"SELFDESTRUCT"})
    BY <1>1, <1>4
  <2> QED
    BY <1>5, <2>1, OpcodeStep
<1>7. db \in StateDB /\ \A a \in Addrs : db[a].nonce = evm.db[a].nonce
  BY <1>2, <1>3, MoveFields DEF OnlyBalances, db
<1>8. EvmOK'
  BY <1>1, <1>4, <1>6, <1>7, EvmMoved
<1> QED
  BY <1>1, <1>6, <1>8, FramesLeft, StepTypes

(* CaptureTxEnd and the refund of the EVM.                                 *)
LEMMA TxEndTypes == ASSUME TypeInv, TxEnd PROVE TypeInv'
<1> DEFINE rest == gas * msg.gasPrice
           db == Fee(evm.db, msg, rest, -1)
<1>1. /\ msg \in Message /\ parent \in StateDB /\ gas \in Nat /\ rest \in Nat
      /\ evm.db \in StateDB /\ BooksOK(tracer, parent)
  <2>1. gas \in Nat /\ msg.gasPrice \in Nat
    BY RunTypes DEF TypeInv, TypeOK
  <2>2. rest \in Nat
    BY <2>1, Products
  <2> QED
    BY <2>1, <2>2, RunTypes DEF TypeInv, EvmOK, EvmState
<1>2. /\ evm' = Wrote(db, {}) /\ frames' = frames
      /\ tracer' = ChargeFee(tracer, parent, msg, rest, -1)
  BY DEF TxEnd, CaptureTxEnd
<1> HIDE DEF rest
<1>3. BooksOK(tracer', parent)
  BY <1>1, <1>2, FeeBooks DEF Booked
<1>4. RunStep
  BY <1>1, <1>3 DEF TxEnd, RunStep, TypeInv, TypeOK
<1>5. db \in StateDB /\ \A a \in Addrs : db[a].nonce = evm.db[a].nonce
  <2>1. PICK x \in 0 .. rest, y \in 0 .. rest :
          /\ db \in Ledger /\ OnlyBalances(evm.db, db)
          /\ \A a \in Addrs :
               db[a].balance = evm.db[a].balance - (IF a = msg.feePayer THEN -1 * x ELSE 0)
                                                 - (IF a = msg.sender THEN -1 * y ELSE 0)
    <3>1. evm.db \in Ledger /\ -1 \in {1, -1}
      BY <1>1, StateIsLedger
    <3>2. \E x, y \in 0 .. rest : Charged(evm.db, msg, rest, -1, x, y)
      BY <1>1, <3>1, FeeFields
    <3> QED
      BY <3>2 DEF Charged
  <2>2. \A a \in Addrs : evm.db[a].balance \in Nat
    BY <1>1 DEF StateDB, Account
  <2> HIDE DEF db
  <2>3. ASSUME NEW a \in Addrs PROVE db[a].balance \in Nat
    <3>1. /\ x \in Nat /\ y \in Nat /\ evm.db[a].balance \in Nat
          /\ (IF a = msg.feePayer THEN -1 * x ELSE 0) \in {-x, 0}
          /\ (IF a = msg.sender THEN -1 * y ELSE 0) \in {-y, 0}
      BY <1>1, <2>2
    <3> QED
      BY <2>1, <3>1
  <2> QED
    BY <2>1, <2>3, StateIsLedger DEF OnlyBalances
<1> HIDE DEF db
<1>6. EvmOK'
  BY <1>2, <1>4, <1>5, EvmMoved
<1> QED
  BY <1>2, <1>4, <1>6, FramesKept, StepTypes

(* Every step of a run keeps the invariant of types.                       *)
LEMMA NextTypes == ASSUME TypeInv, [Next]_vars PROVE TypeInv'
<1>1. CASE UNCHANGED vars
  BY <1>1 DEF vars, TypeInv, TypeOK, EvmOK, FramesOK, NoncesBelow, Started
<1>2. CASE Next
  BY <1>1, <1>2, TxStartTypes, ReadTypes, SstoreTypes, CallTypes, CallUnpaidTypes,
     CallCodeTypes, DelegateCallTypes, CreateTypes, ReturnTypes, FailTypes,
     SelfDestructTypes, TxEndTypes
  DEF Next, Terminated
<1> QED
  BY <1>1, <1>2

(* TypeOK: whatever code runs, the EVM's balances and nonces and the keys  *)
(* of the tracer's maps stay well-typed, and frames within the call depth. *)
THEOREM TracedTypes == Spec => []TypeOK
<1>1. TypeInv => TypeOK
  BY DEF TypeInv
<1> QED
  BY InitTypes, NextTypes, <1>1, PTL DEF Spec

-----------------------------------------------------------------------------
(* The read set.                                                           *)

(* ReadsetIsParents: what Get has recorded of a key is its word in the     *)
(* parent state, in whatever order the run reads and writes it.            *)
THEOREM ReadsetsAreParents == Spec => []ReadsetIsParents
<1>1. TypeInv => ReadsetIsParents
  BY DEF TypeInv, BooksOK, ReadsetIsParents
<1> QED
  BY InitTypes, NextTypes, <1>1, PTL DEF Spec

(* An opcode within a run: what it depends on, the code it starts apart,   *)
(* is recorded by then, and what the tracer writes the EVM writes.         *)
LEMMA OpcodeRecords ==
  ASSUME TypeInv, RecordInv,
         NEW op, NEW top, NEW second, NEW cost, NEW uses, NEW runs, NEW tags,
         Opcode(op, top, second, cost, uses, runs, tags),
         evm.dirty \subseteq evm'.dirty,
         DOMAIN tracer.readset \subseteq DOMAIN tracer'.readset,
         tags \cap Unrecorded = {} /\ met \cap Unrecorded = {} =>
           /\ DOMAIN tracer'.writeset \subseteq evm'.dirty
           /\ uses \ evm.dirty \subseteq DOMAIN tracer'.readset
  PROVE  RecordInv'
<1>1. /\ met' = met \cup tags
      /\ observed' = observed \cup ((uses \cup runs) \ evm.dirty)
      /\ codes' = (codes \ (uses \ evm.dirty)) \cup (runs \ (observed \cup evm.dirty))
      /\ phase = "run" /\ msg' = msg
  BY DEF Opcode
<1> SUFFICES ASSUME met' \cap Unrecorded = {}
             PROVE  /\ observed' \ codes' \subseteq DOMAIN tracer'.readset
                    /\ DOMAIN tracer'.writeset \subseteq evm'.dirty
                    /\ {BalanceKey(msg'.sender), BalanceKey(msg'.feePayer)} \subseteq evm'.dirty
  BY DEF RecordInv
<1>2. met \cap Unrecorded = {} /\ tags \cap Unrecorded = {}
  BY <1>1
<1>3. /\ observed \ codes \subseteq DOMAIN tracer.readset
      /\ {BalanceKey(msg.sender), BalanceKey(msg.feePayer)} \subseteq evm.dirty
  BY <1>1, <1>2 DEF RecordInv
<1> QED
  BY <1>1, <1>2, <1>3

(* An opcode that reads: the key is in the read set afterwards, unless the *)
(* run has written it.                                                     *)
LEMMA ReadRecords ==
  ASSUME TypeInv, RecordInv, NEW op, NEW top, NEW key \in StorageKeys, NEW tags,
         Opcode(op, top, 0, 1, {key}, {}, tags), evm' = evm,
         tracer' = Read(tracer, parent, key)
  PROVE  RecordInv'
<1>1. /\ tracer'.writeset = tracer.writeset
      /\ DOMAIN tracer.readset \subseteq DOMAIN tracer'.readset
      /\ key \in DOMAIN tracer'.readset \cup DOMAIN tracer.writeset
  BY RunTypes, ReadBooks DEF TypeInv
<1>2. met \cap Unrecorded = {} =>
        /\ DOMAIN tracer'.writeset \subseteq evm'.dirty
        /\ {key} \ evm.dirty \subseteq DOMAIN tracer'.readset
  BY <1>1 DEF RecordInv
<1> QED
  BY <1>1, <1>2, OpcodeRecords

(* An opcode that the tracer passes over, or that is one of those it is    *)
(* known to record wrongly.                                                *)
LEMMA SilentRecords ==
  ASSUME TypeInv, RecordInv,
         NEW op, NEW top, NEW second, NEW cost, NEW uses, NEW runs, NEW tags,
         Opcode(op, top, second, cost, uses, runs, tags),
         evm.dirty \subseteq evm'.dirty,
         tags \cap Unrecorded = {} => tracer' = tracer /\ uses = {}
  PROVE  RecordInv'
<1>1. CASE tags \cap Unrecorded = {}
  BY <1>1, OpcodeRecords DEF RecordInv
<1>2. CASE tags \cap Unrecorded # {}
  BY <1>2 DEF RecordInv, Opcode
<1> QED
  BY <1>1, <1>2

(* Every step of a run keeps the invariant of the read set.                *)
LEMMA NextRecords == ASSUME TypeInv, RecordInv, [Next]_vars PROVE RecordInv'
<1>wrote. \A db, keys : /\ Wrote(db, keys).dirty = evm.dirty \cup keys
                        /\ evm.dirty \subseteq Wrote(db, keys).dirty
  BY DEF Wrote
<1>tags. {"VALUECALL", "CREATE", "SELFDESTRUCT", "REVERT", "SELFBALANCE", "BLINDSTORE"}
           \subseteq Unrecorded
  BY DEF Unrecorded, Misbooked
<1>1. CASE UNCHANGED vars
  BY <1>1 DEF vars, RecordInv
<1>2. CASE TxStart
  <2> DEFINE K == {BalanceKey(msg.sender), BalanceKey(msg.feePayer), NonceKey(msg.sender),
                   BalanceKey(msg.to)}
  <2>1. /\ msg' = msg /\ evm'.dirty = K /\ observed' = K \cup codes'
        /\ tracer' = CaptureStart(tracer, parent, msg, parent[msg.sender].codeSize > 0)
    BY <1>2 DEF TxStart
  <2>2. (parent[msg.sender].codeSize > 0) = FALSE
    <3>1. parent[msg.sender].codeSize = 0
      BY RunTypes DEF TypeInv
    <3> QED
      BY <3>1
  <2>3. Booked(tracer, tracer', parent, K)
    BY <2>1, <2>2, RunTypes, StartBooks DEF TypeInv
  <2>4. DOMAIN tracer.writeset = {}
    BY <1>2 DEF TypeInv, TxStart, Started, NewAccessListTracer, Tracer
  <2>5. /\ K \subseteq DOMAIN tracer'.readset /\ DOMAIN tracer'.writeset = K
    BY <2>3, <2>4 DEF Booked
  <2> QED
    BY <2>1, <2>5 DEF RecordInv
<1>3. CASE SelfBalance
  BY <1>3, <1>tags, SilentRecords DEF SelfBalance
<1>4. CASE Return
  <2>1. UNCHANGED <<msg, tracer, phase, met, observed, codes>>
    BY <1>4 DEF Return
  <2>2. evm.dirty \subseteq evm'.dirty
    BY <1>4, <1>wrote DEF Return
  <2> QED
    BY <2>1, <2>2 DEF RecordInv
<1>5. CASE Fail
  BY <1>5, <1>tags DEF Fail, RecordInv
<1>6. CASE TxEnd
  <2> DEFINE rest == gas * msg.gasPrice
             K == IF msg.ratio = NoRatio THEN {BalanceKey(msg.feePayer)}
                  ELSE {BalanceKey(msg.feePayer), BalanceKey(msg.sender)}
  <2>1. rest \in Nat /\ parent \in StateDB /\ msg \in Message /\ BooksOK(tracer, parent)
    <3>1. gas \in Nat /\ msg.gasPrice \in Nat
      BY RunTypes DEF TypeInv, TypeOK
    <3>2. rest \in Nat
      BY <3>1, Products
    <3> QED
      BY <3>2, RunTypes DEF TypeInv
  <2>2. /\ UNCHANGED <<msg, met, observed, codes>> /\ phase = "run" /\ phase' = "done"
        /\ tracer' = ChargeFee(tracer, parent, msg, rest, -1)
        /\ evm'.dirty = evm.dirty \cup {}
    BY <1>6, <1>wrote DEF TxEnd, CaptureTxEnd
  <2> HIDE DEF rest
  <2>3. Booked(tracer, tracer', parent, K)
    BY <2>1, <2>2, FeeBooks
  <2>4. K \subseteq {BalanceKey(msg.sender), BalanceKey(msg.feePayer)}
    OBVIOUS
  <2> HIDE DEF K
  <2> QED
    BY <2>2, <2>3, <2>4 DEF RecordInv, Booked
<1>7. ASSUME NEW slot \in Slots, Sload(slot) PROVE RecordInv'
  <2> DEFINE key == ToStorageKey(Current.addr, slot)
  <2>1. frames # <<>> /\ tracer' = Read(tracer, parent, key)
    BY <1>7 DEF Sload, Opcode, CaptureState
  <2>2. key \in StorageKeys
    BY <2>1, CurrentType, KeyTypes DEF OpenFrame
  <2>3. Opcode("SLOAD", slot, 0, 1, {key}, {}, {}) /\ evm' = evm
    BY <1>7 DEF Sload
  <2> HIDE DEF key
  <2> QED
    BY <2>1, <2>2, <2>3, ReadRecords
<1>8. ASSUME NEW slot \in Slots, NEW word \in {0, 1}, Sstore(slot, word) PROVE RecordInv'
  <2> DEFINE key == ToStorageKey(Current.addr, slot)
             cost == SstoreCost(GetValue(key, evm.db), word)
             tags == IF key \in observed \cup evm.dirty THEN {} ELSE {"BLINDSTORE"}
  <2>1. /\ Opcode("SSTORE", slot, word, cost, {key}, {}, tags)
        /\ evm' = Wrote(SetValue(key, evm.db, word), {key})
        /\ frames # <<>>
        /\ tracer' = Set(tracer, key, word)
    BY <1>8 DEF Sstore, Opcode, CaptureState
  <2>2. key \in StorageKeys \ CodeKeys /\ word \in Word
    BY <2>1, CurrentType, KeyTypes, CodeKeyTypes, SizeAssumption DEF OpenFrame, Word
  <2>3. tags \cap Unrecorded = {} => key \in observed \cup evm.dirty
    BY <1>tags
  <2> HIDE DEF key, cost, tags
  <2>4. /\ tracer'.readset = tracer.readset
        /\ DOMAIN tracer'.writeset = DOMAIN tracer.writeset \cup {key}
    BY <2>1, <2>2, RunTypes, SetBooks DEF TypeInv
  <2>5. evm'.dirty = evm.dirty \cup {key}
    BY <1>wrote, <2>1
  <2>6. tags \cap Unrecorded = {} /\ met \cap Unrecorded = {} =>
          /\ DOMAIN tracer'.writeset \subseteq evm'.dirty
          /\ {key} \ evm.dirty \subseteq DOMAIN tracer'.readset
    <3>1. codes \subseteq CodeKeys
      BY DEF TypeInv, TypeOK
    <3> QED
      BY <2>2, <2>3, <2>4, <2>5, <3>1 DEF RecordInv
  <2> QED
    BY <2>1, <2>4, <2>5, <2>6, OpcodeRecords
<1>9. ASSUME NEW addr \in Addrs, Balance(addr) PROVE RecordInv'
  <2>1. tracer' = Read(tracer, parent, BalanceKey(addr))
    BY <1>9 DEF Balance, Opcode, CaptureState
  <2> QED
    BY <1>9, <2>1, KeyTypes, ReadRecords DEF Balance
<1>10. ASSUME NEW addr \in Addrs, NEW op \in {"EXTCODECOPY", "EXTCODEHASH", "EXTCODESIZE"},
              ExtCode(op, addr)
       PROVE  RecordInv'
  <2> DEFINE slot == CASE op = "EXTCODECOPY" -> "codecopy"
                       [] op = "EXTCODEHASH" -> "codehash"
                       [] op = "EXTCODESIZE" -> "codesize"
             key == ToStorageKey(addr, slot)
  <2>1. tracer' = Read(tracer, parent, key)
    BY <1>10 DEF ExtCode, Opcode, CaptureState
  <2>2. slot \in SpecialSlots
    BY DEF SpecialSlots
  <2>3. Opcode(op, addr, 0, 1, {key}, {}, {}) /\ evm' = evm
    BY <1>10 DEF ExtCode
  <2> HIDE DEF slot
  <2>4. key \in StorageKeys
    BY <2>2, KeyTypes
  <2> HIDE DEF key
  <2> QED
    BY <2>1, <2>3, <2>4, ReadRecords
<1>11. ASSUME NEW addr \in Addrs, DelegateCall(addr) PROVE RecordInv'
  <2>1. tracer' = tracer
    BY <1>11 DEF DelegateCall, Opcode, CaptureState
  <2> QED
    BY <1>11, <2>1, SilentRecords DEF DelegateCall
<1>12. ASSUME NEW addr \in Addrs, SelfDestruct(addr) PROVE RecordInv'
  BY <1>12, <1>wrote, <1>tags, SilentRecords DEF SelfDestruct
<1>13. ASSUME NEW addr \in Addrs, NEW sum \in Sums, Create(addr, sum) PROVE RecordInv'
  BY <1>13, <1>wrote, <1>tags, SilentRecords DEF Create
<1>call. ASSUME NEW sum \in Sums, NEW op \in {"CALL", "CALLCODE"}, frames # <<>>,
                tracer' = CaptureState(tracer, parent, Current, op, GasAddress, 0),
                CallTag(sum) \cap Unrecorded = {}
         PROVE  tracer' = tracer /\ sum = 0
  <2>1. sum \in Nat /\ Current.value \in Nat
    BY <1>call, SumsAssumption, CurrentType DEF OpenFrame
  <2>2. ~(sum > 0) /\ ~(Current.value > 0)
    BY <1>tags, <1>call DEF CallTag
  <2>3. sum = 0 /\ Current.value = 0
    BY <2>1, <2>2
  <2> QED
    BY <1>call, <2>3, CallBooks
<1>14. ASSUME NEW addr \in Addrs, NEW sum \in Sums, Call(addr, sum) PROVE RecordInv'
  <2> DEFINE uses == IF sum > 0 THEN {BalanceKey(Current.addr), BalanceKey(addr)} ELSE {}
  <2>1. /\ Opcode("CALL", GasAddress, 0, 1, uses, {CodeKey(addr)}, CallTag(sum)) /\ frames # <<>>
        /\ tracer' = CaptureState(tracer, parent, Current, "CALL", GasAddress, 0)
        /\ evm.dirty \subseteq evm'.dirty
    BY <1>14, <1>wrote DEF Call, Opcode
  <2>2. CallTag(sum) \cap Unrecorded = {} => tracer' = tracer /\ uses = {}
    BY <1>call, <2>1
  <2> HIDE DEF uses
  <2> QED
    BY <2>1, <2>2, SilentRecords
<1>15. ASSUME NEW addr \in Addrs, NEW sum \in Sums, CallCode(addr, sum) PROVE RecordInv'
  <2> DEFINE uses == IF sum > 0 THEN {BalanceKey(Current.addr)} ELSE {}
  <2>1. /\ Opcode("CALLCODE", GasAddress, 0, 1, uses, {CodeKey(addr)}, CallTag(sum)) /\ frames # <<>>
        /\ tracer' = CaptureState(tracer, parent, Current, "CALLCODE", GasAddress, 0)
        /\ evm.dirty \subseteq evm'.dirty
    BY <1>15 DEF CallCode, Opcode
  <2>2. CallTag(sum) \cap Unrecorded = {} => tracer' = tracer /\ uses = {}
    BY <1>call, <2>1
  <2> HIDE DEF uses
  <2> QED
    BY <2>1, <2>2, SilentRecords
<1>16. ASSUME NEW sum \in Sums, CallUnpaid(sum) PROVE RecordInv'
  <2>1. /\ Opcode("CALL", GasAddress, 0, 1, {BalanceKey(Current.addr)}, {}, CallTag(sum))
        /\ frames # <<>> /\ evm' = evm /\ sum > evm.db[Current.addr].balance
        /\ tracer' = CaptureState(tracer, parent, Current, "CALL", GasAddress, 0)
    BY <1>16 DEF CallUnpaid, Opcode
  <2>2. Current.addr \in Addrs /\ evm.db \in StateDB
    BY <2>1, CurrentType DEF OpenFrame, TypeInv, EvmOK, EvmState
  <2>3. evm.db[Current.addr].balance \in Nat
    BY <2>2 DEF StateDB, Account
  <2>4. sum # 0
    BY <2>1, <2>3
  <2>5. CallTag(sum) \cap Unrecorded # {}
    BY <1>call, <2>1, <2>4
  <2> QED
    BY <2>1, <2>5, SilentRecords
<1> QED
  BY <1>1, <1>2, <1>3, <1>4, <1>5, <1>6, <1>7, <1>8, <1>9, <1>10, <1>11, <1>12, <1>13,
     <1>14, <1>15, <1>16 DEF Next, Terminated

(* ObservedIsRecorded: unless it met one of the opcodes that are not       *)
(* recorded, a run has in its read set every key of the parent state on    *)
(* which it depended, whatever code it executed, save the codes that were  *)
(* run, and no run's write set names the key of a code.                    *)
THEOREM ObservedKeysAreRecorded == Spec => []ObservedIsRecorded
<1>1. Init => RecordInv
  BY DEF Init, RecordInv, NewAccessListTracer, Tracer
<1>2. TypeInv /\ RecordInv => ObservedIsRecorded
  BY DEF TypeInv, BooksOK, RecordInv, ObservedIsRecorded
<1> QED
  BY InitTypes, NextTypes, NextRecords, <1>1, <1>2, PTL DEF Spec

-----------------------------------------------------------------------------
(* The write set.                                                          *)

(* A payment of nothing changes nothing.                                   *)
LEMMA PayNothing ==
  ASSUME NEW db \in Ledger, NEW a \in Addrs
  PROVE  Pay(db, a, 0) = db
<1>1. db[a] \in Debtor
  BY DEF Ledger
<1>2. [db[a] EXCEPT !.balance = db[a].balance - 0] = db[a]
  BY <1>1 DEF Debtor
<1>3. Pay(db, a, 0) = [db EXCEPT ![a] = [db[a] EXCEPT !.balance = db[a].balance - 0]]
  BY DEF Pay
<1> QED
  BY <1>2, <1>3 DEF Ledger

(* Nor does a transfer of nothing, as a call without value makes it.       *)
LEMMA MoveNothing ==
  ASSUME NEW db \in StateDB, NEW from \in Addrs, NEW to \in Addrs
  PROVE  Move(db, from, to, 0) = db
<1>1. db \in Ledger
  BY StateIsLedger
<1>2. \A n \in Int : n <= 0 /\ n >= 0 => -n = 0
  OBVIOUS
<1>4. 0 \in Int /\ 0 <= 0 /\ 0 >= 0
  OBVIOUS
<1>3. -0 = 0
  BY <1>2, <1>4, Zenon
<1> QED
  BY <1>1, <1>3, PayNothing DEF Move

(* As long as no balance leaves the range of a word, updateAndSetBalance   *)
(* does to what the write set stands for what the payment does to the      *)
(* state (tracer.go:405-420).                                              *)
LEMMA BalanceExact ==
  ASSUME NEW p \in StateDB, NEW t, BooksOK(t, p), NEW a \in Addrs, NEW v \in Int,
         NEW db, db = WriteBack(t.writeset, p),
         db[a].balance \in Word, db[a].balance - v \in Word
  PROVE  LET u == UpdateAndSetBalance(t, p, a, v)
         IN  BooksOK(u, p) /\ WriteBack(u.writeset, p) = Pay(db, a, v)
<1> DEFINE key == BalanceKey(a)
<1>1. db \in StateDB
  BY WriteBackType DEF BooksOK
<1>2. Get(t, p, key) = db[a].balance
  <2>1. CASE key \in DOMAIN t.writeset
    BY <2>1 DEF Get, WriteBack
  <2>2. CASE key \notin DOMAIN t.writeset
    <3>1. db[a].balance = p[a].balance
      BY <2>2 DEF WriteBack
    <3>2. Get(t, p, key) = GetValue(key, p)
      BY <2>2 DEF Get, BooksOK
    <3>3. GetValue(key, p) = BigToHash(p[a].balance)
      BY DEF GetValue, BalanceKey, ToStorageKey
    <3> QED
      BY <3>1, <3>2, <3>3, HashOfWord DEF Word
  <2> QED
    BY <2>1, <2>2
<1>3. BigToHash(db[a].balance - v) = db[a].balance - v
  BY HashOfWord DEF Word
<1>4. SetValue(key, db, db[a].balance - v) = Pay(db, a, v)
  BY DEF SetValue, Pay, BalanceKey, ToStorageKey
<1> QED
  BY <1>2, <1>3, <1>4, BalanceBooks DEF Booked

(* updateAndSetNonce does to the write set what the EVM does to the nonce, *)
(* for a nonce in the range of int64 (tracer.go:422-425,                   *)
(* storage_key.go:62-64).                                                  *)
LEMMA NonceExact ==
  ASSUME NEW p \in StateDB, NEW t, BooksOK(t, p), NEW a \in Addrs,
         NEW db, db = WriteBack(t.writeset, p),
         NonceKey(a) \notin DOMAIN t.writeset,
         p[a].nonce \in Nat, 2 * (p[a].nonce + 1) < NonceSize
  PROVE  LET u == UpdateAndSetNonce(t, p, a)
         IN  /\ BooksOK(u, p)
             /\ WriteBack(u.writeset, p) = [db EXCEPT ![a].nonce = @ + 1]
<1> DEFINE key == NonceKey(a)
           n == p[a].nonce
<1>1. /\ n \in Nat /\ 2 * n < NonceSize
      /\ n \in 0 .. NonceSize - 1 /\ n + 1 \in 0 .. NonceSize - 1
      /\ n \in 0 .. WordSize - 1 /\ n + 1 \in 0 .. WordSize - 1
  BY SizeAssumption
<1>2. db[a].nonce = n
  BY <1>1, NonceOfWord DEF WriteBack
<1>3. Get(t, p, key) = n
  <2>1. Get(t, p, key) = GetValue(key, p)
    BY DEF Get, BooksOK
  <2>2. GetValue(key, p) = BigToHash(Int64(n))
    BY DEF GetValue, NonceKey, ToStorageKey
  <2>3. Int64(n) = n
    BY <1>1 DEF Int64
  <2> QED
    BY <1>1, <2>1, <2>2, <2>3, HashOfWord
<1>4. BigToHash(n + 1) = n + 1 /\ (n + 1) % NonceSize = n + 1
  BY <1>1, HashOfWord, NonceOfWord
<1>5. SetValue(key, db, n + 1) = [db EXCEPT ![a].nonce = (n + 1) % NonceSize]
  BY DEF SetValue, NonceKey, ToStorageKey
<1>6. [db EXCEPT ![a].nonce = n + 1] = [db EXCEPT ![a].nonce = @ + 1]
  BY <1>2
<1>7. LET u == UpdateAndSetNonce(t, p, a)
      IN  /\ Booked(t, u, p, {key})
          /\ WriteBack(u.writeset, p) = SetValue(key, db, BigToHash(Get(t, p, key) + 1))
  BY NonceBooks
<1> QED
  BY <1>3, <1>4, <1>5, <1>6, <1>7 DEF Booked

(* The fee, shared or not, charged or given back.                          *)
LEMMA FeeExact ==
  ASSUME NEW p \in StateDB, NEW t, BooksOK(t, p), NEW m \in Message,
         NEW fee \in Nat, NEW sign \in {1, -1},
         NEW db, db = WriteBack(t.writeset, p),
         \A a \in Addrs : db[a].balance < WordSize,
         sign = 1 => \A a \in Addrs : Fee(db, m, fee, sign)[a].balance >= 0,
         sign = -1 => \A a \in Addrs : db[a].balance + fee < WordSize
  PROVE  WriteBack(ChargeFee(t, p, m, fee, sign).writeset, p) = Fee(db, m, fee, sign)
<1>1. /\ db \in StateDB /\ db \in Ledger
      /\ m.feePayer \in Addrs /\ m.sender \in Addrs /\ m.ratio \in 0 .. 99
  BY WriteBackType, StateIsLedger DEF BooksOK, Message
<1>2. PICK x \in 0 .. fee, y \in 0 .. fee : Charged(db, m, fee, sign, x, y)
  BY <1>1, FeeFields
<1> DEFINE sx == sign * x
           sy == sign * y
           d == Pay(db, m.feePayer, sx)
           e == Fee(db, m, fee, sign)
<1>3. \A a \in Addrs : db[a].balance \in Nat
  BY <1>1 DEF StateDB, Account
<1>4. /\ sx \in Int /\ sy \in Int
      /\ sign = 1 => sx = x /\ sy = y
      /\ sign = -1 => sx = -x /\ sy = -y
  BY <1>2
<1>5. e = Pay(d, m.sender, sy) /\ x + y = fee
  BY <1>2 DEF Charged
<1> HIDE DEF sx, sy
<1>6. /\ d \in Ledger
      /\ \A b \in Addrs : d[b].balance = IF b = m.feePayer THEN db[m.feePayer].balance - sx
                                          ELSE db[b].balance
  BY <1>1, <1>4, PayFields
<1> HIDE DEF d
<1>8. sign = 1 => \A b \in Addrs : e[b].balance >= 0
  OBVIOUS
<1> HIDE DEF e
<1>7. \A b \in Addrs : e[b].balance = IF b = m.sender THEN d[m.sender].balance - sy
                                      ELSE d[b].balance
  <2>1. d \in Ledger /\ m.sender \in Addrs /\ sy \in Int
    BY <1>1, <1>4, <1>6
  <2>2. \A b \in Addrs : Pay(d, m.sender, sy)[b].balance =
                           IF b = m.sender THEN d[m.sender].balance - sy ELSE d[b].balance
    BY <2>1, PayFields
  <2> QED
    BY <1>5, <2>2
<1>9. \A b \in Addrs : d[b].balance \in Word /\ e[b].balance \in Word /\ db[b].balance \in Word
  <2> SUFFICES ASSUME NEW b \in Addrs
               PROVE  d[b].balance \in Word /\ e[b].balance \in Word /\ db[b].balance \in Word
    OBVIOUS
  <2>1. /\ d[b].balance \in {db[b].balance, db[b].balance - sx}
        /\ e[b].balance \in {d[b].balance, d[b].balance - sy}
        /\ db[b].balance \in Nat /\ db[b].balance < WordSize
        /\ WordSize \in Nat
        /\ x \in Nat /\ y \in Nat /\ fee \in Nat /\ x + y = fee
    BY <1>3, <1>5, <1>6, <1>7, SizeAssumption
  <2>2. CASE sign = 1
    <3>1. e[b].balance >= 0 /\ sx = x /\ sy = y
      BY <1>4, <1>8, <2>2
    <3> QED
      BY <2>1, <3>1 DEF Word
  <2>3. CASE sign = -1
    <3>1. db[b].balance + fee < WordSize /\ sx = -x /\ sy = -y
      BY <1>4, <2>3
    <3> QED
      BY <2>1, <3>1 DEF Word
  <2> QED
    BY <2>2, <2>3
<1> DEFINE u == UpdateAndSetBalance(t, p, m.feePayer, sx)
           v == UpdateAndSetBalance(u, p, m.sender, sy)
<1>10. db[m.feePayer].balance - sx \in Word /\ d[m.sender].balance - sy \in Word
  BY <1>1, <1>6, <1>7, <1>9
<1>11. BooksOK(u, p) /\ WriteBack(u.writeset, p) = d
  BY <1>1, <1>4, <1>9, <1>10, BalanceExact DEF d
<1>12. CASE m.ratio = NoRatio
  <2>1. sx = sign * fee /\ sy = 0
    BY <1>2, <1>12 DEF Charged, sx, sy
  <2>2. e = d
    BY <1>1, <1>5, <1>6, <2>1, PayNothing
  <2>3. ChargeFee(t, p, m, fee, sign) = u
    BY <1>12, <2>1 DEF ChargeFee
  <2> QED
    BY <1>11, <2>2, <2>3 DEF e
<1>13. CASE m.ratio # NoRatio
  <2>1. ChargeFee(t, p, m, fee, sign) = v
    BY <1>2, <1>13 DEF ChargeFee, Charged, sx, sy
  <2> HIDE DEF u
  <2>2. WriteBack(v.writeset, p) = Pay(d, m.sender, sy)
    BY <1>1, <1>4, <1>9, <1>10, <1>11, BalanceExact
  <2> QED
    BY <1>5, <2>1, <2>2 DEF e
<1> QED
  BY <1>12, <1>13

\* The state after the start of a run: fee, nonce and value.
Bought == [GasBought(parent, msg) EXCEPT ![msg.sender].nonce = @ + 1]
StartState == Move(Bought, msg.sender, msg.to, msg.value)

(* At the start of a run the write set stands for the state in which fee   *)
(* and value are paid and the nonce is counted, and no balance is out of   *)
(* range (tracer.go:91-120).                                               *)
LEMMA StartWritten ==
  ASSUME TypeInv, TxStart
  PROVE  /\ WriteBack(tracer'.writeset, parent) = StartState
         /\ \A a \in Addrs : StartState[a].balance <= parent[a].balance + msg.value
         /\ Bought \in Ledger /\ GasBought(parent, msg) \in Ledger
         /\ \A a \in Addrs : Bought[a].balance = GasBought(parent, msg)[a].balance
<1>1. /\ msg \in Message /\ parent \in StateDB
      /\ msg.sender \in Addrs /\ msg.feePayer \in Addrs /\ msg.to \in Addrs
      /\ msg.gas \in Nat /\ msg.gasPrice \in Nat /\ msg.value \in Nat
      /\ msg.gas * msg.gasPrice \in Nat
      /\ \A a \in Addrs : parent[a].nonce \in Nat /\ parent[a].balance \in Nat
  BY RunTypes, Products DEF TypeInv
<1>2. Affordable(parent, msg) /\ tracer = NewAccessListTracer /\ BooksOK(tracer, parent)
  BY DEF TypeInv, TxStart, Started
<1> DEFINE cost == msg.gas * msg.gasPrice
           fee == Fee(parent, msg, cost, 1)
           bought == [fee EXCEPT ![msg.sender].nonce = @ + 1]
           paid == Pay(bought, msg.sender, msg.value)
           moved == Pay(paid, msg.to, -msg.value)
           u == ChargeFee(tracer, parent, msg, cost, 1)
           v == UpdateAndSetNonce(u, parent, msg.sender)
           w == UpdateAndSetBalance(v, parent, msg.sender, msg.value)
           z == UpdateAndSetBalance(w, parent, msg.to, -msg.value)
<1>4. /\ StartState = moved /\ Bought = bought /\ GasBought(parent, msg) = fee
      /\ tracer' = z
  <2>1. (parent[msg.sender].codeSize > 0) = FALSE
    <3>1. parent[msg.sender].codeSize = 0
      BY RunTypes DEF TypeInv
    <3> QED
      BY <3>1
  <2> QED
    BY <2>1 DEF TxStart, GasBought, Move, CaptureStart, Transfer, Bought, StartState
<1>5. /\ WriteBack(tracer.writeset, parent) = parent
      /\ DOMAIN tracer.writeset = {}
  BY <1>1, <1>2, WriteBackNothing DEF NewAccessListTracer, Tracer
<1>6. \A a \in Addrs : /\ parent[a].balance < WordSize
                       /\ parent[a].balance + msg.value < WordSize
                       /\ 2 * (parent[a].nonce + 1) < NonceSize
  <2> SUFFICES ASSUME NEW a \in Addrs
               PROVE  /\ parent[a].balance < WordSize
                      /\ parent[a].balance + msg.value < WordSize
                      /\ 2 * (parent[a].nonce + 1) < NonceSize
    OBVIOUS
  <2>1. /\ 2 * (parent[a].nonce + msg.gas + 1) < NonceSize
        /\ parent[a].balance + msg.value + cost < WordSize
    BY RunBounds DEF TypeInv
  <2>2. cost \in Nat /\ parent[a].balance \in Nat /\ parent[a].nonce \in Nat
    BY <1>1
  <2> HIDE DEF cost
  <2> QED
    BY <1>1, <2>1, <2>2, SizeAssumption
<1> HIDE DEF cost
<1>7. /\ \A a \in Addrs : fee[a].balance >= 0
      /\ Pay(fee, msg.sender, msg.value)[msg.sender].balance >= 0
  BY <1>1, <1>2 DEF Affordable, GasBought, cost
<1>8. PICK x \in 0 .. cost, y \in 0 .. cost : Charged(parent, msg, cost, 1, x, y)
  <2>1. parent \in Ledger /\ cost \in Nat
    BY <1>1, StateIsLedger DEF cost
  <2> QED
    BY <1>1, <2>1, FeeFields
<1>9. /\ fee \in Ledger
      /\ \A a \in Addrs : fee[a].balance \in 0 .. parent[a].balance
      /\ fee[msg.sender].nonce = parent[msg.sender].nonce
  <2>1. /\ fee \in Ledger /\ OnlyBalances(parent, fee)
        /\ \A a \in Addrs :
             fee[a].balance = parent[a].balance - (IF a = msg.feePayer THEN 1 * x ELSE 0)
                                                - (IF a = msg.sender THEN 1 * y ELSE 0)
    BY <1>8 DEF Charged
  <2> HIDE DEF fee
  <2>2. x \in Nat /\ y \in Nat
    BY <1>1 DEF cost
  <2>3. ASSUME NEW a \in Addrs PROVE fee[a].balance \in 0 .. parent[a].balance
    <3>1. /\ (IF a = msg.feePayer THEN 1 * x ELSE 0) \in Nat
          /\ (IF a = msg.sender THEN 1 * y ELSE 0) \in Nat
      BY <2>2
    <3> QED
      BY <1>1, <1>7, <2>1, <3>1
  <2> QED
    BY <1>1, <2>1, <2>3 DEF OnlyBalances
<1>10. WriteBack(u.writeset, parent) = fee
  <2>1. cost \in Nat /\ 1 \in {1, -1} /\ 1 # -1
    BY <1>1 DEF cost
  <2> QED
    BY <1>1, <1>2, <1>5, <1>6, <1>7, <2>1, FeeExact
<1>11. BooksOK(u, parent) /\ NonceKey(msg.sender) \notin DOMAIN u.writeset
  <2>1. Booked(tracer, u, parent,
               IF msg.ratio = NoRatio THEN {BalanceKey(msg.feePayer)}
               ELSE {BalanceKey(msg.feePayer), BalanceKey(msg.sender)})
    <3>1. cost \in Nat /\ 1 \in {1, -1}
      BY <1>1 DEF cost
    <3> QED
      BY <1>1, <1>2, <3>1, FeeBooks
  <2>2. \A a \in Addrs : NonceKey(msg.sender) # BalanceKey(a)
    BY DEF NonceKey, BalanceKey, ToStorageKey
  <2> QED
    BY <1>1, <1>5, <2>1, <2>2 DEF Booked
<1> HIDE DEF u, fee
<1>12. BooksOK(v, parent) /\ WriteBack(v.writeset, parent) = bought
  <2>1. /\ parent \in StateDB /\ msg.sender \in Addrs /\ parent[msg.sender].nonce \in Nat
        /\ 2 * (parent[msg.sender].nonce + 1) < NonceSize
    BY <1>1, <1>6
  <2> QED
    BY <1>10, <1>11, <2>1, NonceExact
<1>13. /\ bought \in Ledger
       /\ \A a \in Addrs : bought[a].balance = fee[a].balance
  <2> DEFINE acc == [fee[msg.sender] EXCEPT !.nonce = fee[msg.sender].nonce + 1]
  <2>1. fee[msg.sender] \in Debtor /\ fee[msg.sender].nonce + 1 \in 0 .. NonceSize - 1
    BY <1>1, <1>6, <1>9, SizeAssumption DEF Ledger
  <2>2. acc \in Debtor /\ acc.balance = fee[msg.sender].balance
    BY <2>1 DEF Debtor
  <2>3. bought = [fee EXCEPT ![msg.sender] = acc]
    OBVIOUS
  <2> HIDE DEF acc
  <2>4. bought \in Ledger /\ \A a \in Addrs : bought[a] = IF a = msg.sender THEN acc ELSE fee[a]
    BY <1>1, <1>9, <2>2, <2>3 DEF Ledger
  <2> HIDE DEF bought
  <2> QED
    BY <2>2, <2>4
<1> HIDE DEF v, bought
<1>14. /\ paid \in Ledger
       /\ \A b \in Addrs : paid[b].balance = IF b = msg.sender
                                              THEN bought[msg.sender].balance - msg.value
                                              ELSE bought[b].balance
  <2>1. bought \in Ledger /\ msg.sender \in Addrs /\ msg.value \in Int
    BY <1>1, <1>13
  <2> QED
    BY <2>1, PayFields
<1> HIDE DEF paid
<1>15. \A b \in Addrs : /\ bought[b].balance \in Word /\ paid[b].balance \in Word
                        /\ paid[b].balance <= parent[b].balance
  <2>1. fee[msg.sender].balance - msg.value >= 0
    <3>1. /\ msg.sender \in Addrs /\ msg.value \in Int
      BY <1>1
    <3>2. \A b \in Addrs :
            Pay(fee, msg.sender, msg.value)[b].balance =
              IF b = msg.sender THEN fee[msg.sender].balance - msg.value ELSE fee[b].balance
      BY <1>9, <3>1, PayFields
    <3> QED
      BY <1>7, <3>1, <3>2
  <2> SUFFICES ASSUME NEW b \in Addrs
               PROVE  /\ bought[b].balance \in Word /\ paid[b].balance \in Word
                      /\ paid[b].balance <= parent[b].balance
    OBVIOUS
  <2>2. /\ bought[b].balance = fee[b].balance /\ fee[b].balance \in 0 .. parent[b].balance
        /\ parent[b].balance \in Nat /\ parent[b].balance < WordSize /\ WordSize \in Nat
    BY <1>1, <1>6, <1>9, <1>13, SizeAssumption
  <2>3. CASE b = msg.sender
    BY <1>1, <1>14, <2>1, <2>2, <2>3 DEF Word
  <2>4. CASE b # msg.sender
    BY <1>14, <2>2, <2>4 DEF Word
  <2> QED
    BY <2>3, <2>4
<1>16. BooksOK(w, parent) /\ WriteBack(w.writeset, parent) = paid
  <2>1. bought[msg.sender].balance - msg.value \in Word
    BY <1>1, <1>14, <1>15
  <2> QED
    BY <1>1, <1>12, <1>15, <2>1, BalanceExact DEF paid
<1> HIDE DEF w
<1> DEFINE minus == -msg.value
<1>17. /\ minus \in Int
       /\ paid[msg.to].balance - minus \in Word
       /\ paid[msg.to].balance - minus <= parent[msg.to].balance + msg.value
  <2>1. /\ paid[msg.to].balance \in Nat /\ paid[msg.to].balance <= parent[msg.to].balance
        /\ parent[msg.to].balance \in Nat /\ parent[msg.to].balance + msg.value < WordSize
        /\ WordSize \in Nat
    BY <1>1, <1>6, <1>15, SizeAssumption DEF Word
  <2> QED
    BY <1>1, <2>1 DEF Word
<1>18. z = UpdateAndSetBalance(w, parent, msg.to, minus) /\ moved = Pay(paid, msg.to, minus)
  OBVIOUS
<1> HIDE DEF minus, z, moved
<1>19. WriteBack(z.writeset, parent) = moved
  BY <1>1, <1>15, <1>16, <1>17, <1>18, BalanceExact
<1>20. \A a \in Addrs : moved[a].balance <= parent[a].balance + msg.value
  <2>1. \A b \in Addrs : moved[b].balance = IF b = msg.to THEN paid[msg.to].balance - minus
                                            ELSE paid[b].balance
    <3>1. paid \in Ledger /\ msg.to \in Addrs /\ minus \in Int
      BY <1>1, <1>14, <1>17
    <3>2. \A b \in Addrs : Pay(paid, msg.to, minus)[b].balance =
                             IF b = msg.to THEN paid[msg.to].balance - minus ELSE paid[b].balance
      BY <3>1, PayFields
    <3> QED
      BY <1>18, <3>2
  <2> SUFFICES ASSUME NEW a \in Addrs PROVE moved[a].balance <= parent[a].balance + msg.value
    OBVIOUS
  <2>2. CASE a = msg.to
    BY <1>17, <2>1, <2>2
  <2>3. CASE a # msg.to
    <3>1. /\ moved[a].balance = paid[a].balance /\ paid[a].balance <= parent[a].balance
          /\ paid[a].balance \in Int /\ parent[a].balance \in Int /\ msg.value \in Nat
      BY <1>1, <1>15, <2>1, <2>3 DEF Word
    <3> QED
      BY <3>1
  <2> QED
    BY <2>2, <2>3
<1> QED
  BY <1>4, <1>9, <1>13, <1>19, <1>20

(* The start of a run: fee, nonce and value.                               *)
LEMMA StartExact ==
  ASSUME TypeInv, ExactInv, TxStart
  PROVE  ExactInv'
<1> SUFFICES ASSUME met' \cap Misbooked = {}
             PROVE  ExactInv'
  BY DEF ExactInv
<1>1. ~msg.create
  <2>1. msg.create => "CREATE" \in met'
    BY DEF TxStart
  <2> QED
    BY <2>1 DEF Misbooked
<1>2. /\ msg' = msg /\ parent' = parent
      /\ evm'.db = StartState
      /\ Len(frames') = 1 /\ frames'[1].create = msg.create
  BY <1>1 DEF TxStart, StartState, Bought
<1> QED
  BY <1>1, <1>2, StartWritten DEF ExactInv, Exact

(* An opcode that keeps the books exact and the balances where they are.   *)
LEMMA OpcodeExact ==
  ASSUME TypeInv, ExactInv,
         NEW op, NEW top, NEW second, NEW cost, NEW uses, NEW runs, NEW tags,
         Opcode(op, top, second, cost, uses, runs, tags),
         tags \cap Misbooked = {} =>
           /\ Exact => WriteBack(tracer'.writeset, parent) = evm'.db
           /\ \A a \in Addrs : evm'.db[a].balance = evm.db[a].balance
           /\ \A j \in 1 .. Len(frames') :
                frames'[j].create => \E i \in 1 .. Len(frames) : frames[i].create
  PROVE  ExactInv'
<1>1. met' = met \cup tags /\ phase = "run" /\ phase' = phase /\ msg' = msg /\ parent' = parent
  BY DEF Opcode
<1> SUFFICES ASSUME met' \cap Misbooked = {} PROVE ExactInv'
  BY DEF ExactInv
<1>2. tags \cap Misbooked = {} /\ met \cap Misbooked = {}
  BY <1>1
<1>3. /\ Exact /\ \A j \in 1 .. Len(frames) : ~frames[j].create
      /\ \A a \in Addrs : evm.db[a].balance <= parent[a].balance + msg.value
  BY <1>1, <1>2 DEF ExactInv
<1>4. Exact'
  BY <1>1, <1>2, <1>3 DEF Exact
<1>5. \A j \in 1 .. Len(frames') : ~frames'[j].create
  BY <1>2, <1>3
<1>6. \A a \in Addrs : evm'.db[a].balance <= parent'[a].balance + msg'.value
  BY <1>1, <1>2, <1>3
<1> QED
  BY <1>4, <1>5, <1>6 DEF ExactInv

(* An opcode that neither books nor moves anything: a read, or a call      *)
(* without value.                                                          *)
LEMMA SilentExact ==
  ASSUME TypeInv, ExactInv,
         NEW op, NEW top, NEW second, NEW cost, NEW uses, NEW runs, NEW tags,
         Opcode(op, top, second, cost, uses, runs, tags),
         tags \cap Misbooked = {} =>
           /\ tracer'.writeset = tracer.writeset /\ evm'.db = evm.db
           /\ \/ frames' = frames
              \/ \E f \in OpenFrame : ~f.create /\ Enter(f)
  PROVE  ExactInv'
<1>1. CASE tags \cap Misbooked = {}
  <2>1. Exact => WriteBack(tracer'.writeset, parent) = evm'.db
    BY <1>1 DEF Exact
  <2>2. \A j \in 1 .. Len(frames') :
          frames'[j].create => \E i \in 1 .. Len(frames) : frames[i].create
    <3>1. CASE frames' = frames
      BY <3>1
    <3>2. ASSUME NEW f \in OpenFrame, ~f.create, Enter(f),
                 NEW j \in 1 .. Len(frames'), frames'[j].create
          PROVE  \E i \in 1 .. Len(frames) : frames[i].create
      <4>1. frames \in Seq(OpenFrame)
        BY DEF TypeInv, FramesOK
      <4>2. /\ Len(frames') = Len(frames) + 1
            /\ frames'[j] = IF j = 1 THEN f ELSE frames[j - 1]
        BY <3>2, <4>1 DEF Enter
      <4>3. j # 1
        BY <3>2, <4>2
      <4>4. j - 1 \in 1 .. Len(frames) /\ frames[j - 1].create
        BY <3>2, <4>1, <4>2, <4>3
      <4> QED
        BY <4>4
    <3> QED
      BY <1>1, <3>1, <3>2
  <2> QED
    BY <1>1, <2>1, <2>2, OpcodeExact
<1>2. CASE tags \cap Misbooked # {}
  BY <1>2, OpcodeExact
<1> QED
  BY <1>1, <1>2

(* An opcode that reads leaves the write set and the EVM as they are.      *)
LEMMA ReadExact ==
  ASSUME TypeInv, ExactInv, NEW op, NEW top, NEW key \in StorageKeys, NEW tags,
         Opcode(op, top, 0, 1, {key}, {}, tags), UNCHANGED <<evm, frames>>,
         tracer' \in {tracer, Read(tracer, parent, key)}
  PROVE  ExactInv'
<1>1. tracer'.writeset = tracer.writeset
  BY RunTypes, ReadBooks DEF TypeInv
<1> QED
  BY <1>1, SilentExact

(* SSTORE sets the same word in the write set and in the EVM               *)
(* (tracer.go:123-187).                                                    *)
LEMMA SstoreExact ==
  ASSUME TypeInv, ExactInv, NEW slot \in Slots, NEW word \in {0, 1}, Sstore(slot, word)
  PROVE  ExactInv'
<1> DEFINE key == ToStorageKey(Current.addr, slot)
           cost == SstoreCost(GetValue(key, evm.db), word)
           tags == IF key \in observed \cup evm.dirty THEN {} ELSE {"BLINDSTORE"}
           db == SetValue(key, evm.db, word)
<1>1. /\ Opcode("SSTORE", slot, word, cost, {key}, {}, tags)
      /\ evm'.db = db
      /\ frames' = frames /\ frames # <<>>
      /\ tracer' = Set(tracer, key, word)
  BY DEF Sstore, Opcode, CaptureState, Wrote
<1>2. key \in StorageKeys \ CodeKeys /\ word \in Word
  BY <1>1, CurrentType, KeyTypes, CodeKeyTypes, SizeAssumption DEF OpenFrame, Word
<1>3. \A a \in Addrs : key # BalanceKey(a)
  BY SlotsAssumption DEF ToStorageKey, SpecialSlots, BalanceKey
<1> HIDE DEF key, cost, tags
<1>4. Exact => WriteBack(tracer'.writeset, parent) = evm'.db
  BY <1>1, <1>2, RunTypes, SetBooks DEF TypeInv, Exact
<1>5. \A a \in Addrs : evm'.db[a].balance = evm.db[a].balance
  <2>1. evm.db \in StateDB
    BY DEF TypeInv, EvmOK, EvmState
  <2> QED
    BY <1>1, <1>2, <1>3, <2>1, SetValueType
<1>6. \A j \in 1 .. Len(frames') :
        frames'[j].create => \E i \in 1 .. Len(frames) : frames[i].create
  BY <1>1
<1> HIDE DEF db
<1> QED
  BY <1>1, <1>4, <1>5, <1>6, OpcodeExact

(* What is left of the fee is given back.                                  *)
LEMMA EndExact == ASSUME TypeInv, ExactInv, TxEnd PROVE ExactInv'
<1> SUFFICES ASSUME met' \cap Misbooked = {} PROVE ExactInv'
  BY DEF ExactInv
<1> DEFINE rest == gas * msg.gasPrice
           db == Fee(evm.db, msg, rest, -1)
<1>1. /\ phase = "run" /\ phase' = "done" /\ UNCHANGED <<msg, parent, frames, met>>
      /\ evm'.db = db
      /\ tracer' = ChargeFee(tracer, parent, msg, rest, -1)
  BY DEF TxEnd, CaptureTxEnd, Wrote
<1>2. /\ Exact /\ \A j \in 1 .. Len(frames) : ~frames[j].create
      /\ \A a \in Addrs : evm.db[a].balance <= parent[a].balance + msg.value
  BY <1>1 DEF ExactInv
<1>3. /\ msg \in Message /\ parent \in StateDB /\ BooksOK(tracer, parent)
      /\ evm.db \in StateDB /\ gas \in 0 .. msg.gas
      /\ msg.gas \in Nat /\ msg.gasPrice \in Nat /\ msg.value \in Nat
      /\ \A a \in Addrs : parent[a].balance \in Nat
  BY RunTypes DEF TypeInv, EvmOK, EvmState, TypeOK
<1>4. rest \in Nat /\ msg.gas * msg.gasPrice \in Nat /\ rest <= msg.gas * msg.gasPrice
  BY <1>3, Products, ProductsMonotone
<1>5. \A a \in Addrs : /\ evm.db[a].balance < WordSize
                       /\ evm.db[a].balance + rest < WordSize
  <2> DEFINE cost == msg.gas * msg.gasPrice
  <2> SUFFICES ASSUME NEW a \in Addrs
               PROVE  evm.db[a].balance < WordSize /\ evm.db[a].balance + rest < WordSize
    OBVIOUS
  <2>1. evm.db[a].balance \in Nat
    BY <1>3 DEF StateDB, Account
  <2>2. parent[a].balance + msg.value + cost < WordSize
    BY RunBounds DEF TypeInv
  <2>3. cost \in Nat /\ rest \in Nat /\ rest <= cost /\ WordSize \in Nat
    BY <1>4, SizeAssumption
  <2> HIDE DEF cost, rest
  <2>4. /\ parent[a].balance \in Nat /\ msg.value \in Nat
        /\ evm.db[a].balance <= parent[a].balance + msg.value
    BY <1>2, <1>3
  <2> QED
    BY <2>1, <2>2, <2>3, <2>4
<1> HIDE DEF rest
<1>6. WriteBack(tracer'.writeset, parent) = db
  <2>1. -1 \in {1, -1} /\ -1 # 1
    OBVIOUS
  <2>2. evm.db = WriteBack(tracer.writeset, parent)
    BY <1>2 DEF Exact
  <2> QED
    BY <1>1, <1>3, <1>4, <1>5, <2>1, <2>2, FeeExact
<1> QED
  BY <1>1, <1>2, <1>6 DEF ExactInv, Exact

(* Every step of a run keeps the write set exact.                          *)
LEMMA NextExact == ASSUME TypeInv, ExactInv, [Next]_vars PROVE ExactInv'
<1>wrote. \A db, keys : Wrote(db, keys).db = db
  BY DEF Wrote
<1>tags. {"VALUECALL", "CREATE", "SELFDESTRUCT", "REVERT"} \subseteq Misbooked
  BY DEF Misbooked
<1>1. CASE UNCHANGED vars
  BY <1>1 DEF vars, ExactInv, Exact
<1>2. CASE TxStart
  BY <1>2, StartExact
<1>3. CASE SelfBalance
  <2>1. frames # <<>> /\ tracer' = tracer
    BY <1>3 DEF SelfBalance, Opcode, CaptureState
  <2> QED
    BY <1>3, <2>1, SilentExact DEF SelfBalance
<1>4. CASE Return
  <2> SUFFICES ASSUME met' \cap Misbooked = {} PROVE ExactInv'
    BY DEF ExactInv
  <2>1. UNCHANGED <<msg, parent, tracer, phase, met>> /\ phase = "run"
        /\ frames # <<>> /\ frames' = Tail(frames)
    BY <1>4 DEF Return
  <2>2. \A j \in 1 .. Len(frames) : ~frames[j].create
    BY <2>1 DEF ExactInv
  <2>3. evm' = evm
    BY <1>4, <2>1, <2>2, CurrentType DEF Return
  <2>4. \A j \in 1 .. Len(frames') : ~frames'[j].create
    <3>1. frames \in Seq(OpenFrame)
      BY DEF TypeInv, FramesOK
    <3>2. \A j \in 1 .. Len(frames') : j + 1 \in 1 .. Len(frames) /\ frames'[j] = frames[j + 1]
      BY <2>1, <3>1
    <3> QED
      BY <2>2, <3>2
  <2> QED
    BY <2>1, <2>3, <2>4 DEF ExactInv, Exact
<1>5. CASE Fail
  BY <1>5, <1>tags DEF Fail, ExactInv
<1>6. CASE TxEnd
  BY <1>6, EndExact
<1>7. ASSUME NEW slot \in Slots, Sload(slot) PROVE ExactInv'
  <2> DEFINE key == ToStorageKey(Current.addr, slot)
  <2>1. frames # <<>> /\ tracer' = Read(tracer, parent, key)
    BY <1>7 DEF Sload, Opcode, CaptureState
  <2>2. key \in StorageKeys
    BY <2>1, CurrentType, KeyTypes DEF OpenFrame
  <2>3. Opcode("SLOAD", slot, 0, 1, {key}, {}, {}) /\ UNCHANGED <<evm, frames>>
    BY <1>7 DEF Sload
  <2> HIDE DEF key
  <2> QED
    BY <2>1, <2>2, <2>3, ReadExact
<1>8. ASSUME NEW slot \in Slots, NEW word \in {0, 1}, Sstore(slot, word) PROVE ExactInv'
  BY <1>8, SstoreExact
<1>9. ASSUME NEW addr \in Addrs, Balance(addr) PROVE ExactInv'
  <2>1. tracer' = Read(tracer, parent, BalanceKey(addr))
    BY <1>9 DEF Balance, Opcode, CaptureState
  <2> QED
    BY <1>9, <2>1, KeyTypes, ReadExact DEF Balance
<1>10. ASSUME NEW addr \in Addrs, NEW op \in {"EXTCODECOPY", "EXTCODEHASH", "EXTCODESIZE"},
              ExtCode(op, addr)
       PROVE  ExactInv'
  <2> DEFINE slot == CASE op = "EXTCODECOPY" -> "codecopy"
                       [] op = "EXTCODEHASH" -> "codehash"
                       [] op = "EXTCODESIZE" -> "codesize"
             key == ToStorageKey(addr, slot)
  <2>1. tracer' = Read(tracer, parent, key)
    BY <1>10 DEF ExtCode, Opcode, CaptureState
  <2>2. slot \in SpecialSlots
    BY DEF SpecialSlots
  <2>3. Opcode(op, addr, 0, 1, {key}, {}, {}) /\ UNCHANGED <<evm, frames>>
    BY <1>10 DEF ExtCode
  <2> HIDE DEF slot
  <2>4. key \in StorageKeys
    BY <2>2, KeyTypes
  <2> HIDE DEF key
  <2> QED
    BY <2>1, <2>3, <2>4, ReadExact
<1>frame. ASSUME NEW addr \in Addrs, NEW code \in Addrs, NEW caller \in Addrs, NEW value \in Nat
         PROVE  /\ Frame(addr, code, caller, value, FALSE) \in OpenFrame
                /\ ~Frame(addr, code, caller, value, FALSE).create
  BY DEF Frame, OpenFrame, TypeInv, EvmOK
<1>11. ASSUME NEW addr \in Addrs, DelegateCall(addr) PROVE ExactInv'
  <2> DEFINE f == Frame(Current.addr, addr, Current.caller, Current.value, FALSE)
  <2>1. /\ tracer' = tracer /\ evm' = evm /\ frames # <<>> /\ Enter(f)
        /\ Opcode("DELEGATECALL", GasAddress, 0, 1, {}, {CodeKey(addr)}, {})
    BY <1>11 DEF DelegateCall, Opcode, CaptureState
  <2>2. Current.addr \in Addrs /\ Current.caller \in Addrs /\ Current.value \in Nat
    BY <2>1, CurrentType DEF OpenFrame
  <2>3. f \in OpenFrame /\ ~f.create
    BY <1>frame, <2>2
  <2> HIDE DEF f
  <2> QED
    BY <2>1, <2>3, SilentExact
<1>12. ASSUME NEW addr \in Addrs, SelfDestruct(addr) PROVE ExactInv'
  BY <1>12, <1>tags, SilentExact DEF SelfDestruct
<1>13. ASSUME NEW addr \in Addrs, NEW sum \in Sums, Create(addr, sum) PROVE ExactInv'
  BY <1>13, <1>tags, SilentExact DEF Create
<1>call. ASSUME NEW sum \in Sums, NEW op \in {"CALL", "CALLCODE"}, frames # <<>>,
                tracer' = CaptureState(tracer, parent, Current, op, GasAddress, 0),
                CallTag(sum) \cap Misbooked = {}
         PROVE  tracer' = tracer /\ sum = 0
  <2>1. sum \in Nat /\ Current.value \in Nat
    BY <1>call, SumsAssumption, CurrentType DEF OpenFrame
  <2>2. ~(sum > 0) /\ ~(Current.value > 0)
    BY <1>tags, <1>call DEF CallTag
  <2>3. sum = 0 /\ Current.value = 0
    BY <2>1, <2>2
  <2> QED
    BY <1>call, <2>3, CallBooks
<1>14. ASSUME NEW addr \in Addrs, NEW sum \in Sums, Call(addr, sum) PROVE ExactInv'
  <2> DEFINE self == Current.addr
             uses == IF sum > 0 THEN {BalanceKey(self), BalanceKey(addr)} ELSE {}
             f == Frame(addr, addr, self, sum, FALSE)
  <2>1. /\ Opcode("CALL", GasAddress, 0, 1, uses, {CodeKey(addr)}, CallTag(sum)) /\ frames # <<>>
        /\ tracer' = CaptureState(tracer, parent, Current, "CALL", GasAddress, 0)
        /\ Enter(f)
        /\ evm'.db = Move(evm.db, self, addr, sum)
    BY <1>14, <1>wrote DEF Call, Opcode
  <2>2. self \in Addrs /\ sum \in Nat /\ evm.db \in StateDB
    BY <2>1, CurrentType, SumsAssumption DEF OpenFrame, TypeInv, EvmOK, EvmState
  <2>3. f \in OpenFrame /\ ~f.create
    BY <1>frame, <2>2
  <2> HIDE DEF f, uses, self
  <2>4. CallTag(sum) \cap Misbooked = {} => tracer' = tracer /\ evm'.db = evm.db
    BY <1>call, <2>1, <2>2, MoveNothing
  <2> QED
    BY <2>1, <2>3, <2>4, SilentExact
<1>15. ASSUME NEW addr \in Addrs, NEW sum \in Sums, CallCode(addr, sum) PROVE ExactInv'
  <2> DEFINE self == Current.addr
             uses == IF sum > 0 THEN {BalanceKey(self)} ELSE {}
             f == Frame(self, addr, self, sum, FALSE)
  <2>1. /\ Opcode("CALLCODE", GasAddress, 0, 1, uses, {CodeKey(addr)}, CallTag(sum)) /\ frames # <<>>
        /\ tracer' = CaptureState(tracer, parent, Current, "CALLCODE", GasAddress, 0)
        /\ Enter(f)
        /\ evm' = evm
    BY <1>15 DEF CallCode, Opcode
  <2>2. self \in Addrs /\ sum \in Nat
    BY <2>1, CurrentType, SumsAssumption DEF OpenFrame
  <2>3. f \in OpenFrame /\ ~f.create
    BY <1>frame, <2>2
  <2> HIDE DEF f, uses, self
  <2>4. CallTag(sum) \cap Misbooked = {} => tracer' = tracer
    BY <1>call, <2>1
  <2> QED
    BY <2>1, <2>3, <2>4, SilentExact
<1>16. ASSUME NEW sum \in Sums, CallUnpaid(sum) PROVE ExactInv'
  <2>1. /\ Opcode("CALL", GasAddress, 0, 1, {BalanceKey(Current.addr)}, {}, CallTag(sum))
        /\ frames # <<>> /\ evm' = evm /\ frames' = frames
        /\ tracer' = CaptureState(tracer, parent, Current, "CALL", GasAddress, 0)
    BY <1>16 DEF CallUnpaid, Opcode
  <2>2. CallTag(sum) \cap Misbooked = {} => tracer' = tracer
    BY <1>call, <2>1
  <2> QED
    BY <2>1, <2>2, SilentExact
<1> QED
  BY <1>1, <1>2, <1>3, <1>4, <1>5, <1>6, <1>7, <1>8, <1>9, <1>10, <1>11, <1>12, <1>13,
     <1>14, <1>15, <1>16 DEF Next, Terminated

(* PlainRunIsExact: in a run without the operations that the tracer is     *)
(* known to book wrongly, the parent state with the write set written back *)
(* is the EVM's state after every step, for every message, fee share,      *)
(* parent state and contract code.                                         *)
THEOREM PlainRunsAreExact == Spec => []PlainRunIsExact
<1>1. Init => ExactInv
  BY DEF Init, ExactInv
<1>2. ExactInv => PlainRunIsExact
  BY DEF ExactInv, PlainRunIsExact
<1> QED
  BY InitTypes, NextTypes, NextExact, <1>1, <1>2, PTL DEF Spec

-----------------------------------------------------------------------------
(* The supply.                                                             *)

Balances(d) == [a \in Addrs |-> d[a].balance]

(* Total is the sum of the balances.                                       *)
LEMMA TotalSums ==
  ASSUME NEW d \in Ledger
  PROVE  /\ Balances(d) \in [Addrs -> Int]
         /\ \E sum : SumsOf(sum, Balances(d), Addrs) /\ Total(d) = sum[Addrs]
<1> DEFINE f == Balances(d)
           Term(g, s) == IF s = {} THEN 0
                         ELSE LET x == CHOOSE x \in s : TRUE IN d[x].balance + g[s \ {x}]
           Is(g) == g = [s \in SUBSET Addrs |-> Term(g, s)]
<1>1. f \in [Addrs -> Int]
  BY DEF Balances, Ledger, Debtor
<1>2. PICK sum : SumsOf(sum, f, Addrs)
  <2> HIDE DEF f
  <2> QED
    BY <1>1, AddrsAssumption, SumsExist
<1>3. ASSUME NEW s \in SUBSET Addrs PROVE sum[s] = Term(sum, s)
  <2>1. CASE s = {}
    BY <1>2, <2>1 DEF SumsOf, Adds
  <2>2. CASE s # {}
    <3> DEFINE x == CHOOSE x \in s : TRUE
    <3>1. x \in Addrs
      BY <2>2
    <3>2. sum[s] = f[x] + sum[s \ {x}]
      BY <1>2, <2>2 DEF SumsOf, Adds
    <3>3. Term(sum, s) = d[x].balance + sum[s \ {x}]
      BY <2>2
    <3> HIDE DEF x, Term
    <3> QED
      BY <3>1, <3>2, <3>3 DEF Balances
  <2> QED
    BY <2>1, <2>2
<1>4. Is(sum)
  <2> HIDE DEF Term
  <2> QED
    BY <1>2, <1>3 DEF SumsOf
<1> DEFINE iter == CHOOSE g : Is(g)
<1>5. Total(d) = iter[Addrs]
  BY DEF Total, MapThenSumSet, MapThenFoldSet
<1>6. Is(iter)
  <2> HIDE DEF Is
  <2> QED
    BY <1>4
<1>7. iter[Addrs] = sum[Addrs]
  <2>1. ASSUME NEW s \in SUBSET Addrs
        PROVE  iter[s] = IF s = {} THEN 0
                         ELSE LET x == CHOOSE x \in s : TRUE IN f[x] + iter[s \ {x}]
    <3>1. iter[s] = Term(iter, s)
      <4> HIDE DEF Term, iter
      <4> QED
        BY <1>6
    <3> HIDE DEF iter
    <3>2. CASE s = {}
      BY <3>1, <3>2
    <3>3. CASE s # {}
      <4> DEFINE x == CHOOSE x \in s : TRUE
      <4>1. x \in Addrs /\ iter[s] = d[x].balance + iter[s \ {x}]
        BY <3>1, <3>3
      <4>2. f[x] = d[x].balance
        BY <4>1 DEF Balances
      <4> QED
        BY <3>3, <4>1, <4>2
    <3> QED
      BY <3>2, <3>3
  <2> HIDE DEF iter, f
  <2>2. Adds(iter, f, Addrs)
    BY <2>1 DEF Adds
  <2>3. \A s \in SUBSET Addrs : iter[s] = sum[s]
    BY <1>1, <1>2, <2>2, AddrsAssumption, SumsUnique
  <2> QED
    BY <2>3
<1> QED
  BY <1>1, <1>2, <1>5, <1>7

(* Less in one balance is less in the total.                               *)
LEMMA TotalPays ==
  ASSUME NEW d \in Ledger, NEW e \in Ledger, NEW a \in Addrs, NEW v \in Int,
         LessAt(Balances(e), Balances(d), Addrs, a, v)
  PROVE  Total(e) = Total(d) - v /\ Total(d) \in Int
<1>1. PICK F : SumsOf(F, Balances(d), Addrs) /\ Total(d) = F[Addrs]
  BY TotalSums
<1>2. PICK G : SumsOf(G, Balances(e), Addrs) /\ Total(e) = G[Addrs]
  BY TotalSums
<1>3. Balances(d) \in [Addrs -> Int] /\ Balances(e) \in [Addrs -> Int]
  BY TotalSums
<1>5. \A s \in SUBSET Addrs : G[s] = IF a \in s THEN F[s] - v ELSE F[s]
  BY <1>1, <1>2, <1>3, AddrsAssumption, SumsChange
<1>6. F[Addrs] \in Int
  BY <1>1 DEF SumsOf
<1> QED
  BY <1>1, <1>2, <1>5, <1>6

(* The total is that of the balances.                                      *)
LEMMA TotalSame ==
  ASSUME NEW d \in Ledger, NEW e \in Ledger,
         \A b \in Addrs : e[b].balance = d[b].balance
  PROVE  Total(e) = Total(d)
<1>1. CASE Addrs = {}
  <2>1. d = e
    BY <1>1 DEF Ledger
  <2> QED
    BY <2>1
<1>2. CASE Addrs # {}
  <2>1. PICK a \in Addrs : TRUE
    BY <1>2
  <2>2. \A b \in Addrs : d[b].balance \in Int
    BY DEF Ledger, Debtor
  <2>5. \A n \in Int : n - 0 = n
    OBVIOUS
  <2>3. LessAt(Balances(e), Balances(d), Addrs, a, 0)
    BY <2>2, <2>5 DEF LessAt, Balances
  <2>4. Total(e) = Total(d) - 0 /\ Total(d) \in Int
    BY <2>3, TotalPays
  <2> QED
    BY <2>4
<1> QED
  BY <1>1, <1>2

(* A payment takes its sum away from the total.                            *)
LEMMA TotalPay ==
  ASSUME NEW d \in Ledger, NEW a \in Addrs, NEW v \in Int
  PROVE  /\ Pay(d, a, v) \in Ledger
         /\ Total(d) \in Int
         /\ Total(Pay(d, a, v)) = Total(d) - v
<1> DEFINE e == Pay(d, a, v)
<1>1. e \in Ledger /\ \A b \in Addrs : e[b].balance = IF b = a THEN d[a].balance - v ELSE d[b].balance
  BY PayFields
<1> HIDE DEF e
<1>2. LessAt(Balances(e), Balances(d), Addrs, a, v)
  BY <1>1 DEF LessAt, Balances
<1> QED
  BY <1>1, <1>2, TotalPays DEF e

(* The fee, shared or not, is what the total loses, or gets back.          *)
LEMMA TotalFee ==
  ASSUME NEW d \in Ledger, NEW m \in Message, NEW fee \in Nat, NEW sign \in {1, -1}
  PROVE  /\ Fee(d, m, fee, sign) \in Ledger
         /\ Total(d) \in Int
         /\ Total(Fee(d, m, fee, sign)) = Total(d) - sign * fee
<1>1. m.feePayer \in Addrs /\ m.sender \in Addrs
  BY DEF Message
<1>2. PICK x \in 0 .. fee, y \in 0 .. fee : Charged(d, m, fee, sign, x, y)
  BY FeeFields
<1> DEFINE sx == sign * x
           sy == sign * y
           paid == Pay(d, m.feePayer, sx)
           e == Fee(d, m, fee, sign)
<1>3. sx \in Int /\ sy \in Int
  BY <1>2
<1>4. e = Pay(paid, m.sender, sy) /\ e \in Ledger /\ x + y = fee
  BY <1>2 DEF Charged
<1>5. sx + sy = sign * fee
  BY <1>2, <1>4
<1> HIDE DEF sx, sy
<1>6. paid \in Ledger /\ Total(paid) = Total(d) - sx /\ Total(d) \in Int
  BY <1>1, <1>3, TotalPay
<1> HIDE DEF paid, e
<1>9. Total(e) = Total(paid) - sy
  BY <1>1, <1>3, <1>4, <1>6, TotalPay
<1>10. Total(e) = Total(d) - sign * fee
  <2> DEFINE sf == sign * fee
  <2>1. sf \in Int /\ sx + sy = sf
    BY <1>5
  <2> HIDE DEF sf
  <2>2. Total(e) = Total(d) - sf
    BY <1>3, <1>6, <1>9, <2>1
  <2> QED
    BY <2>2 DEF sf
<1> QED
  BY <1>4, <1>6, <1>10 DEF e

\* What the write set stands for.
Written == WriteBack(tracer.writeset, parent)

(* It is a state.                                                          *)
LEMMA WrittenState ==
  ASSUME TypeInv
  PROVE  Written \in StateDB /\ Written \in Ledger
<1>1. Written \in StateDB
  BY RunTypes, WriteBackType DEF TypeInv, BooksOK, Written
<1> QED
  BY <1>1, StateIsLedger

(* At the start the supply loses the whole fee.                            *)
LEMMA StartSupply ==
  ASSUME TypeInv, TxStart
  PROVE  SupplyInv'
<1> DEFINE cost == msg.gas * msg.gasPrice
           fee == GasBought(parent, msg)
           paid == Pay(Bought, msg.sender, msg.value)
           minus == -msg.value
<1>1. /\ msg \in Message /\ parent \in Ledger /\ cost \in Nat
      /\ msg.sender \in Addrs /\ msg.to \in Addrs /\ msg.value \in Nat
  BY RunTypes, StateIsLedger, Products DEF TypeInv
<1>2. /\ phase' = "run" /\ msg' = msg /\ parent' = parent
  BY DEF TxStart
<1>3. /\ WriteBack(tracer'.writeset, parent) = StartState
      /\ \A a \in Addrs : StartState[a].balance <= parent[a].balance + msg.value
      /\ Bought \in Ledger /\ fee \in Ledger
      /\ \A a \in Addrs : Bought[a].balance = fee[a].balance
  BY StartWritten
<1>4. Total(fee) = Total(parent) - cost /\ Total(parent) \in Int
  <2>1. fee = Fee(parent, msg, cost, 1)
    BY DEF GasBought
  <2>2. 1 \in {1, -1} /\ 1 * cost = cost
    BY <1>1
  <2> HIDE DEF fee, cost
  <2> QED
    BY <1>1, <2>1, <2>2, TotalFee
<1> HIDE DEF fee, cost
<1>5. Total(Bought) = Total(fee)
  BY <1>3, TotalSame
<1>6. minus \in Int /\ \A n \in Int : n - msg.value - minus = n
  BY <1>1
<1>7. paid \in Ledger /\ Total(paid) = Total(Bought) - msg.value
  <2>1. msg.value \in Int
    BY <1>1
  <2> QED
    BY <1>1, <1>3, <2>1, TotalPay
<1>8. StartState = Pay(paid, msg.to, minus)
  BY DEF StartState, Move
<1> HIDE DEF paid, minus
<1>9. Total(StartState) = Total(paid) - minus
  BY <1>1, <1>6, <1>7, <1>8, TotalPay
<1>10. Total(StartState) + cost = Total(parent)
  BY <1>1, <1>4, <1>5, <1>6, <1>7, <1>9
<1> QED
  BY <1>2, <1>3, <1>10 DEF SupplyInv, SupplyPreserved, cost

(* A step of a run that books no balance keeps the supply.                 *)
LEMMA StepSupply ==
  ASSUME TypeInv, TypeInv', SupplyInv,
         phase = "run", UNCHANGED <<phase, msg, parent>>, met \subseteq met',
         "VALUECALL" \notin met' =>
           \A a \in Addrs : Written'[a].balance = Written[a].balance
  PROVE  SupplyInv'
<1> SUFFICES ASSUME "VALUECALL" \notin met' PROVE SupplyInv'
  BY DEF SupplyInv
<1>1. "VALUECALL" \notin met
  OBVIOUS
<1>2. SupplyPreserved /\ \A a \in Addrs : Written[a].balance <= parent[a].balance + msg.value
  BY <1>1 DEF SupplyInv, Written
<1>3. Written \in Ledger /\ Written' \in Ledger
  <2>1. parent \in StateDB /\ BooksOK(tracer', parent) /\ Written' = WriteBack(tracer'.writeset, parent)
    BY RunTypes DEF TypeInv, BooksOK, Written
  <2> QED
    BY <2>1, WrittenState, WriteBackType, StateIsLedger DEF BooksOK
<1>4. \A a \in Addrs : Written'[a].balance = Written[a].balance
  OBVIOUS
<1>5. Total(Written') = Total(Written)
  BY <1>3, <1>4, TotalSame
<1>6. SupplyPreserved'
  BY <1>1, <1>2, <1>5 DEF SupplyPreserved, Written
<1>7. \A a \in Addrs : Written'[a].balance <= parent'[a].balance + msg'.value
  BY <1>2, <1>4
<1> QED
  BY <1>6, <1>7 DEF SupplyInv, Written

(* At the end the supply gets back what was left of the gas.               *)
LEMMA EndSupply ==
  ASSUME TypeInv, SupplyInv, TxEnd
  PROVE  SupplyInv'
<1> SUFFICES ASSUME "VALUECALL" \notin met' PROVE SupplyInv'
  BY DEF SupplyInv
<1> DEFINE rest == gas * msg.gasPrice
           cost == msg.gas * msg.gasPrice
           used == (msg.gas - gas) * msg.gasPrice
<1>1. /\ phase = "run" /\ phase' = "done" /\ UNCHANGED <<msg, parent, met, gas>>
      /\ tracer' = ChargeFee(tracer, parent, msg, rest, -1)
  BY DEF TxEnd, CaptureTxEnd
<1>2. /\ Total(Written) + cost = Total(parent)
      /\ \A a \in Addrs : Written[a].balance <= parent[a].balance + msg.value
  BY <1>1 DEF SupplyInv, SupplyPreserved, Written
<1>3. /\ msg \in Message /\ parent \in StateDB /\ BooksOK(tracer, parent)
      /\ gas \in 0 .. msg.gas
      /\ msg.gas \in Nat /\ msg.gasPrice \in Nat /\ msg.value \in Nat
      /\ \A a \in Addrs : parent[a].balance \in Nat
  BY RunTypes DEF TypeInv, TypeOK
<1>4. /\ rest \in Nat /\ cost \in Nat /\ used \in Nat
      /\ rest <= cost /\ used = cost - rest
  <2>1. gas \in Nat /\ msg.gas - gas \in Nat /\ gas <= msg.gas
    BY <1>3
  <2>2. rest \in Nat /\ cost \in Nat /\ used \in Nat
    BY <1>3, <2>1, Products
  <2>3. rest <= cost
    BY <1>3, <2>1, ProductsMonotone
  <2>4. used = cost - rest
    BY <1>3, <2>1
  <2> QED
    BY <2>2, <2>3, <2>4
<1>5. Written \in StateDB /\ Written \in Ledger
  BY WrittenState
<1>6. \A a \in Addrs : Written[a].balance < WordSize /\ Written[a].balance + rest < WordSize
  <2> SUFFICES ASSUME NEW a \in Addrs
               PROVE  Written[a].balance < WordSize /\ Written[a].balance + rest < WordSize
    OBVIOUS
  <2>1. Written[a].balance \in Nat
    BY <1>5 DEF StateDB, Account
  <2>2. parent[a].balance + msg.value + cost < WordSize
    BY RunBounds DEF TypeInv
  <2> HIDE DEF cost, rest, used
  <2>3. /\ parent[a].balance \in Nat /\ msg.value \in Nat /\ WordSize \in Nat
        /\ Written[a].balance <= parent[a].balance + msg.value
    BY <1>2, <1>3, SizeAssumption
  <2> QED
    BY <1>4, <2>1, <2>2, <2>3
<1> HIDE DEF rest, cost, used
<1>7. -1 \in {1, -1} /\ -1 # 1 /\ -1 * rest = -rest
  BY <1>4
<1>8. WriteBack(tracer'.writeset, parent) = Fee(Written, msg, rest, -1)
  BY <1>1, <1>3, <1>4, <1>6, <1>7, FeeExact DEF Written
<1>9. /\ Total(Fee(Written, msg, rest, -1)) = Total(Written) - (-1 * rest)
      /\ Total(Written) \in Int
  BY <1>3, <1>4, <1>5, <1>7, TotalFee
<1>10. Total(Fee(Written, msg, rest, -1)) + used = Total(parent)
  BY <1>2, <1>4, <1>7, <1>9
<1> QED
  BY <1>1, <1>8, <1>10 DEF SupplyInv, SupplyPreserved, used

(* Every step of a run keeps the supply.                                   *)
LEMMA NextSupply ==
  ASSUME TypeInv, TypeInv', SupplyInv, [Next]_vars
  PROVE  SupplyInv'
<1>quiet. ASSUME phase = "run", UNCHANGED <<phase, msg, parent>>, met \subseteq met',
                 "VALUECALL" \notin met' => tracer'.writeset = tracer.writeset
          PROVE  SupplyInv'
  BY <1>quiet, StepSupply DEF Written
<1>opcode. ASSUME NEW op, NEW top, NEW second, NEW cost, NEW uses, NEW runs, NEW tags,
                  Opcode(op, top, second, cost, uses, runs, tags)
           PROVE  /\ phase = "run" /\ UNCHANGED <<phase, msg, parent>> /\ met \subseteq met'
                  /\ met' = met \cup tags /\ frames # <<>>
                  /\ tracer' = CaptureState(tracer, parent, Current, op, top, second)
  BY <1>opcode DEF Opcode
<1>read. ASSUME NEW key \in StorageKeys
         PROVE  Read(tracer, parent, key).writeset = tracer.writeset
  BY RunTypes, ReadBooks DEF TypeInv
<1>1. CASE UNCHANGED vars
  BY <1>1 DEF vars, SupplyInv, SupplyPreserved
<1>2. CASE TxStart
  BY <1>2, StartSupply
<1>3. CASE SelfBalance
  <2>1. tracer' = tracer
    BY <1>3 DEF SelfBalance, Opcode, CaptureState
  <2> QED
    BY <1>3, <1>opcode, <1>quiet, <2>1 DEF SelfBalance
<1>4. CASE Return
  BY <1>4, <1>quiet DEF Return
<1>5. CASE Fail
  BY <1>5, <1>quiet DEF Fail
<1>6. CASE TxEnd
  BY <1>6, EndSupply
<1>7. ASSUME NEW slot \in Slots, Sload(slot) PROVE SupplyInv'
  <2> DEFINE key == ToStorageKey(Current.addr, slot)
  <2>1. frames # <<>> /\ tracer' = Read(tracer, parent, key)
    BY <1>7 DEF Sload, Opcode, CaptureState
  <2>2. key \in StorageKeys
    BY <2>1, CurrentType, KeyTypes DEF OpenFrame
  <2> HIDE DEF key
  <2>3. tracer'.writeset = tracer.writeset
    BY <1>read, <2>1, <2>2
  <2> QED
    BY <1>7, <1>opcode, <1>quiet, <2>3 DEF Sload
<1>8. ASSUME NEW slot \in Slots, NEW word \in {0, 1}, Sstore(slot, word) PROVE SupplyInv'
  <2> DEFINE key == ToStorageKey(Current.addr, slot)
  <2>1. frames # <<>> /\ tracer' = Set(tracer, key, word)
    BY <1>8 DEF Sstore, Opcode, CaptureState
  <2>2. key \in StorageKeys \ CodeKeys /\ word \in Word
    BY <2>1, CurrentType, KeyTypes, CodeKeyTypes, SizeAssumption DEF OpenFrame, Word
  <2>3. \A a \in Addrs : key # BalanceKey(a)
    BY SlotsAssumption DEF ToStorageKey, SpecialSlots, BalanceKey
  <2>4. phase = "run" /\ UNCHANGED <<phase, msg, parent>> /\ met \subseteq met'
    BY <1>8, <1>opcode DEF Sstore
  <2> HIDE DEF key
  <2>5. Written' = SetValue(key, Written, word)
    BY <2>1, <2>2, <2>4, RunTypes, SetBooks DEF TypeInv, Written
  <2>6. \A a \in Addrs : Written'[a].balance = Written[a].balance
    BY <2>2, <2>3, <2>5, WrittenState, SetValueType
  <2> QED
    BY <2>4, <2>6, StepSupply
<1>9. ASSUME NEW addr \in Addrs, Balance(addr) PROVE SupplyInv'
  <2>1. tracer' = Read(tracer, parent, BalanceKey(addr))
    BY <1>9 DEF Balance, Opcode, CaptureState
  <2>2. tracer'.writeset = tracer.writeset
    BY <1>read, <2>1, KeyTypes
  <2> QED
    BY <1>9, <1>opcode, <1>quiet, <2>2 DEF Balance
<1>10. ASSUME NEW addr \in Addrs, NEW op \in {"EXTCODECOPY", "EXTCODEHASH", "EXTCODESIZE"},
              ExtCode(op, addr)
       PROVE  SupplyInv'
  <2> DEFINE slot == CASE op = "EXTCODECOPY" -> "codecopy"
                       [] op = "EXTCODEHASH" -> "codehash"
                       [] op = "EXTCODESIZE" -> "codesize"
             key == ToStorageKey(addr, slot)
  <2>1. tracer' = Read(tracer, parent, key)
    BY <1>10 DEF ExtCode, Opcode, CaptureState
  <2>2. slot \in SpecialSlots
    BY DEF SpecialSlots
  <2>3. Opcode(op, addr, 0, 1, {key}, {}, {})
    BY <1>10 DEF ExtCode
  <2> HIDE DEF slot
  <2>4. key \in StorageKeys
    BY <2>2, KeyTypes
  <2> HIDE DEF key
  <2>5. tracer'.writeset = tracer.writeset
    BY <1>read, <2>1, <2>4
  <2> QED
    BY <1>opcode, <1>quiet, <2>3, <2>5
<1>11. ASSUME NEW addr \in Addrs, DelegateCall(addr) PROVE SupplyInv'
  <2>1. tracer' = tracer
    BY <1>11 DEF DelegateCall, Opcode, CaptureState
  <2> QED
    BY <1>11, <1>opcode, <1>quiet, <2>1 DEF DelegateCall
<1>12. ASSUME NEW addr \in Addrs, SelfDestruct(addr) PROVE SupplyInv'
  <2>1. tracer' = [tracer EXCEPT !.aborted = TRUE]
    BY <1>12 DEF SelfDestruct, Opcode, CaptureState
  <2>2. tracer'.writeset = tracer.writeset
    BY <2>1 DEF TypeInv, BooksOK, Tracer
  <2> QED
    BY <1>12, <1>opcode, <1>quiet, <2>2 DEF SelfDestruct
<1>13. ASSUME NEW addr \in Addrs, NEW sum \in Sums, Create(addr, sum) PROVE SupplyInv'
  <2>1. tracer' = tracer
    BY <1>13 DEF Create, Opcode, CaptureState
  <2> QED
    BY <1>13, <1>opcode, <1>quiet, <2>1 DEF Create
<1>call. ASSUME NEW sum \in Sums, NEW op \in {"CALL", "CALLCODE"}, NEW uses, NEW runs,
                Opcode(op, GasAddress, 0, 1, uses, runs, CallTag(sum))
         PROVE  SupplyInv'
  <2>1. /\ phase = "run" /\ UNCHANGED <<phase, msg, parent>> /\ met \subseteq met'
        /\ met' = met \cup CallTag(sum) /\ frames # <<>>
        /\ tracer' = CaptureState(tracer, parent, Current, op, GasAddress, 0)
    BY <1>call, <1>opcode
  <2>2. ASSUME "VALUECALL" \notin met' PROVE tracer' = tracer
    <3>1. Current.value \in Nat /\ ~(Current.value > 0)
      BY <2>1, <2>2, CurrentType DEF OpenFrame, CallTag
    <3>2. Current.value = 0
      BY <3>1
    <3> QED
      BY <2>1, <3>2, CallBooks
  <2> QED
    BY <1>quiet, <2>1, <2>2
<1>14. ASSUME NEW addr \in Addrs, NEW sum \in Sums, Call(addr, sum) \/ CallCode(addr, sum)
       PROVE  SupplyInv'
  BY <1>14, <1>call DEF Call, CallCode
<1>15. ASSUME NEW sum \in Sums, CallUnpaid(sum) PROVE SupplyInv'
  BY <1>15, <1>call DEF CallUnpaid
<1> QED
  BY <1>1, <1>2, <1>3, <1>4, <1>5, <1>6, <1>7, <1>8, <1>9, <1>10, <1>11, <1>12, <1>13,
     <1>14, <1>15 DEF Next, Terminated

(* SupplyPreserved: in every run that passes no value through a call, for  *)
(* every message, fee share, parent state and contract code and any finite *)
(* set of accounts, the balances of the write set add up to those of the   *)
(* parent state less the fee, after every step (tracer.go:405-420).        *)
THEOREM SupplyIsPreserved == Spec => []SupplyPreserved
<1>1. Init => SupplyInv
  BY DEF Init, SupplyInv
<1>2. SupplyInv => SupplyPreserved
  BY DEF SupplyInv, SupplyPreserved
<1> QED
  BY InitTypes, NextTypes, NextSupply, <1>1, <1>2, PTL DEF Spec

====
