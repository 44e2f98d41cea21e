----------------------- MODULE MultiVersionStoreLemmas -----------------------
(***************************************************************************)
(* What the operations on version trees and on the store return, and what  *)
(* replaying the versions of a block yields.                               *)
(***************************************************************************)
EXTENDS MultiVersionStore, InductionLemmas, TLAPS

(* A write set maps some of the keys to words.                             *)
LEMMA WriteSetValues ==
  ASSUME NEW ws \in WriteSet
  PROVE  /\ DOMAIN ws \subseteq Keys
         /\ \A k \in DOMAIN ws : ws[k] \in Values
BY DEF WriteSet

(* An estimate is placed at the index and nowhere else.                    *)
LEMMA SetEstimateTree ==
  ASSUME NEW tree \in Tree, NEW i \in Tasks, NEW n \in Nat
  PROVE  /\ SetEstimate(tree, i, n) \in Tree
         /\ Held(SetEstimate(tree, i, n)) = Held(tree) \cup {i}
         /\ IsEstimate(SetEstimate(tree, i, n)[i])
         /\ \A j \in Tasks : j # i => SetEstimate(tree, i, n)[j] = tree[j]
<1>1. NewEstimateItem(n) \in Version
  BY ZeroAssumption DEF NewEstimateItem, Version
<1>2. SetEstimate(tree, i, n) = [tree EXCEPT ![i] = NewEstimateItem(n)]
  BY DEF SetEstimate
<1>3. NewEstimateItem(n).kind = "estimate"
  BY DEF NewEstimateItem
<1> HIDE DEF NewEstimateItem
<1>4. QED
  BY <1>1, <1>2, <1>3 DEF Tree, Held, IsEstimate

(* A removal leaves no version at the index and the others alone.          *)
LEMMA RemoveTree ==
  ASSUME NEW tree \in Tree, NEW i \in Tasks
  PROVE  /\ Remove(tree, i) \in Tree
         /\ Held(Remove(tree, i)) = Held(tree) \ {i}
         /\ \A j \in Tasks : j # i => Remove(tree, i)[j] = tree[j]
<1>1. NoVersion \in Version /\ NoVersion.kind = "none"
  BY ZeroAssumption DEF NoVersion, Version
<1>2. QED
  BY <1>1 DEF Tree, Held, Remove

(* A write, deletions included, places its word at the index.              *)
LEMMA VersionSetTree ==
  ASSUME NEW tree \in Tree, NEW i \in Tasks, NEW n \in Nat, NEW v \in Values
  PROVE  /\ VersionSet(tree, i, n, v) \in Tree
         /\ Held(VersionSet(tree, i, n, v)) = Held(tree) \cup {i}
         /\ VersionSet(tree, i, n, v)[i] = NewValueItem(n, v)
         /\ \A j \in Tasks : j # i => VersionSet(tree, i, n, v)[j] = tree[j]
<1>1. VersionSet(tree, i, n, v) = [tree EXCEPT ![i] = NewValueItem(n, v)]
  BY DEF VersionSet, Set, Delete, NewDeletedItem
<1>2. NewValueItem(n, v) \in Version /\ NewValueItem(n, v).kind = "value"
  BY DEF NewValueItem, Version
<1> HIDE DEF NewValueItem
<1>3. QED
  BY <1>1, <1>2 DEF Tree, Held

(* Publishing a key: the transaction holds a version of it afterwards      *)
(* exactly when the key is in the new write set: its word, or an estimate. *)
LEMMA PublishKeyTree ==
  ASSUME NEW tree \in Tree, NEW i \in Tasks, NEW n \in Nat, NEW ws \in WriteSet,
         NEW k \in Keys, NEW e \in BOOLEAN
  PROVE  /\ PublishKey(tree, i, n, ws, k, e) \in Tree
         /\ i \in Held(PublishKey(tree, i, n, ws, k, e)) <=> k \in DOMAIN ws
         /\ \A j \in Tasks : j # i => PublishKey(tree, i, n, ws, k, e)[j] = tree[j]
         /\ k \in DOMAIN ws /\ ~e =>
              /\ PublishKey(tree, i, n, ws, k, e)[i].kind = "value"
              /\ PublishKey(tree, i, n, ws, k, e)[i].value = ws[k]
         /\ e => PublishKey(tree, i, n, ws, k, e)[i].kind # "value"
<1>1. CASE k \notin DOMAIN ws
  <2>1. PublishKey(tree, i, n, ws, k, e) = Remove(tree, i)
    BY <1>1 DEF PublishKey
  <2>2. Remove(tree, i)[i].kind # "value"
    BY DEF Remove, NoVersion, Tree
  <2>3. QED
    BY <1>1, <2>1, <2>2, RemoveTree
<1>2. CASE k \in DOMAIN ws /\ e
  <2>1. PublishKey(tree, i, n, ws, k, e) = SetEstimate(tree, i, n)
    BY <1>2 DEF PublishKey
  <2>2. SetEstimate(tree, i, n)[i].kind # "value"
    BY SetEstimateTree DEF IsEstimate
  <2>3. ~(k \in DOMAIN ws /\ ~e)
    BY <1>2, Zenon
  <2>4. /\ SetEstimate(tree, i, n) \in Tree
        /\ i \in Held(SetEstimate(tree, i, n))
        /\ \A j \in Tasks : j # i => SetEstimate(tree, i, n)[j] = tree[j]
    BY SetEstimateTree
  <2>5. QED
    BY <1>2, <2>1, <2>2, <2>3, <2>4, Zenon
<1>3. CASE k \in DOMAIN ws /\ ~e
  <2>1. ws[k] \in Values
    BY <1>3, WriteSetValues
  <2>2. PublishKey(tree, i, n, ws, k, e) = VersionSet(tree, i, n, ws[k])
    BY <1>3 DEF PublishKey
  <2>3. /\ NewValueItem(n, ws[k]).kind = "value"
        /\ NewValueItem(n, ws[k]).value = ws[k]
    BY DEF NewValueItem
  <2>4. QED
    BY <1>3, <2>1, <2>2, <2>3, VersionSetTree
<1>4. QED
  BY <1>1, <1>2, <1>3

(* A whole write set, published at once.                                   *)
LEMMA PublishedMap ==
  ASSUME StoreTypeOK, NEW i \in Tasks, NEW n \in Nat, NEW ws \in WriteSet,
         NEW e \in BOOLEAN
  PROVE  /\ Published(i, n, ws, e) \in [Keys -> Tree]
         /\ \A k \in txWritesetKeys[i] \cup DOMAIN ws :
              i \in Held(Published(i, n, ws, e)[k]) <=> k \in DOMAIN ws
         /\ \A k \in Keys : k \notin txWritesetKeys[i] \cup DOMAIN ws =>
              Published(i, n, ws, e)[k] = multiVersionMap[k]
         /\ \A k \in Keys, j \in Tasks : j # i =>
              Published(i, n, ws, e)[k][j] = multiVersionMap[k][j]
<1>1. \A k \in Keys : multiVersionMap[k] \in Tree
  BY DEF StoreTypeOK
<1>2. txWritesetKeys[i] \subseteq Keys /\ DOMAIN ws \subseteq Keys
  BY WriteSetValues DEF StoreTypeOK
<1>3. QED
  BY <1>1, <1>2, PublishKeyTree DEF Published

(* Invalidation keeps the same versions, as estimates.                     *)
LEMMA InvalidatedMap ==
  ASSUME StoreTypeOK, NEW i \in Tasks, NEW n \in Nat
  PROVE  /\ Invalidated(i, n) \in [Keys -> Tree]
         /\ \A k \in txWritesetKeys[i] :
              Held(Invalidated(i, n)[k]) = Held(multiVersionMap[k]) \cup {i}
         /\ \A k \in Keys \ txWritesetKeys[i] :
              Invalidated(i, n)[k] = multiVersionMap[k]
         /\ \A k \in Keys, j \in Tasks : j # i =>
              Invalidated(i, n)[k][j] = multiVersionMap[k][j]
<1>1. \A k \in Keys : multiVersionMap[k] \in Tree
  BY DEF StoreTypeOK
<1>2. txWritesetKeys[i] \subseteq Keys
  BY DEF StoreTypeOK
<1>3. QED
  BY <1>1, <1>2, SetEstimateTree DEF Invalidated

(* Writing back versions yields a state.                                   *)
LEMMA WrittenBackState ==
  ASSUME StoreTypeOK, NEW picked \in [Keys -> SUBSET Tasks]
  PROVE  WrittenBack(picked) \in States
<1>1. ASSUME NEW k \in Keys, picked[k] # {}
      PROVE  multiVersionMap[k][CHOOSE j \in picked[k] : TRUE].value \in Values
  <2>1. PICK j \in picked[k] : j = CHOOSE x \in picked[k] : TRUE
    BY <1>1
  <2>2. j \in Tasks /\ multiVersionMap[k][j] \in Version
    BY DEF StoreTypeOK, Tree
  <2>3. QED
    BY <2>1, <2>2 DEF Version
<1>2. \A k \in Keys : parentStore[k] \in Values
  BY DEF StoreTypeOK, States
<1>3. QED
  BY <1>1, <1>2 DEF WrittenBack, States

(* Both write-backs yield a state.                                         *)
LEMMA WriteBackStates ==
  ASSUME StoreTypeOK
  PROVE  /\ LatestToStore \in States
         /\ \A lo, hi : LatestToStoreUntil(lo, hi) \in States
<1>1. \A tree : GetLatestNonEstimate(tree) \subseteq Tasks
  BY DEF GetLatestNonEstimate, Latest, Held
<1>2. LatestToStore \in States
  <2> DEFINE picked == [k \in Keys |-> GetLatestNonEstimate(multiVersionMap[k])]
  <2>1. picked \in [Keys -> SUBSET Tasks]
    BY <1>1
  <2> HIDE DEF picked
  <2>2. WrittenBack(picked) \in States
    BY <2>1, WrittenBackState
  <2>3. QED
    BY <2>2 DEF LatestToStore, picked
<1>3. ASSUME NEW lo, NEW hi
      PROVE  LatestToStoreUntil(lo, hi) \in States
  <2> DEFINE picked == [k \in Keys |->
        {j \in GetLatestNonEstimate(multiVersionMap[k]) : lo <= j /\ j < hi}]
  <2>1. picked \in [Keys -> SUBSET Tasks]
    BY <1>1
  <2> HIDE DEF picked
  <2>2. WrittenBack(picked) \in States
    BY <2>1, WrittenBackState
  <2>3. QED
    BY <2>2 DEF LatestToStoreUntil, picked
<1>4. QED
  BY <1>2, <1>3

-----------------------------------------------------------------------------
(* Replaying the versions.                                                 *)

(* The replay satisfies its defining equation, and yields states.          *)
LEMMA ReplayEquation ==
  ASSUME NEW map \in [Keys -> Tree], NEW base \in States
  PROVE  /\ Replay(map, base) \in [0 .. N -> States]
         /\ Replay(map, base)[0] = base
         /\ \A n \in 1 .. N, k \in Keys :
              Replay(map, base)[n][k] =
                IF map[k][n - 1].kind = "value" THEN map[k][n - 1].value
                                                ELSE Replay(map, base)[n - 1][k]
<1> DEFINE Put(n, s) == [k \in Keys |-> IF map[k][n - 1].kind = "value"
                                        THEN map[k][n - 1].value ELSE s[k]]
           step == [n \in 1 .. N |-> [s \in States |-> Put(n, s)]]
           Is(f) == f = [n \in 0 .. N |-> IF n = 0 THEN base ELSE Put(n, f[n - 1])]
<1>1. N \in Nat
  BY BlockAssumption
<1>2. ASSUME NEW n \in 1 .. N, NEW s \in States
      PROVE  Put(n, s) \in States
  <2>1. n - 1 \in Tasks
    BY <1>1 DEF Tasks
  <2>2. \A k \in Keys : map[k][n - 1].value \in Values
    BY <2>1 DEF Tree, Version
  <2>3. QED
    BY <2>2 DEF States
<1>3. step \in [1 .. N -> [States -> States]]
  BY <1>2
<1>4. PICK f : GivenBy(f, N, States, base, step)
  BY <1>1, <1>3, Recursion
<1>5. ASSUME NEW n \in 0 .. N
      PROVE  f[n] = IF n = 0 THEN base ELSE Put(n, f[n - 1])
  <2>1. CASE n = 0
    BY <1>4, <2>1 DEF GivenBy
  <2>2. CASE n # 0
    <3>1. n \in 1 .. N /\ n - 1 \in 0 .. N
      BY <1>1, <2>2
    <3>2. f[n - 1] \in States
      BY <1>4, <3>1 DEF GivenBy
    <3> HIDE DEF Put
    <3>3. QED
      BY <1>4, <2>2, <3>1, <3>2 DEF GivenBy
  <2>3. QED
    BY <2>1, <2>2
<1>6. Is(f)
  <2> HIDE DEF step, Put
  <2>1. QED
    BY <1>4, <1>5 DEF GivenBy
<1>7. Is(Replay(map, base))
  <2>1. Replay(map, base) = CHOOSE g : Is(g)
    BY DEF Replay
  <2> HIDE DEF Is
  <2>2. QED
    BY <1>6, <2>1
<1> DEFINE r == Replay(map, base)
<1>8. r[0] = base
  BY <1>1, <1>7
<1>9. ASSUME NEW n \in 1 .. N
      PROVE  r[n] = Put(n, r[n - 1])
  <2>1. n \in 0 .. N /\ n # 0
    BY <1>1
  <2> HIDE DEF r, Put
  <2>2. r = [m \in 0 .. N |-> IF m = 0 THEN base ELSE Put(m, r[m - 1])]
    BY <1>7 DEF r
  <2>3. QED
    BY <2>1, <2>2
<1>10. \A n \in 0 .. N : r[n] \in States
  <2> DEFINE S == {n \in Nat : r[n] \in States}
  <2> HIDE DEF r, Put
  <2>1. 0 \in S
    BY <1>8
  <2>2. \A n \in 1 .. N : n - 1 \in S => n \in S
    BY <1>2, <1>9
  <2> HIDE DEF S
  <2>3. \A n \in 0 .. N : n \in S
    BY <1>1, <2>1, <2>2, Induction
  <2>4. QED
    BY <2>3 DEF S
<1>11. r \in [0 .. N -> States]
  <2> HIDE DEF r, Put
  <2>1. r = [m \in 0 .. N |-> IF m = 0 THEN base ELSE Put(m, r[m - 1])]
    BY <1>7 DEF r
  <2>2. QED
    BY <1>10, <2>1
<1>12. \A n \in 1 .. N, k \in Keys : r[n][k] = Put(n, r[n - 1])[k]
  <2> HIDE DEF r, Put
  <2>1. QED
    BY <1>9
<1>13. QED
  <2> HIDE DEF r
  <2>1. \A n \in 1 .. N, k \in Keys :
          r[n][k] = IF map[k][n - 1].kind = "value" THEN map[k][n - 1].value
                                                    ELSE r[n - 1][k]
    BY <1>12
  <2>2. QED
    BY <1>8, <1>11, <2>1 DEF r

(* A word of the replay is the value of the last version below n or,       *)
(* without one, the word it started from.                                  *)
LEMMA ReplayLatest ==
  ASSUME NEW map \in [Keys -> Tree], NEW base \in States, NEW k \in Keys,
         NEW n \in 0 .. N
  PROVE  /\ (\A j \in Tasks : j < n => map[k][j].kind # "value") =>
              Replay(map, base)[n][k] = base[k]
         /\ \A j \in Tasks :
              /\ j < n
              /\ map[k][j].kind = "value"
              /\ \A l \in Tasks : j < l /\ l < n => map[k][l].kind # "value"
              => Replay(map, base)[n][k] = map[k][j].value
<1> DEFINE r == Replay(map, base)
           None(m) == \A j \in Tasks : j < m => map[k][j].kind # "value"
           Last(m, j) == /\ j < m
                         /\ map[k][j].kind = "value"
                         /\ \A l \in Tasks : j < l /\ l < m => map[k][l].kind # "value"
           S == {m \in Nat : /\ None(m) => r[m][k] = base[k]
                             /\ \A j \in Tasks : Last(m, j) => r[m][k] = map[k][j].value}
<1>1. N \in Nat
  BY BlockAssumption
<1>2. /\ r[0] = base
      /\ \A m \in 1 .. N : r[m][k] = IF map[k][m - 1].kind = "value"
                                     THEN map[k][m - 1].value ELSE r[m - 1][k]
  BY ReplayEquation
<1> HIDE DEF r
<1>3. 0 \in S
  BY <1>2 DEF Tasks
<1>4. ASSUME NEW m \in 1 .. N, m - 1 \in S
      PROVE  m \in S
  <2>1. m - 1 \in Tasks /\ m - 1 < m /\ m \in Nat /\ m - 1 \in Nat
    BY <1>1 DEF Tasks
  <2>2. CASE map[k][m - 1].kind = "value"
    <3>1. r[m][k] = map[k][m - 1].value
      BY <1>2, <2>2
    <3>2. ~None(m)
      BY <2>1, <2>2
    <3>3. ASSUME NEW j \in Tasks, Last(m, j)
          PROVE  j = m - 1
      BY <2>1, <2>2, <3>3 DEF Tasks
    <3> HIDE DEF None, Last
    <3>4. QED
      BY <2>1, <3>1, <3>2, <3>3
  <2>3. CASE map[k][m - 1].kind # "value"
    <3>1. r[m][k] = r[m - 1][k]
      BY <1>2, <2>3
    <3>2. None(m) => None(m - 1)
      BY <2>1 DEF Tasks
    <3>3. ASSUME NEW j \in Tasks, Last(m, j)
          PROVE  Last(m - 1, j)
      BY <2>1, <2>3, <3>3 DEF Tasks
    <3> HIDE DEF None, Last
    <3>4. QED
      BY <1>4, <2>1, <3>1, <3>2, <3>3
  <2>4. QED
    BY <2>2, <2>3
<1>5. n \in S
  <2> HIDE DEF S
  <2>1. QED
    BY <1>1, <1>3, <1>4, Induction
<1>6. QED
  BY <1>5 DEF r

(* A replay up to n depends on the versions below n alone.                 *)
LEMMA ReplayPrefix ==
  ASSUME NEW map \in [Keys -> Tree], NEW new \in [Keys -> Tree], NEW base \in States,
         NEW n \in 0 .. N,
         \A k \in Keys, j \in Tasks : j < n => new[k][j] = map[k][j]
  PROVE  \A m \in 0 .. n : Replay(new, base)[m] = Replay(map, base)[m]
<1> DEFINE r == Replay(map, base)
           q == Replay(new, base)
           S == {m \in Nat : q[m] = r[m]}
<1>1. N \in Nat /\ n \in Nat
  BY BlockAssumption
<1>2. /\ r \in [0 .. N -> States]
      /\ r[0] = base
      /\ \A m \in 1 .. N, k \in Keys : r[m][k] = IF map[k][m - 1].kind = "value"
                                                THEN map[k][m - 1].value ELSE r[m - 1][k]
  BY ReplayEquation
<1>3. /\ q \in [0 .. N -> States]
      /\ q[0] = base
      /\ \A m \in 1 .. N, k \in Keys : q[m][k] = IF new[k][m - 1].kind = "value"
                                                THEN new[k][m - 1].value ELSE q[m - 1][k]
  BY ReplayEquation
<1> HIDE DEF r, q
<1>4. 0 \in S
  BY <1>2, <1>3
<1>5. ASSUME NEW m \in 1 .. n, m - 1 \in S
      PROVE  m \in S
  <2>1. m \in 1 .. N /\ m \in 0 .. N /\ m - 1 \in Tasks /\ m - 1 < n
    BY <1>1 DEF Tasks
  <2>2. \A k \in Keys : q[m][k] = r[m][k]
    BY <1>2, <1>3, <1>5, <2>1
  <2>3. q[m] \in States /\ r[m] \in States
    BY <1>2, <1>3, <2>1
  <2>4. q[m] = r[m]
    BY <2>2, <2>3 DEF States
  <2>5. QED
    BY <2>4
<1>6. \A m \in 0 .. n : m \in S
  <2> HIDE DEF S
  <2>1. QED
    BY <1>1, <1>4, <1>5, Induction
<1>7. QED
  BY <1>6 DEF r, q

-----------------------------------------------------------------------------
(* Lookups against the replay.                                             *)

(* A nonempty set of transactions has exactly one latest.                  *)
LEMMA LatestExists ==
  ASSUME NEW S \in SUBSET Tasks, S # {}
  PROVE  \E i \in S : Latest(S) = {i}
<1> DEFINE T == {m \in Nat : \E i \in S : m = N - i}
<1>1. \A i \in S : i \in Int /\ N - i \in Nat
  BY BlockAssumption DEF Tasks
<1>2. T \in SUBSET Nat /\ T # {}
  BY <1>1
<1>3. PICK m \in T : \A l \in T : m <= l
  <2> HIDE DEF T
  <2>1. QED
    BY <1>2, Least
<1>4. PICK i \in S : m = N - i
  BY <1>3
<1>5. \A j \in S : j <= i
  <2>1. ASSUME NEW j \in S
        PROVE  j <= i
    <3>1. N - j \in T
      BY <1>1
    <3>2. m <= N - j
      BY <1>3, <3>1
    <3>3. QED
      BY <1>1, <1>4, <3>2, BlockAssumption
  <2>2. QED
    BY <2>1
<1>6. QED
  BY <1>1, <1>5 DEF Latest

(* A lookup before an index finds nothing only if no lower index holds a   *)
(* version; otherwise it finds one, and none lies between it and the index. *)
LEMMA LatestBeforeFinds ==
  ASSUME StoreTypeOK, NEW i \in Tasks, NEW k \in Keys
  PROVE  /\ LatestBefore(i, k) = {} =>
              \A j \in Tasks : j < i => multiVersionMap[k][j].kind = "none"
         /\ \A j \in LatestBefore(i, k) :
              /\ j \in Tasks /\ j < i
              /\ multiVersionMap[k][j].kind # "none"
              /\ \A l \in Tasks : j < l /\ l < i => multiVersionMap[k][l].kind = "none"
<1> DEFINE S == {j \in Held(multiVersionMap[k]) : j <= i - 1}
<1>1. LatestBefore(i, k) = Latest(S)
  BY DEF LatestBefore, GetLatestBeforeIndex
<1>2. S \in SUBSET Tasks
  BY DEF Held
<1>3. ASSUME NEW j \in Tasks, j < i, multiVersionMap[k][j].kind # "none"
      PROVE  j \in S
  BY <1>3 DEF Held, Tasks
<1>4. ASSUME LatestBefore(i, k) = {}, NEW j \in Tasks, j < i
      PROVE  multiVersionMap[k][j].kind = "none"
  <2> HIDE DEF S
  <2>1. S # {} => \E n \in S : Latest(S) = {n}
    BY <1>2, LatestExists
  <2>2. QED
    BY <1>1, <1>3, <1>4, <2>1
<1>5. ASSUME NEW j \in LatestBefore(i, k)
      PROVE  /\ j \in Tasks /\ j < i
             /\ multiVersionMap[k][j].kind # "none"
             /\ \A l \in Tasks : j < l /\ l < i => multiVersionMap[k][l].kind = "none"
  <2>1. j \in S /\ \A l \in S : l <= j
    BY <1>1 DEF Latest
  <2>2. j \in Tasks /\ j < i /\ multiVersionMap[k][j].kind # "none"
    BY <2>1 DEF Held, Tasks
  <2>3. ASSUME NEW l \in Tasks, j < l, l < i
        PROVE  multiVersionMap[k][l].kind = "none"
    <3>1. l \notin S
      BY <2>1, <2>2, <2>3 DEF Tasks
    <3>2. QED
      BY <1>3, <2>3, <3>1
  <2>4. QED
    BY <2>2, <2>3
<1>6. QED
  BY <1>4, <1>5

(* A read that validates is the one value the replay of the lower indices  *)
(* gives; it hides behind no estimate and is in no conflict.               *)
LEMMA ReadValidReplays ==
  ASSUME StoreTypeOK, NEW i \in Tasks, NEW k \in Keys, NEW parent, NEW base \in States,
         ReadValid(i, k, parent), txReadSets[i][k] # {},
         LatestBefore(i, k) = {} => parent[k] = base[k]
  PROVE  /\ txReadSets[i][k] = {Replay(multiVersionMap, base)[i][k]}
         /\ \A j \in LatestBefore(i, k) : ~IsEstimate(multiVersionMap[k][j])
         /\ ReadConflicts(i, k) = {}
<1> DEFINE r == Replay(multiVersionMap, base)
<1>1. PICK v \in txReadSets[i][k] :
        /\ txReadSets[i][k] = {v}
        /\ LatestBefore(i, k) = {} => parent[k] = v
        /\ \A j \in LatestBefore(i, k) : VersionGives(k, j, v)
  BY DEF ReadValid
<1>2. multiVersionMap \in [Keys -> Tree] /\ i \in 0 .. N
  BY BlockAssumption DEF StoreTypeOK, Tasks
<1>3. /\ (\A j \in Tasks : j < i => multiVersionMap[k][j].kind # "value") => r[i][k] = base[k]
      /\ \A j \in Tasks :
           /\ j < i
           /\ multiVersionMap[k][j].kind = "value"
           /\ \A l \in Tasks : j < l /\ l < i => multiVersionMap[k][l].kind # "value"
           => r[i][k] = multiVersionMap[k][j].value
  BY <1>2, ReplayLatest
<1> HIDE DEF r
<1>4. CASE LatestBefore(i, k) = {}
  <2>1. r[i][k] = v
    BY <1>1, <1>3, <1>4, LatestBeforeFinds
  <2>2. QED
    BY <1>1, <1>4, <2>1 DEF r, ReadConflicts
<1>5. CASE LatestBefore(i, k) # {}
  <2>1. PICK j : j \in LatestBefore(i, k)
    BY <1>5
  <2>2. /\ j \in Tasks /\ j < i
        /\ multiVersionMap[k][j].kind # "none"
        /\ \A l \in Tasks : j < l /\ l < i => multiVersionMap[k][l].kind # "value"
    BY <2>1, LatestBeforeFinds
  <2>3. multiVersionMap[k][j].kind \in {"none", "value", "estimate"}
    BY <2>2 DEF StoreTypeOK, Tree, Version
  <2>4. multiVersionMap[k][j].kind = "value" /\ multiVersionMap[k][j].value = v
    BY <1>1, <2>1, <2>2, <2>3 DEF VersionGives, IsEstimate
  <2>5. r[i][k] = v
    BY <1>3, <2>2, <2>4
  <2>6. ReadConflicts(i, k) = {}
    BY <1>1 DEF ReadConflicts
  <2>7. QED
    BY <1>1, <2>5, <2>6 DEF r, VersionGives
<1>6. QED
  BY <1>4, <1>5

(* The final write-back is the replay of the whole block, on any state     *)
(* that has the parent's words where the store holds no value.             *)
LEMMA LatestToStoreReplays ==
  ASSUME StoreTypeOK, NEW base \in States,
         \A k \in Keys : (\A j \in Tasks : multiVersionMap[k][j].kind # "value") =>
                           parentStore[k] = base[k]
  PROVE  LatestToStore = Replay(multiVersionMap, base)[N]
<1> DEFINE r == Replay(multiVersionMap, base)
<1>1. multiVersionMap \in [Keys -> Tree] /\ N \in 0 .. N /\ \A j \in Tasks : j < N
  BY BlockAssumption DEF StoreTypeOK, Tasks
<1>2. r[N] \in States
  BY <1>1, ReplayEquation
<1>3. ASSUME NEW k \in Keys
      PROVE  /\ (\A j \in Tasks : multiVersionMap[k][j].kind # "value") => r[N][k] = base[k]
             /\ \A j \in Tasks :
                  /\ multiVersionMap[k][j].kind = "value"
                  /\ \A l \in Tasks : j < l => multiVersionMap[k][l].kind # "value"
                  => r[N][k] = multiVersionMap[k][j].value
  BY <1>1, ReplayLatest
<1> HIDE DEF r
<1>4. ASSUME NEW k \in Keys
      PROVE  LatestToStore[k] = r[N][k]
  <2> DEFINE tree == multiVersionMap[k]
             S == {j \in Held(tree) : ~IsEstimate(tree[j])}
             picked == GetLatestNonEstimate(tree)
  <2>1. picked = Latest(S) /\ S \in SUBSET Tasks
    BY DEF GetLatestNonEstimate, Held
  <2>2. \A j \in Tasks : j \in S <=> tree[j].kind = "value"
    <3>1. \A j \in Tasks : tree[j].kind \in {"none", "value", "estimate"}
      BY DEF StoreTypeOK, Tree, Version
    <3>2. QED
      BY <3>1 DEF Held, IsEstimate
  <2>3. LatestToStore[k] = IF picked = {} THEN parentStore[k]
                           ELSE tree[CHOOSE j \in picked : TRUE].value
    BY DEF LatestToStore, WrittenBack
  <2> HIDE DEF S, picked
  <2>4. CASE S = {}
    <3>1. picked = {}
      BY <2>1, <2>4 DEF Latest
    <3>2. \A j \in Tasks : tree[j].kind # "value"
      BY <2>2, <2>4
    <3>3. QED
      BY <1>3, <2>3, <3>1, <3>2
  <2>5. CASE S # {}
    <3>1. PICK j \in S : picked = {j}
      BY <2>1, <2>5, LatestExists
    <3>2. (CHOOSE l \in picked : TRUE) = j
      BY <3>1
    <3>3. LatestToStore[k] = tree[j].value
      BY <2>3, <3>1, <3>2
    <3>4. \A l \in S : l <= j
      BY <2>1, <3>1 DEF Latest
    <3>5. j \in Tasks /\ tree[j].kind = "value"
      BY <2>1, <2>2, <3>1
    <3>6. \A l \in Tasks : j < l => tree[l].kind # "value"
      BY <2>2, <3>4, <3>5 DEF Tasks
    <3>7. QED
      BY <1>3, <3>3, <3>5, <3>6
  <2>6. QED
    BY <2>4, <2>5
<1>5. LatestToStore \in States
  BY WriteBackStates
<1>6. QED
  BY <1>2, <1>4, <1>5 DEF States, r

(* A word stays the same in the replay while no task writes it.            *)
LEMMA ReplayUntouched ==
  ASSUME NEW map \in [Keys -> Tree], NEW base \in States, NEW k \in Keys,
         NEW m \in 0 .. N, NEW n \in 0 .. N, m <= n,
         \A j \in Tasks : m <= j /\ j < n => map[k][j].kind # "value"
  PROVE  Replay(map, base)[n][k] = Replay(map, base)[m][k]
<1> DEFINE r == Replay(map, base)
           S == {j \in Tasks : j < m /\ map[k][j].kind = "value"}
           Last(l, j) == /\ j < l
                         /\ map[k][j].kind = "value"
                         /\ \A i \in Tasks : j < i /\ i < l => map[k][i].kind # "value"
<1>1. ASSUME NEW l \in {m, n}
      PROVE  /\ (\A j \in Tasks : j < l => map[k][j].kind # "value") => r[l][k] = base[k]
             /\ \A j \in Tasks : Last(l, j) => r[l][k] = map[k][j].value
  BY ReplayLatest
<1> HIDE DEF r
<1>2. CASE S = {}
  <2>1. \A j \in Tasks : j < n => map[k][j].kind # "value"
    BY <1>2 DEF Tasks
  <2>2. \A j \in Tasks : j < m => map[k][j].kind # "value"
    BY <1>2
  <2>3. QED
    BY <1>1, <2>1, <2>2 DEF r
<1>3. CASE S # {}
  <2>1. PICK j \in S : Latest(S) = {j}
    <3>1. S \in SUBSET Tasks
      OBVIOUS
    <3> HIDE DEF S
    <3>2. QED
      BY <1>3, <3>1, LatestExists
  <2>2. \A i \in S : i <= j
    BY <2>1 DEF Latest
  <2>3. Last(m, j)
    BY <2>2 DEF Tasks
  <2>4. Last(n, j)
    BY <2>2, <2>3 DEF Tasks
  <2> HIDE DEF Last
  <2>5. r[m][k] = map[k][j].value /\ r[n][k] = map[k][j].value
    BY <1>1, <2>3, <2>4
  <2>6. QED
    BY <2>5 DEF r
<1>4. QED
  BY <1>2, <1>3

(* The write-back up to hi of a parent state that replays the first m      *)
(* tasks replays the first hi, unless a task beyond hides a value that one *)
(* from m on has written.                                                  *)
LEMMA LatestToStoreUntilReplays ==
  ASSUME StoreTypeOK, NEW base \in States,
         NEW lo \in 0 .. N, NEW m \in 0 .. N, NEW hi \in 0 .. N, lo <= m, m <= hi,
         parentStore = Replay(multiVersionMap, base)[m],
         \A k \in Keys, i, j \in Tasks :
           m <= i /\ i < hi /\ hi <= j /\ multiVersionMap[k][j].kind = "value" =>
             multiVersionMap[k][i].kind # "value"
  PROVE  LatestToStoreUntil(lo, hi) = Replay(multiVersionMap, base)[hi]
<1> DEFINE r == Replay(multiVersionMap, base)
<1>1. multiVersionMap \in [Keys -> Tree]
  BY DEF StoreTypeOK
<1>2. r[hi] \in States
  BY <1>1, ReplayEquation
<1>3. ASSUME NEW k \in Keys
      PROVE  /\ (\A j \in Tasks : m <= j /\ j < hi => multiVersionMap[k][j].kind # "value") =>
                  r[hi][k] = r[m][k]
             /\ \A j \in Tasks :
                  /\ j < hi
                  /\ multiVersionMap[k][j].kind = "value"
                  /\ \A l \in Tasks : j < l /\ l < hi => multiVersionMap[k][l].kind # "value"
                  => r[hi][k] = multiVersionMap[k][j].value
  BY <1>1, ReplayUntouched, ReplayLatest
<1>4. parentStore = r[m]
  OBVIOUS
<1> HIDE DEF r
<1>5. ASSUME NEW k \in Keys
      PROVE  LatestToStoreUntil(lo, hi)[k] = r[hi][k]
  <2> DEFINE tree == multiVersionMap[k]
             S == {j \in Held(tree) : ~IsEstimate(tree[j])}
             picked == {j \in GetLatestNonEstimate(tree) : lo <= j /\ j < hi}
  <2>1. picked = {j \in Latest(S) : lo <= j /\ j < hi} /\ S \in SUBSET Tasks
    BY DEF GetLatestNonEstimate, Held
  <2>2. \A j \in Tasks : j \in S <=> tree[j].kind = "value"
    <3>1. \A j \in Tasks : tree[j].kind \in {"none", "value", "estimate"}
      BY DEF StoreTypeOK, Tree, Version
    <3>2. QED
      BY <3>1 DEF Held, IsEstimate
  <2>3. LatestToStoreUntil(lo, hi)[k] = IF picked = {} THEN parentStore[k]
                                        ELSE tree[CHOOSE j \in picked : TRUE].value
    BY DEF LatestToStoreUntil, WrittenBack
  <2> HIDE DEF S, picked
  <2>4. CASE \A j \in Tasks : m <= j /\ j < hi => tree[j].kind # "value"
    <3>1. CASE picked = {}
      BY <1>3, <1>4, <2>3, <2>4, <3>1
    <3>2. CASE picked # {}
      <4>1. PICK j \in picked : j = CHOOSE l \in picked : TRUE
        BY <3>2
      <4>2. /\ j \in Tasks /\ j < hi /\ tree[j].kind = "value"
            /\ \A l \in S : l <= j
        BY <2>1, <2>2 DEF Latest
      <4>3. \A l \in Tasks : j < l /\ l < hi => tree[l].kind # "value"
        BY <2>2, <4>2 DEF Tasks
      <4>4. QED
        BY <1>3, <2>3, <3>2, <4>1, <4>2, <4>3
    <3>3. QED
      BY <3>1, <3>2
  <2>5. ASSUME NEW i \in Tasks, m <= i, i < hi, tree[i].kind = "value"
        PROVE  LatestToStoreUntil(lo, hi)[k] = r[hi][k]
    <3>1. PICK j \in S : Latest(S) = {j}
      BY <2>1, <2>2, <2>5, LatestExists
    <3>2. \A l \in S : l <= j
      BY <3>1 DEF Latest
    <3>3. j \in Tasks /\ tree[j].kind = "value"
      BY <2>1, <2>2, <3>1
    <3>4. lo <= j /\ j < hi
      BY <2>2, <2>5, <3>2, <3>3 DEF Tasks
    <3>5. picked = {j}
      BY <2>1, <3>1, <3>4
    <3>6. (CHOOSE l \in picked : TRUE) = j
      BY <3>5
    <3>7. \A l \in Tasks : j < l /\ l < hi => tree[l].kind # "value"
      BY <2>2, <3>2, <3>3 DEF Tasks
    <3>8. QED
      BY <1>3, <2>3, <3>3, <3>4, <3>5, <3>6, <3>7
  <2>6. QED
    BY <2>4, <2>5
<1>6. LatestToStoreUntil(lo, hi) \in States
  BY WriteBackStates
<1>7. QED
  BY <1>2, <1>5, <1>6 DEF States, r

=============================================================================
