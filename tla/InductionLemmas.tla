--------------------------- MODULE InductionLemmas ---------------------------
(***************************************************************************)
(* Induction and recursion over the tasks of a block, and sums over the    *)
(* accounts.  The predicate is a set and the recursion a function, so that *)
(* the facts are first-order and can be instantiated by the provers.       *)
(***************************************************************************)
EXTENDS Integers, WellFoundedInduction, FiniteSetTheorems, TLAPS

(* A nonempty set of numbers has a least one.                              *)
LEMMA Least ==
  ASSUME NEW T \in SUBSET Nat, T # {}
  PROVE  \E x \in T : \A y \in T : x <= y
<1> DEFINE R == OpToRel(<, Nat)
<1>1. IsWellFoundedOn(R, Nat)
  BY NatLessThanWellFounded
<1>2. \A x, y \in Nat : y < x => <<y, x>> \in R
  BY DEF OpToRel
<1> HIDE DEF R
<1>3. PICK x \in T : \A y \in T : ~(<<y, x>> \in R)
  BY <1>1, WFMin
<1>4. ASSUME NEW y \in T
      PROVE  x <= y
  <2>1. x \in Nat /\ y \in Nat /\ ~(y < x)
    BY <1>2, <1>3
  <2>2. QED
    BY <2>1
<1>5. QED
  BY <1>4

(* A set that has 0 and, with every m - 1, also m, has 0 .. n.             *)
LEMMA Induction ==
  ASSUME NEW n \in Nat, NEW S, 0 \in S, \A m \in 1 .. n : m - 1 \in S => m \in S
  PROVE  \A m \in 0 .. n : m \in S
<1> DEFINE T == {m \in 0 .. n : m \notin S}
<1>1. SUFFICES ASSUME T # {} PROVE FALSE
  OBVIOUS
<1>2. T \in SUBSET Nat
  OBVIOUS
<1>3. PICK m \in T : \A y \in T : m <= y
  <2> HIDE DEF T
  <2>1. QED
    BY <1>1, <1>2, Least
<1>4. m \in 0 .. n /\ m \notin S
  OBVIOUS
<1>5. m \in 1 .. n
  BY <1>4
<1>6. m - 1 \in 0 .. n /\ ~(m <= m - 1)
  BY <1>5
<1>7. m - 1 \notin T
  BY <1>3, <1>6
<1>8. m - 1 \in S
  BY <1>6, <1>7
<1>9. QED
  BY <1>4, <1>5, <1>8

\* f is given on 0 .. n by recursion: step[m] takes the value for m - 1 to that
\* for m.
GivenBy(f, n, S, init, step) ==
  /\ f \in [0 .. n -> S]
  /\ f[0] = init
  /\ \A m \in 1 .. n : f[m] = step[m][f[m - 1]]

(* Such a function exists.                                                 *)
LEMMA Recursion ==
  ASSUME NEW n \in Nat, NEW S, NEW init \in S, NEW step \in [1 .. n -> [S -> S]]
  PROVE  \E f : GivenBy(f, n, S, init, step)
<1> DEFINE Good(m, f) == GivenBy(f, m, S, init, step)
           Done == {m \in Nat : \E f : Good(m, f)}
<1> USE DEF GivenBy
<1>1. 0 \in Done
  <2>1. Good(0, [l \in 0 .. 0 |-> init])
    OBVIOUS
  <2>2. [l \in 0 .. 0 |-> init] \in [0 .. 0 -> S]
    OBVIOUS
  <2>3. QED
    BY <2>1, <2>2
<1>2. ASSUME NEW m \in 1 .. n, m - 1 \in Done
      PROVE  m \in Done
  <2>1. PICK f : Good(m - 1, f)
    BY <1>2
  <2> DEFINE last == step[m][f[m - 1]]
             g == [l \in 0 .. m |-> IF l = m THEN last ELSE f[l]]
  <2>2. last \in S
    <3>1. m - 1 \in 0 .. m - 1
      OBVIOUS
    <3>2. f[m - 1] \in S
      BY <2>1, <3>1
    <3>3. QED
      BY <3>2
  <2>3. g \in [0 .. m -> S]
    <3> HIDE DEF last
    <3>1. ASSUME NEW l \in 0 .. m, l # m
          PROVE  f[l] \in S
      <4>1. l \in 0 .. m - 1
        BY <3>1
      <4>2. QED
        BY <2>1, <4>1
    <3>2. QED
      BY <2>2, <3>1
  <2>4. g[0] = init
    <3>1. 0 \in 0 .. m /\ 0 # m
      OBVIOUS
    <3>2. QED
      BY <2>1, <3>1
  <2>5. ASSUME NEW l \in 1 .. m
        PROVE  g[l] = step[l][g[l - 1]]
    <3>1. l - 1 \in 0 .. m /\ l - 1 # m /\ l \in 0 .. m
      OBVIOUS
    <3>2. g[l - 1] = f[l - 1]
      BY <3>1
    <3>3. CASE l = m
      BY <3>1, <3>2, <3>3
    <3>4. CASE l # m
      <4>1. l \in 1 .. m - 1
        BY <3>4
      <4>2. f[l] = step[l][f[l - 1]]
        BY <2>1, <4>1
      <4>3. g[l] = f[l]
        BY <3>1, <3>4
      <4>4. QED
        BY <3>2, <4>2, <4>3
    <3>5. QED
      BY <3>3, <3>4
  <2>6. m \in Nat
    OBVIOUS
  <2> HIDE DEF g
  <2>7. Good(m, g)
    BY <2>3, <2>4, <2>5
  <2>8. QED
    BY <2>6, <2>7
<1> HIDE DEF Good
<1>3. n \in Done
  <2> HIDE DEF Done
  <2>1. \A m \in 0 .. n : m \in Done
    BY <1>1, <1>2, Induction
  <2>2. QED
    BY <2>1
<1>4. QED
  BY <1>3 DEF Good

-----------------------------------------------------------------------------
(* Sums.                                                                   *)

\* sum gives the sums of f over the subsets of S, element by element as
\* MapThenSumSet takes them.
Adds(sum, f, S) ==
  \A s \in SUBSET S :
    sum[s] = IF s = {} THEN 0
             ELSE LET x == CHOOSE x \in s : TRUE IN f[x] + sum[s \ {x}]

SumsOf(sum, f, S) == sum \in [SUBSET S -> Int] /\ Adds(sum, f, S)

\* g is f with v taken away from one term.
LessAt(g, f, S, a, v) == \A x \in S : g[x] = IF x = a THEN f[x] - v ELSE f[x]

(* A finite set without elements is empty.                                 *)
LEMMA EmptyOnly ==
  ASSUME NEW S, IsFiniteSet(S), NEW s \in SUBSET S, Cardinality(s) = 0
  PROVE  s = {}
<1>1. IsFiniteSet(s)
  BY FS_Subset
<1> QED
  BY <1>1, FS_EmptySet

(* Taking the chosen element away leaves a smaller set.                    *)
LEMMA Smaller ==
  ASSUME NEW S, IsFiniteSet(S), NEW s \in SUBSET S, s # {}
  PROVE  LET x == CHOOSE x \in s : TRUE
         IN  /\ x \in s /\ x \in S
             /\ s \ {x} \in SUBSET S
             /\ Cardinality(s) \in Nat /\ Cardinality(s) > 0
             /\ Cardinality(s \ {x}) = Cardinality(s) - 1
<1> DEFINE x == CHOOSE x \in s : TRUE
<1>1. x \in s
  OBVIOUS
<1> HIDE DEF x
<1>2. IsFiniteSet(s)
  BY FS_Subset
<1>3. Cardinality(s) \in Nat /\ Cardinality(s) # 0
  BY <1>2, FS_CardinalityType, FS_EmptySet
<1>4. Cardinality(s \ {x}) = Cardinality(s) - 1
  BY <1>1, <1>2, FS_RemoveElement
<1> QED
  BY <1>1, <1>3, <1>4 DEF x

(* The sums over the subsets of a finite set exist.                        *)
LEMMA SumsExist ==
  ASSUME NEW S, IsFiniteSet(S), NEW f \in [S -> Int]
  PROVE  \E sum : SumsOf(sum, f, S)
<1> DEFINE Value(sum, s) == IF s = {} THEN 0
                            ELSE LET x == CHOOSE x \in s : TRUE IN f[x] + sum[s \ {x}]
           n == Cardinality(S)
           UpTo(sum, m) == /\ sum \in [SUBSET S -> Int]
                           /\ \A s \in SUBSET S : Cardinality(s) <= m => sum[s] = Value(sum, s)
           Done == {m \in Nat : \E sum : UpTo(sum, m)}
<1>1. n \in Nat /\ \A s \in SUBSET S : Cardinality(s) \in Nat /\ Cardinality(s) <= n
  BY FS_Subset, FS_CardinalityType
<1>2. 0 \in Done
  <2> DEFINE sum == [s \in SUBSET S |-> 0]
  <2>1. sum \in [SUBSET S -> Int]
    OBVIOUS
  <2>2. \A s \in SUBSET S : Cardinality(s) <= 0 => s = {}
    BY <1>1, EmptyOnly
  <2>3. UpTo(sum, 0)
    BY <2>1, <2>2
  <2> QED
    BY <2>3
<1>3. ASSUME NEW m \in 1 .. n, m - 1 \in Done PROVE m \in Done
  <2>1. PICK old : UpTo(old, m - 1)
    BY <1>3
  <2> DEFINE sum == [s \in SUBSET S |-> IF Cardinality(s) <= m - 1 THEN old[s] ELSE Value(old, s)]
  <2>2. ASSUME NEW s \in SUBSET S PROVE Value(old, s) \in Int
    <3>1. CASE s = {}
      BY <3>1
    <3>2. CASE s # {}
      <4> DEFINE x == CHOOSE x \in s : TRUE
      <4>1. x \in S /\ s \ {x} \in SUBSET S
        BY <3>2, Smaller
      <4>2. Value(old, s) = f[x] + old[s \ {x}]
        BY <3>2
      <4> HIDE DEF x, Value
      <4> QED
        BY <2>1, <4>1, <4>2
    <3> QED
      BY <3>1, <3>2
  <2>3. sum \in [SUBSET S -> Int]
    <3> HIDE DEF Value
    <3> QED
      BY <2>1, <2>2
  <2>4. ASSUME NEW s \in SUBSET S, Cardinality(s) <= m PROVE sum[s] = Value(sum, s)
    <3>1. sum[s] = Value(old, s)
      <4> HIDE DEF Value
      <4> QED
        BY <2>1
    <3>2. CASE s = {}
      BY <3>1, <3>2
    <3>3. CASE s # {}
      <4> DEFINE x == CHOOSE x \in s : TRUE
      <4>1. s \ {x} \in SUBSET S /\ Cardinality(s \ {x}) <= m - 1
        BY <1>1, <2>4, <3>3, Smaller
      <4>2. Value(old, s) = f[x] + old[s \ {x}] /\ Value(sum, s) = f[x] + sum[s \ {x}]
        BY <3>3
      <4> HIDE DEF x, Value
      <4>3. sum[s \ {x}] = old[s \ {x}]
        BY <4>1
      <4> QED
        BY <3>1, <4>2, <4>3
    <3> QED
      BY <3>2, <3>3
  <2> HIDE DEF sum, Value
  <2>5. UpTo(sum, m)
    BY <2>3, <2>4
  <2> QED
    BY <2>5
<1>4. n \in Done
  <2> HIDE DEF Done
  <2>1. \A m \in 0 .. n : m \in Done
    <3> HIDE DEF n
    <3> QED
      BY <1>1, <1>2, <1>3, Induction
  <2> QED
    BY <1>1, <2>1
<1>5. PICK sum : UpTo(sum, n)
  BY <1>4
<1>6. SumsOf(sum, f, S)
  BY <1>1, <1>5 DEF SumsOf, Adds
<1> QED
  BY <1>6

(* There is only one function of them.                                     *)
LEMMA SumsUnique ==
  ASSUME NEW S, IsFiniteSet(S), NEW f \in [S -> Int], NEW sum, SumsOf(sum, f, S), NEW g,
         Adds(g, f, S)
  PROVE  \A s \in SUBSET S : g[s] = sum[s]
<1> DEFINE n == Cardinality(S)
           Done == {m \in Nat : \A s \in SUBSET S : Cardinality(s) = m => g[s] = sum[s]}
<1>1. n \in Nat /\ \A s \in SUBSET S : Cardinality(s) \in 0 .. n
  BY FS_Subset, FS_CardinalityType
<1>2. 0 \in Done
  <2>1. \A s \in SUBSET S : Cardinality(s) = 0 => s = {}
    BY EmptyOnly
  <2>2. g[{}] = sum[{}]
    BY DEF SumsOf, Adds
  <2> QED
    BY <2>1, <2>2
<1>3. ASSUME NEW m \in 1 .. n, m - 1 \in Done PROVE m \in Done
  <2> SUFFICES ASSUME NEW s \in SUBSET S, Cardinality(s) = m PROVE g[s] = sum[s]
    BY <1>1
  <2>0. Cardinality(s) # 0 /\ Cardinality({}) = 0
    BY <1>1, FS_EmptySet
  <2>1. s # {}
    BY <2>0
  <2> DEFINE x == CHOOSE x \in s : TRUE
             r == s \ {x}
  <2>2. r \in SUBSET S /\ Cardinality(r) = m - 1
    BY <2>1, Smaller
  <2>3. sum[s] = f[x] + sum[r] /\ g[s] = f[x] + g[r]
    BY <2>1 DEF SumsOf, Adds
  <2> HIDE DEF x, r
  <2>4. g[r] = sum[r]
    BY <1>3, <2>2
  <2> QED
    BY <2>3, <2>4
<1>4. \A m \in 0 .. n : m \in Done
  <2> HIDE DEF n, Done
  <2> QED
    BY <1>1, <1>2, <1>3, Induction
<1> QED
  BY <1>1, <1>4

(* Taking v away from one term takes it away from every sum that has it.   *)
LEMMA SumsChange ==
  ASSUME NEW S, IsFiniteSet(S), NEW f \in [S -> Int], NEW g \in [S -> Int],
         NEW F, SumsOf(F, f, S), NEW G, SumsOf(G, g, S),
         NEW a, NEW v \in Int, LessAt(g, f, S, a, v)
  PROVE  \A s \in SUBSET S : G[s] = IF a \in s THEN F[s] - v ELSE F[s]
<1> DEFINE n == Cardinality(S)
           Holds(s) == G[s] = IF a \in s THEN F[s] - v ELSE F[s]
           Done == {m \in Nat : \A s \in SUBSET S : Cardinality(s) = m => Holds(s)}
<1>1. n \in Nat /\ \A s \in SUBSET S : Cardinality(s) \in 0 .. n
  BY FS_Subset, FS_CardinalityType
<1>2. 0 \in Done
  <2>1. \A s \in SUBSET S : Cardinality(s) = 0 => s = {}
    BY EmptyOnly
  <2>2. Holds({})
    BY DEF SumsOf, Adds
  <2> HIDE DEF Holds
  <2> QED
    BY <2>1, <2>2
<1>3. ASSUME NEW m \in 1 .. n, m - 1 \in Done PROVE m \in Done
  <2> SUFFICES ASSUME NEW s \in SUBSET S, Cardinality(s) = m PROVE Holds(s)
    BY <1>1
  <2>0. Cardinality(s) # 0 /\ Cardinality({}) = 0
    BY <1>1, FS_EmptySet
  <2>1. s # {}
    BY <2>0
  <2> DEFINE x == CHOOSE x \in s : TRUE
             r == s \ {x}
  <2>2. x \in s /\ x \in S /\ r \in SUBSET S /\ Cardinality(r) = m - 1
    BY <2>1, Smaller
  <2>3. Holds(r)
    <3> HIDE DEF r, Holds
    <3> QED
      BY <1>3, <2>2
  <2>4. F[s] = f[x] + F[r] /\ G[s] = g[x] + G[r] /\ F[r] \in Int
    BY <2>1, <2>2 DEF SumsOf, Adds
  <2>5. a \in r <=> a \in s /\ a # x
    OBVIOUS
  <2>6. f[x] \in Int /\ g[x] = IF x = a THEN f[x] - v ELSE f[x]
    BY <2>2 DEF LessAt
  <2> HIDE DEF x, r
  <2> QED
    BY <2>2, <2>3, <2>4, <2>5, <2>6
<1>4. \A m \in 0 .. n : m \in Done
  <2> HIDE DEF n, Done
  <2> QED
    BY <1>1, <1>2, <1>3, Induction
<1> QED
  BY <1>1, <1>4

=============================================================================
