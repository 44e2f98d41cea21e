--------------------------- MODULE MultiVersionItem ---------------------------
(***************************************************************************)
(* The versions of one storage key (multiversion/data_structure.go): a     *)
(* B-tree of items ordered by transaction index, one item per index, read  *)
(* and written under the item's own lock.  The tree is a function from     *)
(* transaction indices to versions; NoVersion stands for an index the tree *)
(* does not hold.  A lookup returns the set of indices it found: empty for *)
(* found = false, otherwise the one index of the version.                  *)
(***************************************************************************)
EXTENDS Integers

CONSTANTS
  N,       \* number of transactions of the block
  Values,  \* the 32-byte words a key can hold
  Zero     \* common.Hash{}: the empty word, which stands for a deleted slot

ASSUME BlockAssumption == N \in Nat \ {0}
ASSUME ZeroAssumption  == Zero \in Values

Tasks == 0 .. N - 1

Version   == [kind : {"none", "value", "estimate"}, incarnation : Nat, value : Values]
NoVersion == [kind |-> "none", incarnation |-> 0, value |-> Zero]
Tree      == [Tasks -> Version]
EmptyTree == [i \in Tasks |-> NoVersion]

NewValueItem(incarnation, value) ==
  [kind |-> "value", incarnation |-> incarnation, value |-> value]

\* IsDeleted: a value that is the empty word.
NewDeletedItem(incarnation) == NewValueItem(incarnation, Zero)

NewEstimateItem(incarnation) ==
  [kind |-> "estimate", incarnation |-> incarnation, value |-> Zero]

IsEstimate(version) == version.kind = "estimate"

-----------------------------------------------------------------------------
(* Lookups.                                                                *)

Held(tree) == {i \in Tasks : tree[i].kind # "none"}

Latest(S) == {i \in S : \A j \in S : j <= i}

GetLatest(tree) == Latest(Held(tree))

GetLatestNonEstimate(tree) == Latest({i \in Held(tree) : ~IsEstimate(tree[i])})

GetLatestBeforeIndex(tree, index) == Latest({i \in Held(tree) : i <= index - 1})

-----------------------------------------------------------------------------
(* Updates.  Set refuses the empty word, which the caller must Delete.     *)

Set(tree, index, incarnation, value) ==
  IF value = Zero THEN tree
                  ELSE [tree EXCEPT ![index] = NewValueItem(incarnation, value)]

Delete(tree, index, incarnation) ==
  [tree EXCEPT ![index] = NewDeletedItem(incarnation)]

SetEstimate(tree, index, incarnation) ==
  [tree EXCEPT ![index] = NewEstimateItem(incarnation)]

Remove(tree, index) == [tree EXCEPT ![index] = NoVersion]

=============================================================================
