----------------------------- MODULE MCScheduler -----------------------------
(***************************************************************************)
(* Instances of the scheduler for TLC: blocks of small transactions on two *)
(* keys.                                                                   *)
(***************************************************************************)
EXTENDS SequentialInvariant, TLC

CONSTANTS a, b   \* the keys

MCInitState == [k \in Keys |-> Zero]

(* add is a counter (a nonce, a balance); copy and put are an SSTORE that  *)
(* no SLOAD of the slot precedes; putif and clearif write, or delete, only *)
(* if the word they read is the given one; nonce fails before its turn has *)
(* come; destroy meets SELFDESTRUCT if the word it reads is zero; swap is  *)
(* a transfer: it reads two keys and writes both.                          *)
Program(op, from, to, word) == [op |-> op, from |-> from, to |-> to, word |-> word]

Add(k)           == Program("add", k, k, 0)
Copy(k, l)       == Program("copy", k, l, 0)
Put(l, v)        == Program("put", l, l, v)
PutIf(k, v, l)   == Program("putif", k, l, v)
ClearIf(k, v, l) == Program("clearif", k, l, v)
Nonce(k, v)      == Program("nonce", k, k, v)
Destroy(k, l)    == Program("destroy", k, l, 0)
Swap(k, l)       == Program("swap", k, l, 0)

MCPrograms ==
  [op : {"add", "copy", "put", "putif", "clearif", "nonce", "destroy", "swap"},
   from : Keys, to : Keys, word : Values]

Succ(v) == (v + 1) % Cardinality(Values)

If(test, write) == IF test THEN write ELSE [k \in {} |-> Zero]

MCDeliver(p, s) ==
  LET word == s[p.from]
  IN  [result |-> CASE p.op = "nonce" /\ word # p.word   -> "err"
                    [] p.op = "destroy" /\ word = Zero   -> "selfdestruct"
                    [] OTHER                             -> "ok",
       reads  |-> CASE p.op = "put"  -> {}
                    [] p.op = "swap" -> {p.from, p.to}
                    [] OTHER         -> {p.from},
       writes |-> CASE p.op \in {"add", "nonce", "destroy"} -> p.to :> Succ(word)
                    [] p.op = "copy"    -> p.to :> word
                    [] p.op = "swap"    -> p.to :> word @@ p.from :> s[p.to]
                    [] p.op = "put"     -> p.to :> p.word
                    [] p.op = "putif"   -> If(word = p.word, p.to :> 1)
                    [] p.op = "clearif" -> If(word = p.word, p.to :> Zero)]

\* Every block of one transaction of each of these kinds.
EveryBlock ==
  [Tasks -> {Add(a), Add(b), Copy(a, b), Put(a, 1), PutIf(a, 0, b),
             ClearIf(a, 0, a), Nonce(a, 1), Destroy(a, b), Swap(a, b)}]

Block(seq) == [i \in Tasks |-> seq[i + 1]]

\* Four transactions that take every way through the scheduler: a chain, tasks
\* with two dependencies, a sender's transactions out of turn, a task that comes
\* to wait on itself, and one stranded behind a transaction that always fails.
WaitingBlock  == Block(<<Add(a), Add(a), Destroy(a, b), Add(b)>>)
StrandedBlock == Block(<<Nonce(b, 1), Put(a, 1), ClearIf(a, 0, a), Copy(a, b)>>)
HardBlocks == {Block(<<Add(a), Add(a), Copy(a, b), Add(a)>>),
               Block(<<Add(a), Add(b), Swap(a, b), Swap(a, b)>>),
               Block(<<Nonce(a, 1), Add(a), Nonce(a, 1), Add(b)>>),
               WaitingBlock, StrandedBlock}

\* A task that reads a key which the tasks before and after it write blindly.
BlindBlocks == {Block(<<Put(a, 1), Copy(a, b), Put(a, 2)>>)}

\* Two transactions for the same nonce, one that reads what they write, and one
\* that meets SELFDESTRUCT whenever it runs.
UnexecutedBlocks == {Block(<<Nonce(b, 0), Nonce(b, 0), Add(b), Destroy(a, a)>>)}

StrandedBlocks == {StrandedBlock}

=============================================================================
