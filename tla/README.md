# go-pevm in TLA+

go-pevm executes the transactions of a Kaia block in parallel, optimistically,
and is meant to leave the state that executing them one after the other leaves.
This directory models the engine that does it, model-checks it on small blocks
and proves what it rests on for all blocks, transactions and contract code.

## 1. Inventory

| component | state | operations | what makes it correct |
|---|---|---|---|
| versions of a key (`multiversion/data_structure.go`) | a B-tree of items, one per transaction index: value, deletion or estimate; a lock | `Set`, `Delete`, `SetEstimate`, `Remove`; `GetLatest`, `GetLatestNonEstimate`, `GetLatestBeforeIndex` | a lookup finds the highest index that qualifies |
| multi-version store (`multiversion/store.go`) | the trees, recorded keys and read set of each transaction, the parent `StateDB` | `SetWriteset`, `SetEstimatedWriteset`, `InvalidateWriteset`, `SetReadset`, `ClearReadset`, `ValidateTransactionState`, `WriteLatestToStore(Until)` | the key index is exact; a valid read set is what a re-run would read; the write-back replays the block |
| tracer (`multiversion/tracer.go`) | read set, write set, abort channel of one run | EVM callbacks, `Get`, `Set`, `WriteAbort`, publishing to the store | the write set is the effect of the run, the read set all it depended on; an estimate aborts the run |
| storage keys (`multiversion/storage_key.go`) | none | `GetValue`, `SetValue` | a key written back is read back |
| scheduler (`scheduler/scheduler.go`) | tasks (status, incarnation, dependencies, response), round counter, `lastStoreIdx`, `maxIncarnation`, `synchronous` | `ProcessAll`: `executeAll`, `validateAll`, `processAllSync` | the result is sequential; what is written back is final; it ends |
| processor (`processor/processor.go`) | none of its own | `Execute`, `deliverTx` | calls the scheduler once, with indices 0, 1, ... |
| sequential executor (`chain/chain.go`) | the `StateDB` | `CommitTransaction` | the reference |
| test storage, contract bindings, constants | none that changes | file input | not modelled, see section 7 |

How they interact: `Processor.Execute` makes a scheduler per block and calls
`ProcessAll`. The main goroutine alternates an execution phase and a validation
phase, each a pool of goroutines fed by a channel and joined by a `WaitGroup`.
An execution worker runs the transaction on a copy of the parent state; the
EVM calls the task's tracer, which reads the shared parent state, looks for
estimates in the store, and at the end publishes its write set (and read set)
to the store. A validation worker checks a task's read set against the store
and the parent state, and may invalidate the task. Between rounds the
validated tasks at the front of the block are written back to the parent
state. After `maximumIterations` (10) rounds the tasks left are executed in
order on the main goroutine.

What is hard here: publication, validation and invalidation go key by key with
no lock over several keys; a status is read and acted on later; only the main
goroutine's phases order the workers; the parent state is what every
transaction reads and is moved forward while some keys are skipped; tasks
wait on tasks that may never finish; failure of a transaction leaves the task
where it was. The tracer keeps its own books beside the EVM, and the block's
result is made of those books, not of the state the EVM ended in. `PROJECT.json`
lists each of these hazards at its line.

## 2. Modules

| module | models |
|---|---|
| `MultiVersionItem` | the tree of a key, as a function from index to version |
| `MultiVersionStore` | the store: its state, the effect of every call on it, validation of a key, write-back |
| `StoreClient` | the store under any client: any call, any argument, any order |
| `Scheduler` | one `ProcessAll`, every worker step, over the same store |
| `SequentialBlock` | the abstract specification: a block committed in order, `CommitTransaction` by `CommitTransaction` |
| `SchedulerCorrectness` | the refinement mapping from `Scheduler` to `SequentialBlock`, and the properties |
| `StorageKey` | kinds of keys, and how each is read from and written to a `StateDB` |
| `AccessListTracer` | each callback as an operator from tracer to tracer |
| `TracedRun` | one transaction: the EVM, external, running arbitrary code with the tracer attached |
| `MCStoreClient`, `MCScheduler`, `MCTracedRun` | instances: transactions, blocks, messages |
| `MCTracedBlocks` | scheduler and tracer composed: `Deliver` is what the tracer makes of a transfer or of a call that stores a word |
| `MCTransfers` | the same on blocks of transfers, with the assumption of the proofs that their read sets are complete |
| `SchedulerInvariant`, `SequentialInvariant`, `UpdateInvariant`, `TracedRunInvariant` | the inductive invariants of the proofs |
| `InductionLemmas`, `MultiVersionStoreLemmas` | facts the proofs share |
| `StoreClientProofs`, `SchedulerProofs`, `RoundsProofs`, `SequentialProofs`, `UpdateProofs`, `TracedRunProofs` | the theorems (section 5) |

**State.** Variables carry the code's names. `pc[i]` is where the worker that
has task `i` is (`idle`: none has); a task is never in two workers, so task
index and goroutine are one. `phase` is where the main goroutine is. `todo[i]`
is what the worker's current loop over keys has left. A read set maps a key to
a *set* of values, since `UpdateReadSet` drops duplicates; `KeysRead` are the
keys of the map. Missing and empty entries of the store's maps are the same
to every operation.

**Steps.** A worker step touches shared state once. Execution: `Begin`, one
`Get` per key read, `SelfDestruct`, `Aborted` or `Executed` (which takes the
recorded keys away), one `Publish` per key, `Finish`. Validation: `Branch` on
the status, one `CheckRead` per key, then `Accept` or `Reject`; `Invalidate`
per key, `Depend`, one `DependencyCheck` per dependency, `Wait` or `Reset`,
and `LoadMax`/`StoreMax` for the two accesses to `maxIncarnation`. The main
goroutine: `StartRound` (write-back and `executeAll`), `StartValidation`,
`EndRound`, `GoSynchronous`, `Return`. In the synchronous pass nothing runs
beside the main goroutine, so one iteration of `processAllSync` is one step:
`SyncSkip`, `SyncStrand` or `SyncRun`.

**Order of keys and tasks.** Go iterates over maps in any order, and the model
takes the keys in any order. The execution channel is a FIFO queue and the
model lets the free workers take any queued task, which includes the queue's
order.

**Transactions.** What the EVM does is the parameter `Deliver(tx, state)`: it
fails, or reads some keys and writes some, and may meet `SELFDESTRUCT`. It is
a function of the state at the beginning of the run, as a deterministic
transaction on a copy of the parent state is. `reads` are the keys the tracer
records: those read before the transaction writes them. In `MCScheduler` the
transactions are small and abstract: counters, blind writes, conditional writes
and deletions, swaps of two keys, a nonce check that fails, a conditional
`SELFDESTRUCT`. In `MCTracedBlocks` they are messages with fee, nonce and value,
and `AccessListTracer` computes the reads and writes.

**Tracer.** A tracer is a record of read set, write set and whether
`SELFDESTRUCT` was met. `Get` is split into the value it returns (`Get`) and
what it records (`Read`). `BigToHash` drops the sign of a number as the library
does; words and nonces wrap at `WordSize` and `NonceSize`. A key is a record of
account and slot; contracts are taken not to use the six reserved words as slots
(`SlotsAssumption`). `WriteBack` is the store's key-by-key `SetValue` in closed
form; that the two agree, in any order, is the lemma `WriteBackSets`.

**EVM.** `TracedRun` has one action per kind of opcode that matters here, plus
the start and end of the transaction and the end of a frame, good or bad. The
code of a contract is arbitrary: any opcode may come next while there is gas.
Each costs one unit, `SSTORE` two if it fills an empty slot; a failed frame
restores the state it was entered with and keeps its gas or loses all of it. The
EVM and the `StateDB` are the Kaia library's, so all of this is marked external
in the map; refunds for clearing a slot, precompiles, static calls and the gas
reserved at a call are left out, as nothing the tracer does depends on them.
Senders have no code (`SendersAssumption`): Kaia keeps externally owned and
contract accounts apart. Nonces and balances are far from where they would wrap
(`SmallAssumption`): a nonce below 2^63 less the gas, a balance with fee and
value below 2^256. Three
history variables serve the properties: `met`, the operations that the tracer is
known to book differently; `observed`, the keys whose value in the parent state
the run depended on, the code that a call or the message runs among them; and
`codes`, those of `observed` that mattered only as code to be run, or as the
code size of the sender, which `CaptureStart` looks at (`tracer.go:108`). A call,
`CALLCODE`, `DELEGATECALL` or `CREATE` adds the code hash of the account it runs
to `codes`; an `EXTCODE*` of the same key takes it out again.

## 3. Properties and runs

| run | instance | shows |
|---|---|---|
| `store` | 3 indices, 1 key, every call | `WritesetIndexed`: the recorded keys are the keys with a version. `ValidMeansReread`: a read set that is accepted, valid and without conflicts, is the replay of the lower indices and hides no estimate. `WriteBackReplays`: the last write-back is the replay of all |
| `rounds` | all 729 blocks of 3, one worker per task, 3 rounds | `CommittedIsSequential`: the versions of the tasks written back are those of sequential execution. `ParentIsCommitted`: the parent state holds only such values. `UpdatesSeeLatest`: in a block of updates the parent state is that of all committed tasks. `ParallelIsSequential`: the result is that of sequential execution when no fallback was needed, and for steady updates also with the fallback. `RoundsImplementSequential`: each step is one of `SequentialBlock`, up to the return of the fallback, and for steady updates that one too. `CommittedIsFinal`: no step, the synchronous pass included, touches a task that was written back. `MaxIncarnationExact`, `NoTaskForgotten`, `VersionsRecorded` and the types |
| `progress` | 5 hard blocks of 4, 2 workers, 3 rounds | `Termination` |
| `transfers` | scheduler and tracer; all 24 orders of 4 transfers, 2 workers, 5 rounds | `ImplementsSequential`: `ProcessAll`, fallback included, implements `SequentialBlock`. `RoundsPerTask`: at most two rounds for each task at the front, in blocks of updates of which none fails in its turn |
| `tracer` | any code of 3 units of gas, call depth 3, 6 messages, 2 parent states | `PlainRunIsExact`: after every step the write set, written back, is the EVM's state. `ObservedIsRecorded`: what the run depended on is in the read set, the codes that were run excepted, and no write set names a code key. `ReadsetIsParents`: the read set holds words of the parent state, never the run's own writes. `SupplyPreserved`: the balances lose the fee and nothing else |

An *update* reads, and changes, each word it writes, and meets no
`SELFDESTRUCT`, on any of the sequential states up to its turn on which it is
not refused; a counter is one, and a transfer that leaves no balance as it was.
*Steady* updates are, besides, refused on none of these states, and write the
same keys on all of them (`UpdatesOnly`, `SteadyUpdates`).

The refinement maps the number of committed transactions to `lastStoreIdx` and
their state to the replay of the versions below it; when `ProcessAll` has
returned they are the whole block and the parent state. That it does return is
`Termination`, checked by itself: it holds for blocks that are not implemented
correctly, too.

`PlainRunIsExact` leaves out runs in which a frame failed, value was passed on
by a call, or a contract was created or destroyed; `ObservedIsRecorded` leaves
out also those that stored in a slot not read before, or met `SELFBALANCE`. They
are left out because the tracer is wrong about them (section 4), and each
exception is needed: the property fails without it.

Code is a case of its own. The tracer has keys for it and records them for
`EXTCODE*`, but not for the code that `CALL`, `CALLCODE`, `DELEGATECALL` and the
message run, nor for the code size of the sender: those are in no read set, and
validation could not see a change of them. `ObservedIsRecorded` therefore
excepts them (`codes`) and says why this is no stale read within a block: no
write set names a code key, so no transaction changes code for another. That is
so because created code is lost altogether (`uncaptured`, section 4); were it
written back, these reads would have to be recorded.

Each property has a mutant in `PROJECT.json`, a plausible slip in the code that
the run would catch; the mutated operators stand before the originals in the
modules, marked "Mutant".

**Bounds.** Three tasks are the fewest with a task between two others that
write its key, a dependency on a task that is itself invalidated, and a task
validated over an invalidated one; four are needed for a task that waits on
itself or is stranded. Two keys let publication and validation be seen half
done. Values are as many as a chain of counters needs so that two tasks never
write the same word by chance. Two or three rounds make both ends of
`ProcessAll` reachable; five rounds for four transfers are enough for all of
`RoundsPerTask` and still let a chain run into the fallback. The runs of
section 4 that have rounds use the code's ten.
`Workers = 0` is one worker per task, as the tests have it; `Workers = 2` makes
the pool smaller than the block. `MaxIncarnation` of the store runs is 0, and
one key is enough: no operation of the store compares incarnations or relates
two keys. Three units of gas are the fewest in which a slot is filled and stored
again or two calls are nested and something done inside; the sender's balance is
just its fee and value, so that a booking too many goes below zero. Words wrap
at 16 (8 in the blocks), above every balance.

**Fairness.** `WF_vars(Next)`: some step happens while one is possible. The
goroutines wait only for the main goroutine's channels, which have room for
every task, and for the short lock of one tree; Go's scheduler runs runnable
goroutines. Nothing stronger is needed, as every step of a round uses up part
of it. The runs of the tracer state none: they are about safety. Deadlock is
checked in every run; `Terminated` is the stuttering of a `ProcessAll` that has
returned.

## 4. Where code and text differ

| run | what the code does |
|---|---|
| `blind` | `WriteLatestToStoreUntil` looks at the latest non-estimate version of *all* indices and skips the key if it lies beyond the committed prefix. A committed value under a later blind write never reaches the parent state, `lastStoreIdx` moves on, and the tasks between read the old value for ever, in `processAllSync` too. The tests' `root = rootSequential` fails for such a block |
| `stranded` | `executeTask` ignores `shouldRerun`'s answer: a validated task whose second validation fails with all dependencies validated stays validated, its writes estimates that are not written back |
| `unexecuted` | two transactions without a response in one block. The last meets `SELFDESTRUCT`, which aborts in the sequential pass as well (and leaves the task its own dependency, as none is ever cleared). The one before it reads a key behind an estimate that nobody removes: the second of two transactions for one nonce ran once, was invalidated by the first, and fails from then on; the reader aborts on its estimate in `processAllSync` too |
| `estimate` | a read with an estimate in its way is invalid whatever value was read (`store.go:255`); `store_test.go:376` expects `valid` with the estimate's owner as the only conflict, and `scheduler.go:351` and `:369` speak of that case. The store never answers so; the scheduler's branch for it is dead, and the task is invalidated instead, which is the safe side (`ValidMeansReread`) |
| `sstore_gas` | an `SSTORE` costs more in an empty slot, but reads nothing: the second of two that fill the same slot is validated with the fee of the first. No fallback is involved |
| `reverted` | a failed frame's writes stay in the write set; a reverted transaction still moves its value |
| `uncaptured` | at `CALL` the frame's value is booked again from the frame's caller, to the account that the gas argument reads as; the value of the call is not booked. In the run's trace the caller cannot pay it twice, and its balance of -1 is booked as 1. `CREATE` has no case: created code and nonces are lost |

Two more blocks, of plain transfers, end like `blind`; `Nothing.cfg` and
`Refused.cfg` (module `MCTracedBlocks`) give the traces, with `AlwaysSequential`
violated. They show what the conditions of `SteadyUpdates` are for.

* A transfer of 0 writes the balance it read (a to b 1, c to b 0, b to b 1).
  Validation compares values (`store.go:263`), so b's transfer is valid against
  the stale balance that c's has written again; its own version then hides the
  committed balance from the write-back (`store.go:314`), and c's transfer reads
  the stale one for ever.
* A transfer that every round refuses, since its sender's first one is not yet
  written back, runs for the first time in the fallback (b to b for nonce 1,
  refused; a to a; a to b; b to b for nonce 0). The last one was validated
  meanwhile: its version hides the new balance from the write-back, its second
  validation fails, and it is executed again on the old balance.

Together with the proofs this says where the scheduler's line is. Whatever is
written back or returned without the fallback is right, given read and write
sets that are. The fallback is right for steady updates (proved) and for the
transfers of the run `transfers`, some of which are refused (model-checked). It
can be wrong once a transaction writes a word it has not read (`blind`), writes
one unchanged, is refused until the fallback, or fails after it has once run
(`unexecuted`). `tracer` and the last three runs say for which contracts the read
and write sets are right.

Two comments and a test differ from the code in ways the model follows the code
in. `scheduler.go:125` and `:293` say that incarnations decide on the fallback;
rounds do. `:349` says that a task is not checked once one before it is found
invalid; all are handed out at once. `tracer_test.go:42-78` expects `Get` to
return the version of a lower transaction from the store, a deletion included,
and to panic on an estimate; `tracer.go:336-350` has both commented out, reads the
parent state always, and only writes the abort. `Scheduler` and
`AccessListTracer` model the latter, and it is why only validation separates a
stale read from a good one.

## 5. Proofs

All theorems are about the specifications the runs check, for every value of the
constants within the assumptions named below.

**The store** (`StoreClientProofs`, any client).

* `StoreIndexIsExact`: the recorded keys are the keys with a version. With the
  types it is inductive.
* `ValidReadsAreRereads`: a read set that `ValidateTransactionState` accepts,
  valid and without conflicts, is what the replay of the lower indices holds.
* `WriteBackIsReplay`: the last write-back is the replay of all versions.

The last two are about the recursive function `Replayed`. What it computes is
the latest value below an index (`ReplayLatest` in `MultiVersionStoreLemmas`), by
induction on the index.

**The rounds** (`SchedulerProofs`, `RoundsProofs`).

* `TypeCorrect`: that `iterations` stays within `MaxIterations` needs to know
  that a round begins below it, so the induction is over `TypeOK /\ PhaseOK`,
  where `PhaseOK` also says in which phase which workers can be busy.
* `VersionsAreRecorded`: while a task publishes, the key list is gone and the
  property says nothing; `TaskRecorded(i)` adds what holds inside.
* `NoTaskIsForgotten` and `CommittedTasksAreFinal`, from `RoundsInv`. It has a
  conjunct `TaskOK(i)` for each task: the tracer of a running task holds what
  the transaction does on the parent state (`TracerOK`); the status fits the
  worker's place (`StatusOK`); a task that is to run again has left only
  estimates (`CleanOK`); one that has run and was not invalidated since holds
  exactly one run of its transaction, on some state (`ResultOK`). `CommittedOK`
  adds that the tasks written back are validated and idle. A worker's step is
  shown to touch no other task (`ExecuteFrame`, `ValidateFrame`), so one task
  is looked at at a time.
* `MaxIncarnationIsExact`: two workers may load and store `maxIncarnation` in
  any order. With `m` the highest incarnation at the start of the round,
  `IncarnationsBelow(m)` says that no task goes above `m + 1` and that only
  `m + 1` is ever stored, so a lost update loses nothing.

**What is committed is sequential** (`SequentialProofs`, from `SequentialInv`).

* `CommittedPrefixIsSequential`, `ParentWordsAreCommitted`: the tasks written
  back did what sequential execution does, and every word of the parent state
  is one that it leaves after some committed prefix.

The argument: during a validation phase tasks only ever lose `Sound` (executed
or validated and not being invalidated). As long as all tasks up to `i` are
sound no version below `i` changes, so a read of `i` that was checked stays
valid although other workers go on (`CheckedOK`). At the end of the phase the
validated prefix is sound and fully checked. Then each of its tasks holds a run
on some state (`ResultOK`) whose reads are what the replay of the tasks before
it holds (`ReadValidReplays`), and as the read set is complete
(`ReadsAssumption`) it is the run on the replay (`ValidRunIsStep`,
`CommittedStep`). By induction on the prefix the replay is the sequential state.

**Updates, and the block as a whole** (`UpdateProofs`, from `UpdateInv`,
`WaitInv`, `FrontInv` and `SteadyInv`).

* `ParallelExecutionIsSequential`: the result of `ProcessAll` without the
  fallback, for every block; with it, for steady updates.
* `RoundsImplementTheBlock`: the refinement. Every step of every worker and of
  the main goroutine is a step of `SequentialBlock` or leaves it as it is; left
  out is only the return of the fallback for blocks other than steady updates,
  which can be wrong (section 4).
* `UpdatesReadLatest`: the write-back skips a key that a task beyond the prefix
  has written; in a block of updates this loses nothing.
* `TwoRoundsPerTask`: a task at the front costs two rounds at most.

In a block of updates every version beyond the committed prefix is one that its
transaction writes on the present parent state (`RunsOn`), so it differs from
the word there. A read that validates is therefore of a key of which no task in
between holds a version (`ReadsUntouched`). When the prefix grows, a key that
the write-back skips was written, hence read, by a validated task beyond it, and
nobody in the new part of the prefix has touched it. So the parent state is that
of the whole prefix, and the induction goes on.

Tasks wait only on tasks before them (`WaitInv`), and the one at the front reads
the state of its turn: it is not refused, meets no estimate and is valid. Only
if it was left waiting, on a task whose validation it overtook, does it take a
second round, in which it is reset (`FrontInv`).

When the fallback begins, every task has run in the first round, so it holds a
version or an estimate of every key that it is going to write (`HeldInv`). What
the rounds have validated has therefore read nothing that a task before it will
write (`LeftOver`); its second validation agrees and it is skipped. Any other
task is executed on the state of its turn, since the write-back before it passes
over no key that it reads, and it meets no estimate, since all before it hold
versions by then (`FallbackInv`).

**The tracer** (`TracedRunProofs`, any message, parent state, contract code, gas
and call depth).

* `TracedTypes`: types, so that no balance or nonce leaves its range. `TypeInv`
  adds the states that open frames have saved, and a bound on nonces that pays
  for each increment with a unit of gas.
* `ReadsetsAreParents`: what is recorded of a key is its word in the parent
  state. It is part of `TypeInv` (`BooksOK`).
* `ObservedKeysAreRecorded`: all that a run depended on is in its read set, the
  codes that it ran and the sender's code size excepted, and its write set names
  no code key. `RecordInv` adds that the keys of the write set are among those
  the EVM has written: `Get` records nothing for a key in the write set.
* `PlainRunsAreExact`: after every step the write set, written back, is the
  EVM's state. `ExactInv` adds that balances stay where the start of the
  transaction has put them until its end, so that the refund fits in a word. The
  step for each booking (`BalanceExact`, `NonceExact`, `FeeExact`) says that it
  does to what the write set stands for what the EVM does to its state, whoever
  of sender, fee payer and receiver are the same account.
* `SupplyIsPreserved`: the balances of the write set lose the fee and nothing
  else, failed frames included. `SupplyInv` adds that while code runs no balance is
  above that of the parent state by more than the message's value, so that what
  is given back at the end fits in a word. The fold `Total` is connected to the steps by `SumsOf`, the
  relation between a set of accounts and its sum: a sum exists, is unique, and
  changes by what one account changes (`SumsExist`, `SumsUnique`, `SumsChange`).

**Assumptions.** On the block: `BlockAssumption`, `ZeroAssumption`,
`InitStateAssumption`, `WorkersAssumption`, `MaxIterationsAssumption`,
`BlocksAssumption` and `DeliverAssumption` say of which type the constants are.
`ReadsAssumption`, for `SequentialProofs` and `UpdateProofs`, says that what a
transaction does on a state that does not refuse it is determined by the values
of the keys it reads there; of a refusal, which records no read, it says
nothing. This is what the tracer has to deliver: `ObservedKeysAreRecorded` says
for which opcodes it does, and `sstore_gas` is a block for which it does not. TLC
evaluates it on the abstract transactions of `MCScheduler` and on the tracer's
transfers of `MCTransfers`; `MCTracedBlocks`, whose stores do not meet it, does
not state it. On the transaction:
`SlotsAssumption`, `SizeAssumption` (a nonce fits in a word),
`MessagesAssumption`, `ParentsAssumption`, `GasAddressAssumption`,
`AddrsAssumption` (there are finitely many accounts),
`SumsAssumption`, `MaxDepthAssumption`, `SendersAssumption` and
`SmallAssumption`. TLC evaluates all of these on the instances that the runs use.

**Induction.** The library's induction theorems take an operator, which the
provers at hand cannot instantiate. `InductionLemmas` has them with sets
instead: `Induction` for a set of numbers, `Recursion` for a recursive function
on `0 .. n` (it has the equation it is defined by), both from the least element
of a set of numbers (`Least`). Its lemmas on sums go by the size of the set.

**Only model-checked.** `Termination`, as liveness is out of the provers'
reach. `ImplementsSequential` beyond steady updates: it is false of some blocks
(section 4); of blocks with refused transfers the run `transfers` shows it.

## 6. Plan

Done: the store, the scheduler, the tracer with its keys, their composition on
blocks of transfers and stores, the abstract specification, nineteen theorems:
all invariants and action properties of the runs, the refinement in the rounds
for every block and with the fallback for steady updates.

Next: a weaker condition than `SteadyUpdates` that admits refused transactions
(one that was refused in a round must not write what a validated one beyond it
has read); a proof that the transfers of the tracer are updates whenever they
leave no balance as it was.

## 7. Not modelled

* `Finalise(true, false)` after a write-back, which drops empty accounts; receipts,
  logs and traces: a response is set or not.
* The unsynchronised access to the shared `StateDB`. The workers write its
  transaction hash and index (`processor.go:68`, `scheduler.go:490`), which no
  part modelled reads; but all tracers read its words at the same time
  (`tracer.go:348`). The model takes each such read as atomic; what it does to
  caches inside the library is not modelled.
* The store's `GetAllWritesetKeys` and `Has`, the tracer's `ValidateReadset`,
  `ValidGet`, `Delete`, `Has` and `getData`: the program does not call them.
* A second `ProcessAll` on the same scheduler: `Processor.Execute` makes a new
  scheduler for every block.
* `NewBlockchain`, genesis and pre-state files, the reflective journal access,
  generated bindings, constants and error values.
