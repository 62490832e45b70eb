# A verification of the SPF transporter

The transporter moves Siafunds (SPF) burnt on the ScPrime blockchain to a token on
Solana. A user burns SPF in a ScPrime transaction that carries a Solana address and
submits it; the server waits until the burn is confirmed, gives it an interval of the
supply of its transport type, and mints the tokens through a Solana program that checks
that the supply is the one the transaction was built for. Nothing may be minted twice,
nothing accepted may be forgotten, and the limits must hold, while the server crashes,
calls time out, database commits fail, and users submit concurrently.

This directory holds TLA+ models of that program, TLC configurations that check them,
and proofs checked by TLAPS.

## 1. The system

| part | state it keeps | operations | interacts with |
|---|---|---|---|
| burn submission (`server.go` `SubmitScpTx`, `transporterdb.go` `AddUnconfirmedScpTx`) | none of its own | one call per HTTP request, concurrent | storage, ScPrime, queue lock |
| unconfirmed loop (`loops.go` `processUnconfirmed`) | lists of one pass | one pass per tick | storage, ScPrime |
| mint loop (`loops.go` `processMints`, `mint`) | list of one tick, the transaction in hand | one tick at a time; `mint` retries without end | storage, Solana |
| start-up recovery (`server.go` `New`, `handleUnconfirmedSolana`, `compareSupplyToSolana`) | list of stale records | once, before the loops | storage, Solana |
| queue lock (`loops.go` `checkQueue`, `server.go` `isQueueLocked`, ...) | flag in memory and in the database, `lockTime` | a third loop in `ReleaseAllAtOnce` mode; read by submissions | storage |
| storage (`transporterdb/`) | PostgreSQL: `unconfirmed_burns`, `premined_limits`, three transport tables, `solana_transactions`, `global_flags` | transactions at the default isolation level (Read Committed), repeated when COMMIT errs or a key is violated | everything |
| Solana minter (`solana/`) | none (RPC client) | build, send and wait, status, supply | Solana |
| emission schedule (`spfemission/`) | none (a function of time) | `AllowedSupply`, waiting times | mint loop, API |
| ScPrime gateway (`scprime/`) | none (consensus set of a node) | height, confirmation of a transaction | ScPrime |
| API and application (`api.go`, `http.go`, `client.go`, `app/`, `cmd/`, `openapi/`, `gen/`) | none | routing, flags, wiring | submission, queries |

The parts share state through the database only, except for the queue lock. The three
loops and any number of submissions run concurrently; each loop is one goroutine, so a
pass never overlaps with itself. `docker-compose.yml` restarts the process whenever it
exits.

What is hard, and what correctness means:

* **mint loop and recovery**: a mint is a non-transactional side effect. The transaction
  id is written before it is sent; after any failure the server sleeps until the
  transaction must have landed or expired, asks for its status, and only then retries.
  Correct: each burn is minted once, in the order of its interval; a record is completed
  only if its tokens exist; after any crash the recovery brings the database and the
  contract back to agreement; a mint is finished in the end.
* **submission**: admission reads several sums and inserts, in one Read Committed
  transaction. Correct: a burn is admitted once, and the limit of the address, of the
  queue and of the total supply hold.
* **unconfirmed loop**: decides on reads of a blockchain that moves meanwhile. Correct:
  a transported burn is buried deep enough, a noted one is not lost, none waits forever.
* **queue lock**: a flag in two places, a time in memory, a check far from the insert, a
  size that is read in three statements. Correct: an offer is kept, a queue above the
  limit is locked, a lock is released when the queue was seen empty, and in the end.
* **status queries**: up to four statements in two transactions, under the moves of the
  loops. Correct: the answer was true during the call, and later answers agree with it.
* **emission schedule**: rounds down in one direction and up in the other. Correct: both
  directions agree, and nothing is minted ahead of it.
* **storage**: closures that are run again after a COMMIT whose outcome is unknown must
  have no effect left from the first run, in the database or in the variables they capture.

`PROJECT.json` lists every hazard with its line.

## 2. Modules

| module | what it is |
|---|---|
| `BurnStages` | what the whole server promises of a burn: the stages of its transport status and the moves between them, with no table, loop or chain |
| `MintLedger` | what the minting half promises, with no server, database or Solana: accept, mint once in order, complete after the mint |
| `Emission` | the emission schedule as operators of a time and an amount |
| `MintPipeline` | mint loop, recovery, transport tables, the contract, the clock: the detailed model; extends `Emission`, implements `MintLedger` and `BurnStages` |
| `BurnIntake` | submissions, unconfirmed loop, `unconfirmed_burns`, `premined_limits`, the ScPrime chain; implements `BurnStages` |
| `QueueLock` | the queue lock beside the tables, which move as `BurnStages` lets them |
| `TransportStatus` | the status call beside the tables, which move as `BurnStages` lets them |
| `MCMintPipeline`, `MCBurnIntake`, `MCQueueLock`, `MCTransportStatus` | small instances for TLC |
| `EmissionProofs` | the schedule and its inverse |
| `MintPipelineProofs` | proofs about the pipeline that hold with every fault, and about the schedule it follows |
| `MintRecoveryProofs` | proofs under reliable status calls and reads, and both refinements |
| `BurnIntakeProofs`, `QueueLockProofs`, `TransportStatusProofs` | proofs about these modules |
| `BurnSumProofs` | proofs about the amounts of `BurnIntake`: sums, transport tables, premined addresses |
| `BurnQueueProofs` | proofs about the limits of the queue and of the total supply in `BurnIntake` |

How they fit together. `BurnIntake` and `MintPipeline` are the two halves of the server:
the first takes a burn from nothing to a row of a transport table, the second from there
to a completed record. Each is shown to move burns only as `BurnStages` says
(`StagesSpec`), under a condition:

* the pipeline does so if `TxStatus` answers inside `mint` and the COMMIT of a read
  succeeds (`Reliable`). Otherwise it does not: a completed record may lose its
  transaction (section 5), and `BurnStages` has no move for that.
* the intake does so with every fault, if the read of a pass is not retried or the chain
  has no reorg (`StableWhenRetried`). With both, a burn that is listed twice may be judged
  on two chains, and the same pass removes it and confirms it.

`QueueLock` and `TransportStatus` read the same tables while both halves work, so they
take `BurnStages` in their place. What they show (the lock, and above all
`AnswersNeverGoBack`) holds over anything that implements it: of this server, under those
conditions.

### MintPipeline

A row of a transport table is `(before[b], after[b], solanaID[b])`, the columns
`supply_before`, `supply_after`, `solana_id`; the three tables are told apart by
`TypeOf[b]`. `confirmed` is the set of ids with `confirmed = TRUE`. `supply` and
`txState` are the contract and its transactions. `pc` is where the single goroutine is,
from New to the steps of `mint`; `todo` is the list of `processMints`.

| code | actions |
|---|---|
| `ConfirmUnconfirmed`, as this half sees it | `InsertTransport` |
| `processMints` | `Tick`, `Fetch`, `FetchRetries`, `FetchFails` |
| `mint` | `BuildTransaction`, `AddSolanaTransaction`, `Send`/`SendRefused`, `WaitConfirmed`, `DecaySleep`, `TxStatus`, `ConfirmSolana`, and a `...Fails` action for every call |
| Solana | `Land`, `Drop` |
| process death, container restart | `Crash`, `Restart` |
| `New` | `Recover`, `DecaySleepAll`, `TxStatusAll`, `Apply`, `CompareSupplyToSolana`, `StartFails` |
| the clock | `TimePasses` |

Modelling decisions:

* Every call is a step; a write that errs is also allowed to have taken effect
  (`AddSolanaTransactionFails`, `ConfirmSolanaFails`, `StartFails`).
* `SolanaTxDecayTime` is assumed long enough: after the sleep the transaction in question
  is no longer pending. The default is 3 minutes, longer than Solana accepts a recent blockhash.
  The mutants of `NoOrphanMint` and `OneInFlight` drop the sleep and break both.
* A batch of `ConfirmUnconfirmed` is a sequence of single inserts. The reader sees what a
  smaller batch would leave, and no property looks at the batch.
* A regular row is inserted only up to `TotalSupply`. That is `SupplyWithinTotal` of
  `BurnIntake`, checked there, and broken there by concurrent submissions (section 5).
* `checkAddress` refuses to build a mint to an account that is gone (`ErrATANotFound`) unless
  the mint is large enough to pay for a new one; `mint` then tries again for ever.
  `AccountAssumption` says that no accepted burn is too small: the settings must not put
  `TransportMin` below `FundATAMinAmount` (100 both, by default). Under it `Closed`, the
  burns whose receiver closed the account after the submission, do no harm; the second
  mutant of `MintReturns` drops the exception for large amounts and blocks the server.
* `FreshIDs` reuses ids that no record names and no chain remembers: a signature is
  never used twice, but the finite set of ids would run out.
* `Close` is a special case of `Crash`.
* Airdrop burns cannot be submitted (`HasAirdrop` always returns false), but the mint
  side handles them, and so does the model.
* `now` counts fractions of a minute, so that the rounding of `AllowedSupply` matters;
  `MaxTime` bounds it, late enough that the schedule reaches `TotalSupply` before it.
* Two constants name behaviours that break several properties: `StatusMayFail`
  (`TxStatus` may err inside `mint`) and `ReadsMayRetry` (COMMIT of a read transaction may
  fail). Properties that survive them are checked and proved with both on.

### BurnIntake

The state is the chain (`height`, `blockOf`), the tables, one program counter and the
amounts read so far per client call, and the lists of the loop's pass. Every SELECT of a
closure is a step that sees what is committed then; the writes of a closure appear
together at its COMMIT, and that is how Read Committed behaves for transactions that
read rows they do not lock. The lists of a pass are counts: `batch[b]`, `toRemove[b]` and
`toConfirm[b]` say how often each list holds the burn, with the columns it was read with
(`seenHeight`, `seenKind`).

| code | actions |
|---|---|
| `SubmitScpTx`, `checkUnlockHashes` | `Submit` |
| `AddUnconfirmedScpTx` | `CheckBurnIDUnique`, `ReadUnconfirmedAmount`, `ReadCompletedSupply`, `CheckQueueAllowance`, `CheckPreminedAllowance`, `AddUnconfirmedScpTx`, `AddUnconfirmedRefused` |
| failed calls, repeated COMMIT | `SubmitFails`, `AddUnconfirmedRepeats` |
| `processUnconfirmed` | `UnconfirmedBefore`, `CurrentHeight`, `CheckBurn`, `UpdateHeight`, `SetConfirmationHeight`, `RemoveUnconfirmed`, `ConfirmUnconfirmed`/`ConfirmRefused` |
| failed calls of a pass, repeated COMMIT | `ProcessFails`, `UnconfirmedBeforeRepeats`, `RemoveUnconfirmedRepeats` |
| ScPrime | `MineBlock`, `Reorg` |
| the clock | `Age` |
| the mint loop, as this half sees it | `Complete` |
| process death and restart | `Crash` |

Modelling decisions:

* Left out of `SubmitScpTx`: validity of the transaction, presence in the pool, the
  Solana address, minimum and maximum amount, the premined period, the queue lock.
  Each can only refuse a burn. `Home` gives one unlock hash: a premined burn has to come
  from a single one.
* `Age` assumes that a call that has checked the uniqueness of a burn does not last for
  `ScpTxConfirmationTime`. Without it a call could insert a burn another call brought
  all the way into a transport table. The default is one hour, a call takes seconds.
* The rows of a pass are ORDER BY time; the model takes any order.
* `UnconfirmedBefore` appends to a slice its closure captures. `UnconfirmedBeforeRepeats`
  is a COMMIT that fails n times: each burn is listed n + 1 times and judged as often,
  `RemoveUnconfirmed` decreases `transported` once per entry, `SetConfirmationHeight` and
  the DELETE do not mind, and `ConfirmUnconfirmed` violates a key whenever it is repeated,
  until the pass fails (`ConfirmRefused`).
* A unique violation repeats the closure, a violated CHECK ends the call
  (`AddUnconfirmedRefused`).
* `RemovalMayRepeat` (a COMMIT of `RemoveUnconfirmed` takes effect and errs),
  `ReadsMayRetry` (the COMMIT of `UnconfirmedBefore` fails) and `MaxReorg` switch on three
  environments that break properties. `burn_intake_queue` runs with the first two on,
  `burn_intake` with the third.

### QueueLock

`stage` is the tables as `BurnStages` sees them. `flag` is the row of `global_flags`,
`queueLocked` the server's copy (nil until it is loaded) and `lockAge` the time since
`lockTime`. `offerAge` and `moved` are history: the time since a client was offered an
allowance, and the burns that entered a table while a pass was reading.

| code | actions |
|---|---|
| `checkQueue`, `QueueSize` | `ReadCompleted`, `ReadUncompleted`, `ReadUnconfirmed`, `UpdateLock`, and `QueueSizeFails`, `UpdateLockFails` |
| `getQueueLocked`, `isQueueLocked`, `setQueueLocked` | `Locked`, `LoadFlag`, `SoftLocked`, `SetQueueLocked` |
| `CheckAllowance` | `CheckAllowance` |
| `SubmitScpTx` | `Submit` up to the check of the lock, `Insert` from there on |
| the other loops, the recovery | `TablesChange` |
| the clock; process death and restart | `TimePasses`; `Crash` |

* The burns are regular, of one unit, and completed in their order, so a supply is a
  number of burns. `RowsAddUp` and `MintedPrefix` say why `MAX(supply_after)` is one.
* Ages stop at `QueueLockGap`: no comparison tells greater ones apart.
* `QueueSizeFails` is the code as it is: `QueueSize` drops its error
  (`transporterdb.go:505`) and `checkQueue` takes the size for zero: the pass is "blind".
  What a release should mean is `ReleaseMeansEmpty`, which `queue_lock_blind` refutes.
  `ReleaseSeesQueue` and `LimitIsEnforced` are what remains true: they speak of the
  passes that were told the size.
* `SetFlag` may err and have taken effect: the copy in memory then differs from the
  flag until a pass or a restart.
* In `OneByOne` mode the queue is never locked; there is nothing to model.

### TransportStatus

A call is a client's program counter over the statements: `ReadExists`, `ReadRecord`,
`ReadSolana`, `Commit`, and `ReadUnconfirmed`, `Commit` of the second transaction.
`CommitFails` repeats a transaction, `CallFails` ends the call with an error, `Restart`
drops all calls and may forget a stale transaction, as the recovery does before the API
is served. History variables: `seen`, the stages of the burn during the call; `known`,
what was answered about a burn; `floor`, what was known when the call began.

`RetryErrorUnwraps` is a property of the retry library. `TransportRecord` returns
`ErrNotExists` inside the error of `retry.Do`; that of the vendored version 3.0.0 hides it
from `errors.Is`, and the second transaction never runs (section 5). With the value TRUE
the module says what the handler does once the error is seen, which is what the handler
was written for; the theorems cover both values.

## 3. Runs

| run | instance | what it shows |
|---|---|---|
| `mint_pipeline` | two regular burns, one airdrop, 4 ids, 2 faults, with fairness | `TypeOK`, `NoOrphanMint`, `NextInLine`, `StartupSanity`, `CompletedIsFinal`, the refinements `LedgerSpec` and `StagesSpec`, and the liveness properties `MintReturns`, `AcceptedIsCompleted` |
| `mint_unreliable` | two regular, one premined, 5 ids, 3 faults, half minutes, both switches on | `MintedAtMostOnce`, `MintedPrefix`, `CompletedIsMinted`, `OneInFlight`, `EmissionRespected`, `ScheduleExact`, `EstimateIsEnough` |
| `burn_intake` | two burns of one premined address, each as large as its limit, two concurrent calls, 2 blocks, the second perhaps a reorg, 1 fault (a crash, a failed call, or a repeated COMMIT of a submission; reads commit), symmetry in burns and calls | `TypeOK`, `BurnOnce`, `PreminedAccounting`, `PreminedWithinLimit`, the refinement `StagesSpec` |
| `burn_intake_queue` | three regular burns, one call at a time, 2 blocks, no reorg, 1 fault, which may also be a retried read of a pass or a repeated removal, with fairness | `QueueWithinLimit`, `SupplyWithinTotal`, `RowsAddUp`, `ConfirmedEnough`, `DroppedIsLate`, `NotedIsKept`, `UnconfirmedIsResolved` |
| `queue_lock` | two burns, limit 1, gap 2, one client, 2 faults, with fairness | `TypeOK`, `OfferIsKept`, `ReleaseSeesQueue`, `LimitIsEnforced`, `LockIsReleased` |
| `transport_status` | two burns, two clients, 2 faults, errors that unwrap | `TypeOK`, `AnswerWasTrue`, `AnswersNeverGoBack` |
| six runs that end in a violation | see section 5 | |

Why the bounds are enough. Two burns of one type are the fewest that can be minted out
of order or leave a gap, a second type is the fewest that mixes the lists of a tick.
Two faults give every pair (a lost answer and then a crash during the recovery from
it); the third of `mint_unreliable` adds a failing status call. Ids that nothing remembers
are reused, and the server would deadlock if the others ran out, which TLC reports.
Signatures and clients are symmetric;
symmetry is not used in runs with a liveness property. In `BurnIntake` two calls are the
fewest that race; the address has room for either burn but not for both, and once it is
depleted the other burn is submitted as a regular one. `UnconfirmedIsResolved` excepts a
burn noted so late that the bounded chain cannot bury it. In `Emission` two units a
minute and, in `mint_unreliable`, two moments a minute are the fewest that round at both
ends. In `QueueLock` two burns exceed the limit and one alone does not; one client is
enough, since clients meet only in the tables and the lock, and the theorems have any
number. Two faults give a write that errs and a restart after it. In `TransportStatus`
two calls on one burn show answers that overlap, and a second burn changes between them.

Deadlock is checked in every run; the models never stop, since a tick of an idle loop is
always possible.

Each property has a mutant in its module, an operator that a plausible bug would put in
the place of the real one (no sleep, no ORDER BY, no CHECK, a height that is not read
again, an off-by-one), which breaks it; `MintReturns` has two.

## 4. Fairness

`MintPipeline`: the goroutine of the server keeps running (weak fairness of its next
step), a pending transaction lands unless a fault drops it, the process is restarted
(`restart: unless-stopped` in `docker-compose.yml`), and time passes. Faults are bounded
by `MaxFaults`, so a run of the model has finitely many of them: the claims are about
what happens once they are over. `BurnIntake`: the loop ticks, a running call goes on,
blocks are found, and rows grow old. Nothing obliges a user to submit a burn, or a block
to hold it. `QueueLock`: the third loop ticks, time passes, a call that has passed the
check goes on, and each burn in the queue moves on in the end, which is what
`UnconfirmedIsResolved` and `AcceptedIsCompleted` show of the other two loops. Nobody has
to submit or to ask. `TransportStatus` has safety properties only.

## 5. What the runs refute

* **`mint_status_error`**: `SendAndConfirm` fails, the transaction lands all the same,
  `TxStatus` errs once, and `mint` builds another transaction over the record of the
  first (`loops.go:105`). The contract refuses it for ever, and so it does every later
  request. A restart does not help: the record is resolved by the wrong id and the
  start-up check fails.
* **`mint_last_unit`**: `supply_after < allowedSupply` never selects the burn that ends
  at `TotalSupply`, though the intake admits it.
* **`burn_intake_list_twice`**: one COMMIT of `UnconfirmedBefore` fails and is retried, and
  since the closure appends to a slice it captures, the list of the pass holds a burn
  twice. It is not confirmed in time, so the removal decreases `transported` twice and
  deletes one row. `transported` is now too low, and the CHECK, which compares it with
  `allowed_max`, lets through more than the address may transport: in the run, with limit
  2, three burns of 1 are in use. No other call fails.
* **`burn_intake_race`**: two submissions read the same free capacity and are both
  admitted, above the queue limit and the total supply. How far above the supply is
  proved: at most n - 1 of the largest burn for n calls (`SupplyOverrunBounded`). The
  premined limit does not suffer from this race, since the CHECK looks at the row as it is
  updated; it holds as long as the column is right (`PreminedAlwaysWithin`), which
  `burn_intake_list_twice` undoes.
* **`queue_lock_blind`**: the transaction of `QueueSize` fails, `QueueSize` says zero and no
  error, and `checkQueue` releases the lock of a queue above the limit. The next pass that
  reads the queue locks it again, and the gap starts anew.
* **`transport_status_not_found`**: the status of a burn that is in no transport table is
  answered with an error. `errors.Is(err, common.ErrNotExists)` (`server.go:400`) looks at
  a `retry.Error`, which has no `Unwrap` in the vendored version; the lookup in
  `unconfirmed_burns` never runs, and `NotFound` and `Unconfirmed` are never answered.

The two defects that meet in `burn_intake_list_twice` do harm alone, too. Each of the
following was seen with TLC in a variant of a run's configuration that is not among the
runs.

* *A list that holds a request twice.* `NextInQueue`, `UncompletedPremined` and
  `UncompletedAirdrop` (`transporterdb.go:1079-1182`) append to a captured slice like
  `UnconfirmedBefore`. With `ReadsMayRetry = TRUE` in `MintPipeline`, `mint` is called again
  for a completed burn: the new id takes the place of the confirmed one in its record
  (`CompletedIsFinal` and `StagesSpec` are violated), the contract refuses the transaction,
  and `mint` never returns. `MintedAtMostOnce` and its kin hold all the same
  (`mint_unreliable`).
* *A removal that decreases whatever it deletes.* With `RemovalMayRepeat = TRUE` and reads
  that commit, a COMMIT of `RemoveUnconfirmed` that took effect and errs is repeated, and
  the premined amount is given back twice (`PreminedAccounting` is violated, and then
  `PreminedWithinLimit`): with limit 4, admit p1 (2) and p2 (1) and remove p2 twice;
  `transported` is 1 with 2 in use, so 3 more are admitted and 5 are in use. It can go
  wrong in the other direction, too: a burn that was listed as a regular one and is
  submitted again as a premined one between the two removals loses its row, and its
  address stays charged for it.

With a reorganisation (`MaxReorg = 1`), `ConfirmedEnough` does not hold either: the noted
height of a burn is never reset when the burn moves to a later block. The code relies on
reorgs shorter than the confirmations it waits for before the first pass, and no text of
the repository promises more, so this is stated as an assumption of the theorem.

## 6. Proofs

All theorems hold for every value of the constants that satisfies the assumption of the
module (`PipelineAssumption`, `AccountAssumption`, `EmissionAssumption`,
`IntakeAssumption`, `LockAssumption`, `StatusAssumption`) and the condition it names.

**`MintPipelineProofs`** proves, with every fault and both switches on, `TypeCorrect`,
`NoDoubleMint`, `SupplyIsPrefix`, `CompletedMeansMinted` and `AtMostOneInFlight`. None of
these is inductive. The invariant `IInv` adds: the intervals of a type are disjoint and
each starts at zero or at the end of another row (`Intervals`); the contract's supply is
zero or the end of a minted row, and a row is minted exactly when it lies below it
(`Contract`); a pending or confirmed id is the one its record names (`Records`); and what
each value of `pc` knows of the transaction in hand (`Server`). The contract's own check
of the supply is what carries `NoDoubleMint`: two transactions of one burn expect the
same supply, and the first to land moves it away for good. `SupplyOnSchedule` adds that
every selected regular row lies below the supply allowed at that time (`ScheduledHolds`)
and that the allowed supply never decreases. `ScheduleAlwaysExact` and
`EstimateAlwaysEnough` carry the theorems of **`EmissionProofs`** to every moment of a
behaviour; these rest on the two facts that make the rounding right, `RoundDown` and
`RoundUp`.

**`MintRecoveryProofs`** assumes `Reliable`, that is `~StatusMayFail` and
`~ReadsMayRetry`, and proves `NothingForgotten`, `AlwaysNextInLine`, `AlwaysStartable`,
`CompletionIsFinal` and `PipelineImplementsLedger`. The invariant `SInv` adds that the
rows of a type follow each other without a gap (`Contiguous`), that every minted id is
named by its record (`NoOrphanMint`), that outside of one request the records without a
confirmed id are not minted (`Settled`), and that the list of the tick holds, per type,
the next rows in order and no gap (`Listed`, `Ordered`, `NoGap`). The condition is
needed: section 5 says what goes wrong without it.
`PipelineImplementsLedger` maps `minted` to the burns with a minted transaction and
`completed` to the completed records; `Land` is `Mint`, `ConfirmSolana` and the recovery
are `Complete`, `InsertTransport` is `Accept`, all else stutters.
`PipelineImplementsStages` maps each row to its stage by `solana_id` and `confirmed`.

**`BurnIntakeProofs`** names three conditions: `ReadsCommit` (`~ReadsMayRetry`), `NoReorg`
(`MaxReorg = 0`), and `StableWhenRetried`, one or the other. Under the last it proves
`SubmittedOnce`: the burns a pass removes and those it confirms are disjoint and are aged
rows that only the loop deletes (`Lists`), and a call past the uniqueness check holds a
burn that is in no transport table and not aged (`Unseen`). A reorg between the two
judgements of a burn that is listed twice would put it in both lists.
Under `NoReorg` it proves `BuriedDeepEnough` and `NotedStays`, from the fact that a noted
height is at least the block of its burn, in the table and in the copy of the pass
(`Noted`), and from what each list says of its burns (`Judged`). `DroppedAreLate` adds that
the list of removals is empty until the height is read (`LateInv`); a burn that gets its
block during the checks gets it above that height. `IntakeImplementsStages`
follows from `OnceInv` under `StableWhenRetried`: a removal takes a set of burns back at once,
a confirmation a batch forward, and no row of a transport table is ever left.

**`QueueLockProofs`**. `OfferIsKept` and `ReleaseSeesQueue` are not inductive. `LockInv`
adds that a lock set after an offer is not older than the offer (`OffersFirst`) and, for
each place of a pass, what the numbers it has read bound (`Seen`): the burns that have
not moved since are among those counted, by `SizeSeen` an inequality of cardinalities.
`ReleaseAlwaysSees` and `LimitAlwaysEnforced` are its two ends, size zero and size above
the limit, for a pass that was told the size. Both take the moves of the tables from
`BurnStages`, as `TransportStatusProofs` does.

**`TransportStatusProofs`**. `StatusInv` says what the stages a call has seen tell of the
present one (`Watched`: stages are left in one direction while the server runs), what the
place of the call tells of them (`Placed`), and that what was answered still holds
(`KnownHolds`, `FloorHolds`). `AnswersStand` is as good as the moves it assumes: it leans on
`BurnStages`, which the minting half implements under `Reliable` only.

**`BurnSumProofs`**. `Total`, the sum of the amounts of a set of burns, is a recursive
function of the library. `TotalIsCount` shows that it is the number of coins of the set,
a coin being a pair of a burn and one of its units: counting coins solves the equation of
the recursion, and no other function does, since a smallest set on which two solutions
differ would leave a smaller one (strict inclusion on the subsets of a finite set is
well-founded). Cardinality then gives what sums need: `TotalUnion`, `TotalSubset`.

* `RowsAlwaysAddUp`, under `StableWhenRetried`: a table is `Tiled` when each row ends where it
  and the rows up to it add up to. `TiledAbove` shows that a batch placed in any order
  above a tiled table leaves it tiled, `TiledAddsUp` that `MAX(supply_after)` is the sum of
  all rows. `Books` is the inductive invariant, with the types of the columns.
* `IntakeTypes`: that the amounts a call has read are numbers needs `Books`.
* `PreminedAlwaysAccounted`, `PreminedAlwaysWithin`: the column and the sum move together
  (`AdmitHeld`, `RemoveAccounts`, `InsertHeld`), because the list of removals still has its
  rows when they are deleted (`RemovalListed`). They assume `RemovalTold`, that is
  `~RemovalMayRepeat`, and `ReadsCommit`; section 5 says what goes wrong without either. `PreminedNeverOvercharged` is what
  holds with retried reads (under `RemovalTold` and `StableWhenRetried`): what goes wrong
  then only gives back too much.

**`BurnQueueProofs`**. All its theorems assume `StableWhenRetried`. `QueueAlwaysWithin` and
`SupplyAlwaysWithin` assume `OneCall`, too, that calls of `SubmitScpTx` do not overlap;
`burn_intake_race` shows that this is needed. The
loops still move the queue between the three reads of a call. `Knows` says why that does
no harm, with the reads in the order of the code: the waiting amount can only have
shrunk since it was read (what left it was removed, or is in the queue length that is
read after it), and the completed supply can only have grown. `SupplyOverrunBounded`
drops `OneCall`: `Viable` calls are those whose reads leave room for their burn, one
becomes viable only by a read that sees all there is (`ViableStep`), and `Room` counts
what the viable calls can still add.

Model-checked only: the liveness properties (`MintReturns`, `AcceptedIsCompleted`,
`UnconfirmedIsResolved`, `LockIsReleased`), which are out of the prover's reach. Every
other property of a passing run is stated by a theorem, under the conditions named here.
The bound on the overrun is proved for the total supply only; for `QueueSizeLimit`, where
the minting half makes room between the reads of a call, none is stated.

## 7. Not modelled

* The amounts of `CheckAllowance`, and the preliminary limit of the queue it uses
  (`QueueSizeLimit` less a gap): it is advice, and the submission reads the amounts again.
* `PreminedList` and `CheckSolanaAddress`, which read one thing; `InsertPremined`, a tool.
* The HTTP layer, flags and wiring, the encoding of Solana instructions, the extraction
  of amounts and addresses from a transaction, and the checks of `SubmitScpTx` named above.
* `OneByOne` mode as a mode: it is `BurnIntake` and `MintPipeline` without `QueueLock`.
* The generated `query.sql.go`: the definitions follow `query.sql`.

`PROJECT.json` says of every part why.

## 8. Plan

Done: `BurnStages`, `MintLedger`, `Emission`, `MintPipeline`, `BurnIntake`, `QueueLock`,
`TransportStatus`, their runs and their proofs. Left:

1. `RetryableTransaction`: one closure, an ambiguous COMMIT and the two kinds of retry,
   with the abstract specification "the effect happens once or the call errs", to state
   in one place which closures of `transporterdb.go` may be repeated.
2. The limits of the intake as an abstract specification (admit within the limits) that
   `BurnIntake` implements with one call at a time.
3. The composition of `BurnIntake` with `MintPipeline` in the place of `Complete`, and of
   `QueueLock` with both in the place of `TablesChange`; today `BurnStages` stands between
   them.
4. A bound on the overrun of `QueueSizeLimit` by concurrent submissions, like the one of
   the total supply.
