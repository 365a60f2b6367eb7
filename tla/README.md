# Verification of the payment ledger

TLA+ specifications of the fault-tolerant payment ledger in `src/`, the TLC
configurations that check them on small instances, and TLAPS proofs of their
safety properties for every size of instance. `INVARIANT n` below is the
numbering of `src/docs/invariants.md`.

## 1. The system

| Part | State | Operations | Talks to |
|---|---|---|---|
| API handlers `internal/api` | none | create account, transfer, reverse, replay, reconcile, reads | cache, ledger, replayer |
| Idempotency cache `internal/idempotency/cache.go` | Redis: completed responses | `Get`, `Put`; every failure is a miss | API handlers |
| Idempotency records `internal/idempotency/record.go` | `idempotency_records` | `LockKey`, `Claim`, `Fetch`, `Complete`, `Discard` | inside the ledger's transaction; around the work of a replay |
| Ledger `internal/ledger` | `accounts`, `balances`, `ledger_transactions`, `ledger_entries`, `reversals` | `CreateAccount`, `Transfer`, `Reverse`, reads | storage, idempotency, outbox |
| Storage `internal/storage` | connection pool | `InTx` with retries | PostgreSQL |
| Migrations `internal/storage/migrate.go`, `cmd/migrate` | `schema_migrations`, the schema | `MigrateUp`, `MigrateDown` | PostgreSQL |
| Reconciliation | none | `Run`: recompute balances and sums | PostgreSQL, read only |
| Outbox `internal/outbox` | `outbox_events` | `Insert` (ledger), `Claim`, `MarkPublished`, `MarkFailed` (publisher), `Replay` | PostgreSQL, Kafka |
| Kafka `internal/kafka` | topics, group offsets (external) | `Publish`; `Run`: fetch, handle, commit | publisher, webhook worker |
| Webhook worker `internal/webhook` | `webhook_deliveries` | `HandleEvent`, `DeliverOnce` | Kafka, PostgreSQL, endpoints |
| Failpoints | armed failures | `Arm`, `Eval` | ledger, publisher, webhook worker |
| Rate limiter | Redis counters | `Allow`, fails open | API middleware |

A POST request looks in Redis, then runs one PostgreSQL transaction that claims
the idempotency row, locks balances in ascending account order, writes the
transaction with two postings, the balances, an outbox event and the response to
replay, and commits. Outbox workers lease rows and publish them to Kafka; webhook
workers turn messages into one delivery row per endpoint, and a second loop of
the same process POSTs due deliveries. A replay publishes old events again; as
Kafka cannot join a PostgreSQL transaction, its endpoint claims the idempotency
key in one transaction, does the work, and completes the key in another.

What is hard: sessions interleave between any two statements and wait for each
other on advisory locks, row locks and unique indexes; a transaction may be
retried, aborted, or commit without the service learning it; leases lapse under
workers that are still alive; a failed publish may have succeeded; partitions
change hands while a message is being handled; replicas of the delivery loop
share rows. The list with source lines is `hazards` in `PROJECT.json`.

## 2. Modules

| Module | Models |
|---|---|
| `LedgerSchema` | commands, rows, constraints and the pure computations of the ledger |
| `AtomicLedger` | the abstract specification: each command is one step |
| `PaymentLedger` | sessions running commands against the cache and PostgreSQL |
| `Reconciliation` | the reconciliation report over the live tables of `PaymentLedger` |
| `PaymentLedgerInvariant` | the inductive invariant of `PaymentLedger` and the order of its locks |
| `Outbox` | publishers, leases, dead letters and replay |
| `EventConsumer` | the consumer group of one partition and `HandleEvent` |
| `WebhookDelivery` | the delivery loop |
| `EventPipeline` | the three together: the way of an event from the ledger to an endpoint |
| `EventDelivery` | the abstract specification of that way |
| `ReplayApi` | the replay endpoint and its idempotency outside a transaction |
| `Migrate` | schema migrations |
| `*Proofs` | the theorems about the module of that name and their proofs |
| `SumTheorems` | least elements of sets of numbers, and sums over finite sets |
| `MC*` | symmetry and constant definitions for TLC, where a run needs them |

### PaymentLedger

The five tables hold committed data. The uncommitted writes of a session follow
from its command and its `pc`, so they are not stored: they appear in `Commit`
and vanish in every other exit. One action is one group of statements between
two points where the session may wait or read what others commit:

| Action | Code |
|---|---|
| `Receive`, `CacheHit`, `CacheMiss` | handler up to `replayFromCache`, then `Validate` |
| `LockKey` | `pg_advisory_xact_lock` of an FNV hash, which may collide (`KeyHash`) |
| `Claim`, `Replay` | `INSERT ... ON CONFLICT DO NOTHING`, waiting for another claimer; `replayResult` |
| `LoadOriginal` | `loadTransaction` and its checks in `Reverse`, without locks |
| `LockBalance` | one `SELECT ... FOR NO KEY UPDATE` of `lockBalances` |
| `Post` | the checks and all writes, each with the constraint that may refuse it |
| `Commit` | `COMMIT`, acknowledged or with a lost answer |
| `Finish`, `LoseResult`, `Respond` | `Cache.Put`, the `after_commit` failure, the response |
| `RetryableError`, `Abort`, `Crash`, `Evict` | `InTx` retry, other errors and panics, process death, Redis loss |

`Post` is one step although it is many statements. While it runs, the session
already holds the locks on every row it reads or updates. The only rows it can
collide on are those another session has inserted and not committed, for which
it waits (`InsertConflict`). A reader sees none of its writes before `COMMIT`.
What PostgreSQL promises is assumed and not checked: the statements of a
transaction take effect together or not at all, and one statement, such as each
query of the reconciliation, reads one committed state.

Abstractions: names, descriptions, metadata and timestamps are left out, as is
the text of errors. A response body is what it shows and whether the transaction
appears as reversed, which is what two renderings can differ in. The entries of a
transaction are always a pair, so the tests for fewer than two of them (in the
zero-sum trigger and in the reconciliation) have nothing to refuse. SHA-256 is
taken to be free of collisions. Balances and amounts are integers with the
range of `BIGINT` as a constant; an update outside it is refused, as PostgreSQL does.
The id of a new transaction is chosen at `COMMIT` because nothing shows it earlier.

### Outbox, EventConsumer, WebhookDelivery

Time is two facts about a row, `due` and `lapsed`, that become true at any
moment after a row is rescheduled or claimed. Kafka topics are sets in `Outbox`,
where only presence matters, and a log with offsets in `EventConsumer`, where
order matters. A publish or a POST that fails may have taken effect. MarkPublished and
MarkFailed do not check the claim, so neither do their actions. A delivery row is
known by its event and endpoint, which the table declares unique: that a
redelivered event makes no second row is a property of one `INSERT ... ON
CONFLICT DO NOTHING` and holds by the shape of the models. Kafka's group
protocol is external; `EventConsumer` lets a late commit of a former owner
succeed or fail.

### EventPipeline and EventDelivery

`EventPipeline` instantiates the three modules above over shared state. The
topic of `Outbox` is the set of messages in the log of `EventConsumer`, so every
publish, retried or replayed, appends a message; the queued pairs of
`EventConsumer` are the rows of `WebhookDelivery`. Three steps belong to two
components and are joint actions: a publish appends to the log, `HandleEvent`
inserts a row or finds it, and the crash of a webhook worker ends its consumer
and its delivery loop. All other actions are those of the components.
`EventDelivery` is what a receiver may rely on: only committed events, queued
once per endpoint, settled once, delivered only if accepted.

### ReplayApi

| Action | Code |
|---|---|
| `Receive` | `withRequestContext`, and `handleReplay` up to `HashRequest`, with the request id in the hash |
| `CacheHit`, `CacheMiss` | `replayFromCache` |
| `LockKey`, `Insert`, `Fetch` | the callback of the first `InTx`; `Claim` is two statements, between which a `Discard` (outside the advisory lock) may delete the row |
| `CommitClaim`, `CommitFound`, `LoseCommit`, `RetryableError` | the end of that transaction; `claimed` keeps its value over the attempts of `InTx` |
| `Work`, `Discard`, `Complete` | `Replay`; the release of the key; the second `InTx` |
| `Finish`, `Respond` | `Cache.Put`, the response |
| `Leave` | the client goes away and `r.Context()` is cancelled: the statement under way fails with an unknown outcome, and everything begun after it but `Discard` (`context.WithoutCancel`) and rollbacks |
| `Crash`, `Evict` | process death, Redis loss |

`interrupted` records the keys whose request ended between the `COMMIT` of its claim
and the outcome of `Discard` or `Complete`: by a crash, a departure, or a statement
that PostgreSQL did not answer. It is history; no action reads it.

The body of a response is the number of the replay it reports. The retries of the
second `InTx` are not told apart: it succeeds, or fails with an unknown outcome.

### Migrate

The SQL files commit themselves, so a migration is two steps, the file and its
bookkeeping row. `Versions` stands for the embedded files, sorted.

## 3. Model checking

| Run | Instance | Checks |
|---|---|---|
| `LedgerPayments` | 2 sessions, 3 accounts, 2 keys, 4 transactions, `BigIntMax` 1, no cache, 1 attempt | the inductive invariant, non-negative balances, atomicity, unique reversals, reconciliation, append-only, balances in the range of `BIGINT`, refinement of `AtomicLedger` |
| `LedgerRetries` | 2 sessions, 1 key for everything, 2 currencies, a missing account, 2 attempts, Redis | types, durable replies, cache agreement, atomicity, append-only, refinement |
| `LedgerWaits` | 3 sessions, 3 accounts, 2 of which pay each other, 3 keys on 2 advisory locks, 2 attempts, fairness | no cyclic wait; every request ends |
| `OutboxWorkers` | 2 workers, 2 events, batch 1, 2 attempts, 1 fault, 1 replay, fairness | published implies on Kafka, exact dead-letter budget, bounded attempts, settled rows stay settled, every event settles |
| `ConsumerFaults` | 2 consumers, 2 events and a poison message, log of 3, 2 faults, 1 handler error, fairness | only handler errors skip messages; without one every message is handled |
| `ConsumerErrors` | 1 consumer, 1 handler error | **violated**: committed implies handled |
| `DeliveryWorkers` | 2 workers, 2 deliveries, batch 2, 2 attempts, 2 faults, fairness | delivered implies received, exact budget, every delivery settles |
| `DeliveryReopened` | 2 workers, 1 delivery | **violated**: delivered is final |
| `EventPipeline` | 1 event, 1 endpoint, 1 publisher, 1 webhook worker, 2 attempts at both ends, 1 fault, 1 replay, 1 handler error, fairness | refinement of `EventDelivery`; a published event is queued or still to be read; every committed event reaches its endpoint or a dead letter unless the handler fails |
| `ReplayRequests` | 2 sessions, 1 key, 2 payloads, with and without a request id, 2 attempts, 1 fault, 1 departing client, 1 aborted `COMMIT`, Redis, fairness | types, exclusive work, a success is the stored one, completed records stay, keys are released unless their request was interrupted, and a key left behind stays so |
| `ReplayRetried` | 1 session, 1 payload, no fault | **violated**: a retry is recognised |
| `MigrationFailures` | 2 migrators, 1 version, 1 fault | **violated**: migrations are atomic |

Why the bounds are enough. Two sessions give every pairwise race, and the
guarantees of the ledger are about pairs (two payments of one balance, two
reversals, two claims of one key). `LedgerWaits` has three, so that a session may
wait for one that waits itself: at a colliding advisory lock, for a claim, for a
balance. Longer cycles of waits are excluded by the theorem `DeadlockFree`.
`BigIntMax` 1 with amounts of 1 reaches overflow, an exhausted balance and a
refused reversal within four transactions. Transaction ids are a finite set, so
behaviours end up with all of them used: sessions then still run, and commands
that need a fresh id wait in `commit` until they abort. Two attempts make both
sides of every attempt budget reachable. Faults are bounded by counters because
infinitely many crashes refute any liveness. In `EventPipeline` a single event is
enough because its duplicates (a retried publish, a lost outcome, a replay) are
messages of their own, which overtake each other's rows and offsets; two events,
two publishers and two consumers are covered by the runs of the components. It has
one webhook worker because two break the promise, as `DeliveryReopened` shows. The
log needs no bound of its own: attempts, faults and replays limit what is
published. In `ReplayRequests`, two sessions and two attempts let one session take
the claim that the other has lost to an aborted `COMMIT`, which is what `claimed`
is about; the properties name this exception (`aborts > 0`) and hold without it.
`LedgerWaits` has a single transaction id, which is enough for waits and keeps its
three sessions, checked for liveness without symmetry, small; its two attempts let
a transaction fail, run again, and use up its budget. Symmetry is used for
sessions, ids and workers in runs without liveness; account ids and outbox event
ids are ordered and are never permuted. For the safety properties, the theorems of
section 5 remove the bounds.

`CHECK_DEADLOCK FALSE` appears in the consumer runs only: a consumer with
nothing to fetch blocks in `FetchMessage`, which is a normal end of a bounded log.

### Fairness

- `LedgerWaits`: weak fairness of each session's steps, including
  `RetryableError`. PostgreSQL ends every wait by granting the lock or, after
  `lock_timeout` or `statement_timeout` (set in `storage.Open`), by an error,
  and the Go scheduler runs every handler.
- `OutboxWorkers`, `DeliveryWorkers`: weak fairness of each worker's steps
  (polling loops on a ticker, restarted by the deployment) and of the passage of
  time. No fairness is assumed for Kafka or the endpoints: every publish
  may fail, and the attempt budget ends the retries.
- `ConsumerFaults`: weak fairness of each replica's steps. No message is
  assumed to be produced.
- `EventPipeline`: the fairness of the three components, and none for Kafka,
  the endpoints or the replayer.
- `ReplayRequests`: weak fairness of each session's steps, as in `LedgerWaits`.
  Clients may leave or stay. `KeysAreReleased` excuses a key only when the request
  that claimed it was `interrupted`; a failure before the claim, in the work, or on
  another key is no excuse, and neither is a departure that the code answers with
  `Discard`. `StrandedForGood` says what the excuse costs.

## 4. Disagreements between the code and its documentation

1. **A handler error can lose an event** (`ConsumerErrors`). `Consumer.Run`
   continues with the next message after an error; the next commit on the
   partition moves the offset past the failed one. The comments promise
   redelivery. `ConsumerFaults` shows that crashes, rebalances and failed
   commits never skip a message.
2. **Delivered is not final with two replicas** (`DeliveryReopened`). `ClaimDue`
   is a plain `SELECT`, although its comment and `docs/architecture.md` describe
   `FOR UPDATE SKIP LOCKED`, so two replicas send the same delivery; and
   `webhook.MarkFailed` has no status condition, so the late failure of one
   reopens what the other has delivered. In the outbox the constraint
   `published_has_timestamp` prevents the same mistake (`SettledIsFinal`);
   `webhook_deliveries` has no such constraint.
3. **A retried replay is a conflict** (`ReplayRetried`). The request id is part of
   the hashed request; without an `X-Request-Id` header every call has a new one,
   and the same payload under the same key is answered with 409.
4. **A client that disappears during a replay cannot retry it** (`ReplayRequests`,
   a passing run: `StrandedForGood` holds). `docs/failure-model.md` says of a client
   that disappears that the retry gets the original response or executes. The
   claim, the publishing and the completion of a replay run under the client's
   context, and events that are not published are no error of `Replay`, so a
   departure leaves the key in progress. Nothing takes it over, completes it or
   removes it; every retry is refused. The comment in `handleReplay` accepts this
   for a crash only. Transfers and reversals are as documented (`RepliesAreDurable`).
5. **A migration and its bookkeeping row are not atomic** (`MigrationFailures`).
   The `COMMIT` in the SQL file ends the transaction around both. After a failure
   between the two, `migrate up` fails on the tables that exist. Two migrators at
   once, one up and one down, get there without a failure.

Smaller ones, met on the way and tolerated by the rest of the system: outbox
replicas share rows when the claim TTL runs out during a batch, although
`cmd/outbox-worker` says they never collide; the attempt budget may then be
overspent by one per worker (`AttemptsBounded`). A replay whose first `InTx`
attempt claimed the key and was aborted at `COMMIT` may run although another
request has completed the key (`WorkIsExclusive`, `CompletedIsDurable`). The comment on
`ListEntries` excludes skipped rows, but entries carry the start time of their
transaction and may commit behind a reader's cursor.

## 5. Proofs

Every safety property that a passing run checks is also a theorem, proved by
TLAPS for every number of sessions, workers, replicas, accounts, keys, events
and endpoints, every attempt budget, and any number of the faults that the runs
have to bound.

| Module | Theorems |
|---|---|
| `PaymentLedgerProofs` | `InvariantHolds`, and from it `TypeCorrect`, `BalancesStayNonNegative`, `PaymentsCommitAtomically`, `ReversalIsUnique`, `ResponsesAreDurable`, `CacheIsCoherent`; `BalancesNeverOverflow`; of every step, `LedgerIsAppendOnly`; `LedgerRefinesAtomicLedger`; `DeadlockFree` |
| `ReconciliationProofs` | `ReconciliationFindsNothing` |
| `OutboxProofs` | `TypeCorrect`, `NoEventIsLost`, `DeadLettersAreSpent`, `BudgetIsKept`, `SettledStaysSettled` |
| `EventConsumerProofs` | `TypeCorrect`, `NothingIsSkipped`, `OnlyErrorsLoseMessages` |
| `WebhookDeliveryProofs` | `TypeCorrect`, `NeverFalselyDelivered`, `BudgetIsKept`, `FinalWithOneReplica` |
| `EventPipelineProofs` | `NothingFallsBetween`, `PromiseIsKept` |
| `ReplayApiProofs` | `TypeCorrect`, `ClaimsAreExclusive`, `NoFalseSuccess`, `ResultsAreDurable`; of every step, `StrandedStaysStranded` |

### Assumptions

They are the `ASSUME`s of the modules, and TLC evaluates them in the runs:
`SchemaAssumption` (commands are well formed and amounts are `BIGINT`s),
budgets and batch sizes are positive, the bounds on faults are natural numbers,
and `None` and `Poison` are not rows, sessions, workers or events. `Outbox`,
`WebhookDelivery` and `EventPipeline` assume finitely many workers, because their
attempt bounds count them. Nothing else is assumed finite: in particular
`DeadlockFree` holds for infinitely many sessions and accounts, and
`ReconciliationFindsNothing` for infinitely many transaction ids. Two theorems have
a hypothesis of their own, a single webhook worker: `FinalWithOneReplica` and
`PromiseIsKept`. With two, what they state is false (`DeliveryReopened`).

### The ledger

None of the invariants is inductive alone: that `Commit` keeps
balances non-negative depends on a check made several steps earlier. `Inv` adds,
for each session, what it may rely on between its statements:

- `ShapeOf`: it has a validated command, and once the original of a reversal is
  loaded that original exists and is not a reversal;
- `ClaimOf`: a claimed slot has no committed record and no other claimer;
- `LocksOf`: every balance it will update is locked by it or still to be locked;
- `VerdictOf`: at `commit`, nothing refuses its writes in the *current* tables and
  nobody else holds a conflicting insert.

`VerdictOf` is the heart. Its proof for a step of another session uses that a
refusal depends only on the rows of the accounts it touches (`RefusalIsLocal`),
which are locked, and that two sessions in `commit` have no insert in common
(`OthersAfterCommit`). All actions but `Commit` leave the tables and the other
sessions alone, so `QuietStep` reduces them to their own session. `Commit` is
split into the account case and the posting case, and into tables, the
committing session and the others. For the refinement, `Inv` gives the
guard `Admissible` at every commit (`CommitIsAtomic`), and every other step
stutters (`OnlyCommitsWrite`).

The proof of `Inv` never uses `keyLock`: these guarantees rest on the primary key of
`idempotency_records`, as the comment on `LockKey` claims, and a collision of
advisory locks cannot break them.

**Overflow.** Balances are integers without bounds in the model, and `BIGINT` is
the refusal of an update. That no committed balance is out of range follows from
`VerdictOf` at every commit: what nothing refuses fits (`AcceptedRange`), and the
balances it was computed from are those that the commit finds.

**No deadlock.** `LocksInOrder` says that whoever holds an advisory lock is past
`LockKey`, and that whoever holds a balance is in `lockBalances` or later and has
only larger accounts left to lock. A session therefore waits only for sessions
that are further on: in the order advisory lock, claim, balances, commit, and
among those in `lockBalances` for one that waits for a larger account. A set of
sessions that wait for each other would have one that waits for the largest
account, and this one waits for nobody in the set. With infinitely many accounts a
largest one exists because the accounts that sessions have left to lock are
bounded (`WaitsAreBounded`: a step adds at most two of them).

**Reconciliation.** The report sums the entries of every account over all
transactions. The invariant `BooksBalance` says that the committed
transactions are finitely many, that every stored balance is that sum, and that
every transaction sums to zero. A commit adds one transaction, and the sum over
a set with one more element is the sum plus its value (`SumExtends`), in whatever
order the elements are taken. `SumTheorems` derives this from the least-element
principle (`SmallestOf`), applied to the size of a set on which it would fail.

### The outbox and the deliveries

`NoEventIsLost` and `NeverFalselyDelivered` need what a worker knows between the
answer of Kafka or of the endpoint and the `UPDATE` (`SentIsOnKafka`,
`SentIsReceived`): another worker may settle the same row meanwhile, but never
take the message back. For the attempt bounds, the attempts of a row *plus* the
number of workers that may still record an outcome for it (`Holders`) never exceed
the budget and one attempt for each other worker (`Budget`): a claim is possible
only while an attempt is left, and recording an outcome turns a holder into an
attempt, which needs that nobody holds a row twice (`HeldOnce`).
`FinalWithOneReplica` adds that a lone replica only holds pending rows
(`HeldIsPending`).

### The consumer

Below the committed offset is not inductive, because a replica may commit a
message while earlier ones are in doubt. `Passed` is the set of messages that
nobody will fetch again unless the partition changes hands: below the
committed offset, below a message somebody has in hand and may commit, or fetched
by the owner and done with. Each message that is `Passed` and not handled is
the work of one error (`SkipsAreErrors`); crashes, rebalances, and commits that
come late or move the offset back add none.

### The replay endpoint

`IInv` adds to the properties what each session knows at its statements
(`SessionKnows`): that it holds the advisory lock of its key, that the key is
free when it is about to commit a claim, and that `claimed` survives a failed attempt
only after an aborted `COMMIT`; and that the cache holds stored responses.
`StrandedStaysStranded` needs it for the statements that write without looking: a
session about to commit a claim has found the key free, and only sessions at work on
the key discard or complete it.

### The pipeline

`EventPipelineProofs` instantiates the proofs of the three components with the
substitution of `EventPipeline`, so their lemmas are used and not repeated.
`Moves` shows that every step is a step of the outbox, of the delivery loop, or of
the consumer alone or together with an insert or a crash of the delivery loop; the
others see at most a message appended, a row inserted or a fault counted. The
invariant is that of the components, and that only committed events are on the
partition. From it, `NothingFallsBetween`: a published event is on the partition, and a
message below the committed offset has its rows. `PromiseIsKept` maps the steps:
`CommitEvent` to `Commit`, `Enqueue` of a new row to `Queue`, a POST to `Accept` or
a stutter, `MarkDelivered` and the last `MarkFailed` to `Settle`, all others
to stutters.

### Only model-checked

- Liveness: `RequestsEnd`, `EventsSettle`, `EventsAreHandled`, `DeliveriesSettle`,
  `KeysAreReleased`, `EventsReachEndpoints`. The prover has no rule for fairness.
- The properties of the four violated runs, which are false. Where the
  code keeps them under a condition, the condition is a theorem
  (`OnlyErrorsLoseMessages`, `FinalWithOneReplica`).

## 6. Not modelled

Read-only endpoints, routing, logging, metrics, configuration parsing, the
example receiver and the seeder, because they keep no state the guarantees depend on.
Durations (backoff, timeouts) are abstracted to nondeterministic events; the
shift in the storage backoff overflows only for about forty attempts, against a
default of five. The rate limiter is one atomic Redis pipeline per request, with
the window in the name of the key, and fails open; nothing of the ledger depends
on it. The failpoint registry is test instrumentation: each of its points is a
failure the models allow at any time. Keyset pagination is a read; entries in the
model carry no time.

## 7. Plan

All of it is done. The order was:

1. `LedgerSchema`, `AtomicLedger`, `PaymentLedger`: the money path.
2. `Reconciliation`: an independent check of the money path.
3. `PaymentLedgerInvariant`, `PaymentLedgerProofs`.
4. `Outbox`, `EventConsumer`, `WebhookDelivery`.
5. `ReplayApi`.
6. `Migrate`.
7. `EventDelivery`, `EventPipeline`.
8. Proofs of `Outbox`, `EventConsumer`, `WebhookDelivery` and `ReplayApi`.
9. `NoDeadlock` by the order of locks; `SumTheorems` and reconciliation.
10. `EventPipelineProofs`, composed from the proofs of the components.

## 8. Running

    tlc -workers 2 -config LedgerPayments.cfg MCPaymentLedger
    tlapm PaymentLedgerProofs.tla

The theorem modules are the seven of section 5 and `SumTheorems`. A run takes at
most about two minutes, a module of proofs at most a few.
Operators introduced as "a mutant of" are deliberate defects: each replaces the
definition it names, and TLC must then find the listed property violated.
