# A TLA+ model of the wagering wallet service

This directory models the parts of the service on which the money depends: how
provider operations (bets, wins, losses, refunds, rollbacks) are settled by
concurrent HTTP handlers, queue consumers and background workers on one
PostgreSQL database, how the messages that ask for them are taken from the
inbound queue, how the events they leave in the outbox are published, what
callers are told at the two doors, and how an instance starts and stops with all
of this on one connection pool.
TLC checks the modules on small instances; TLAPS proves the central invariants
for every instance. Source paths below are relative to `src/internal/` unless
they say otherwise.

## The system

| Part | State it keeps | Operations | Talks to |
|---|---|---|---|
| Wagering decision (`domain/wagering/decision.go`, `kind.go`) | none | `Decide` | called by both settlement paths |
| Request processing (`application/usecase/process_wager_transaction.go`) | `wager_transactions`, `wallets`, `wallet_ledger_entries`, `inbox_messages`, `outbox_events` | `Execute` for an HTTP request or a queue message | repositories inside one `UnitOfWork.Do` |
| Wallet opening (`open_wallet.go`) | the same tables | `Execute` | the same |
| Pending references (`retry_pending_reference.go`) | the same tables | `attempt`, `giveUp` | the same; woken up by request processing through `next_attempt_at` |
| Outbox publication (`publish_outbox.go`, `domain/messaging/outbox.go`) | lease, generation and publication of `outbox_events` | `claim`, `deliver`, `mark`, `reschedule` | the outbound FIFO queue |
| Queue consumer (`infrastructure/sqs`) | messages in flight, the releasing flag | receive, dispatch, delete, dead-letter, retry, release at shutdown | request processing, SQS |
| Database (`src/migrations/000001_init.up.sql`) | constraints, guards, deferred triggers | checks on every commit | all of the above |
| HTTP entrance, authentication (`infrastructure/http`) | a request in a handler, slots of the write limiter | one route per use case; role, provider and money tests before it; results become statuses | all use cases |
| Reconciliation and ledger reading (`reconcile_wallet.go`, `list_wallet_ledger.go`, `find_*.go`) | one read-only snapshot per call | two statements and an answer | the committed tables |
| Scheduler and lifecycle (`infrastructure/jobs`, `app`) | hooks started, running jobs | start, tick, stop, with deadlines | runs the two jobs, starts and stops the entrances, closes the pool |
| Money (`domain/money`) | none | checked arithmetic, decimal amounts | decision, entrance |
| Configuration and connection budget (`infrastructure/config`) | none | validation | the pool and everything that uses it |
| Observability, event payloads | none of their own | | |

What is hard in it:

- *Concurrency.* The same operation may be in several handlers at once (provider
  retries, queue redelivery, the two doors), operations of one wallet race for
  its balance, and a worker settles what a handler parked while other handlers
  settle what it waits for. The code relies on row locks of different strengths,
  `ON CONFLICT DO NOTHING`, `SKIP LOCKED` and on rows read again after a lock.
- *Failure.* A transaction may be cut off at any statement; a commit may succeed
  and its reply be lost; a permanent error is handled in a second transaction
  after the first one released its locks; a publisher may crash between sending
  and marking; a consumer may be stopped, cut off or killed with messages in its
  hands.
- *Order.* A reversal may come before what it reverses; events of a wallet are
  claimed, sent and retried independently of one another.
- *Limits.* Handlers, consumer slots and jobs share one pool, the write limiter
  sheds what waits too long, and every stage of a shutdown has a deadline after
  which the next stage begins while work is still going on.
- *Reads.* A reconciliation reads in two statements and a ledger in several
  transactions while settlements commit.
- *Time.* Deadlines, backoffs and leases are compared with instants read earlier,
  and leases with the clocks of different machines.

`PROJECT.json` lists the hazards at their lines with the properties that cover
them.

## Modules

| Module | What it is |
|---|---|
| `Wagering` | the vocabulary of an operation and the pure decision `Decide`, with the tests in the order in which the code reports them |
| `Settlement` | the protocol: `ProcessWagerTransaction` and `OpenWallet` in handlers, `RetryPendingReference` in workers |
| `SettlementProperties` | what must hold of it, and the part of the strengthening that `SettlementProofs` needs |
| `SettlementInvariants` | the rest of the strengthening: ownership, time, rows, decisions, wake-ups, answers, ledger entries |
| `DatabaseGuards` | the constraints, guards and deferred triggers of the schema and `Snapshot.validate`, stated as properties that every commit satisfies |
| `WalletBook` | what the service promises of its committed tables: an atomic book without processes, locks or failures |
| `SettlementBook` | the refinement: `Settlement` implements `WalletBook` |
| `SettlementProofs` | theorems about types, locks and the ledger of `Settlement` |
| `SettlementOutcomeProofs` | theorems about what becomes of an operation: history, deadlocks, decisions, reversals, rows, references, events |
| `SettlementPromiseProofs` | theorems about what others rely on: answers, the inbox, wake-ups, the refinement, money, and what the database accepts |
| `MCSettlement` | the scenarios TLC explores |
| `Outbox`, `OutboxProofs`, `MCOutbox` | publication of the outbox, theorems about it and its instances for TLC |
| `Consumer`, `ConsumerProofs`, `MCConsumer` | the queue consumer on several service instances against the inbound queue, theorems about it and its instances for TLC |
| `Instance`, `InstanceProofs`, `MCInstance` | one instance from start to exit: lifecycle hooks, server, limiter, consumer, jobs and the pool they share; theorems about it |
| `Money` | checked arithmetic on integers of fixed width, parsing and formatting of amounts |
| `Sums` | lemmas about the sum of a finite set of numbers (`SumFunctionOnSet` of the community modules) |
| `Entrance`, `EntranceProofs`, `MCEntrance` | the HTTP routes with their middleware, the read-only use cases and the queue listener in front of `WalletBook`; theorems about them and about `Money` |

How they compose: `Wagering` is the vocabulary of both `Settlement` and
`WalletBook`; `SettlementBook` instantiates `WalletBook` on the tables of
`Settlement`; `Entrance` extends `WalletBook` and `Money`, so what it shows rests
on the refinement and not on the locks. `Consumer` treats `Handle` as what
`Settlement` and `Entrance` make of it, `Instance` treats a task as something that
uses connections and ends.

### Settlement

`wallets`, `txs`, `ledger`, `inbox` and `outbox` are the committed tables. A
process (handler or worker) has a `pc`, the next statement it will send to the
database, and a `job`, what it remembers between statements. What it has written
and not committed is part of its job, and a commit publishes it in one step.
Every action is one statement or one commit:

| Code | Actions |
|---|---|
| `Execute`, `run` | `Begin` |
| `registerInbox` | `RegisterInbox` |
| `Transactions().Insert` | `Insert` |
| `replay`, `completeInbox` | `Replay`, `CommitReplay` |
| `FindForUpdate` | `LockWallet` |
| `resolveReference`, `Decide`, `settle` | `Settle` |
| `wakeUpWaiting` | `WakeUp` |
| the rest of `run` and the commit | `CommitRequest` |
| `attempt` in the worker | `BeginAttempt`, `ScanPending` and `ClaimDuePending`, then `LockWallet`, `Settle`, `WakeUp`, `CommitRetry` |
| `giveUp` | `GiveUp`, `CommitGiveUp` |
| `OpenWallet.Execute` | `BeginOpening`, `CreateWallet`, `CommitOpening` |
| a rollback, a retry of `UnitOfWork.Do`, an error that is not `recoverable` | `Abort`, `RetryAttempt`, `PermanentError` |
| PostgreSQL ends a deadlock (external), `UnitOfWork.Do` runs the victim again | `DeadlockVictim` |

Locks are not variables; they are derived from how far each process has got,
which is how the database comes by them. A lock goes with the transaction.

| Lock | Held by | Conflicts with |
|---|---|---|
| `HoldsMessage` | an uncommitted inbox row, on its message | another insert of the message |
| `HoldsRequest` | an uncommitted operation, on its two unique keys | another insert with one of them |
| `HoldsWallet` | `FOR NO KEY UPDATE` of `FindForUpdate` | itself; not the `FOR KEY SHARE` that the foreign key of an insert takes |
| `HoldsRow` | `FOR UPDATE` on an operation: the row a claim or `giveUp` took, the rows `WakeUpWaitingFor` woke up, the rows a claim *kept* | itself and `SharesRow` |
| `SharesRow` | `FOR KEY SHARE` on an operation, taken by a foreign key: the inbox row a replay completes (`transaction_id`), a settled operation and its reference (`reference_transaction_id`) | `HoldsRow` |

Whoever writes a foreign key waits for `HoldsRow` (`Replay`, `WakeUp`), `GiveUp`
waits for both, and the two statements with `SKIP LOCKED` skip what either holds.

A claim is two steps, because under READ COMMITTED `SELECT ... FOR UPDATE SKIP
LOCKED LIMIT 1` looks for rows in the snapshot of its statement (`ScanPending`) and
locks them one by one afterwards. A row that was settled or put off in between is
locked, evaluated again, found not due, and passed over with its lock: the claim
goes on to the next row and the transaction keeps both (`kept`). `overslept` is a
history variable: the rows that `WakeUpWaitingFor` skipped although nobody was about
to settle them, until they are settled, woken up or put off again.

`told` is a history variable: every answer given about an operation. It is what
lets the model say that an answer is never contradicted.

Abstractions:

- A member of `Requests` is one payload; a retry or redelivery is the same
  member, another payload under a reused key is another. The payload hash is
  injective. The identifier of the stored row is that member.
- A wallet stands for its (player, currency) pair and for the OPENING operation
  that funded it. `roundId` and `gameId` are one `round`.
- There is one clock. Processes compare with the instant they read when they
  started, which may be arbitrarily stale; skew between instances is only
  modelled in `Outbox`, where the code defends against it.
- A retry of `UnitOfWork.Do` in a handler reads the clock again and is an `Abort`
  followed by a `Begin`; in a worker it keeps its instant and is `RetryAttempt`.
- A commit whose reply is lost costs one unit of `MaxFaults`, like an abort.
- Not modelled of PostgreSQL: the rows that `WakeUpWaitingFor` itself locks and
  finds changed. Its transaction waits for nothing afterwards, so they close no
  circle; as rows another wake-up may skip they are like the ones a claim kept.
  `giveUp` that finds its row terminal ends its transaction at once.
- A deadlock is resolved by its victim (SQLSTATE 40P01, `deadlock_timeout` is
  shorter than the `lock_timeout` of 3 s): the transaction is rolled back and
  `UnitOfWork.Do` runs its function again, or gives up when its attempts are used.
  `Deadlocked` asks for a process of the circle itself, not one that merely waits
  for it.
- `Update`'s version check is a guard of the commit. `NoLostUpdate` proves it
  never fails, so `ErrVersionChanged` needs no action.

### WalletBook and the refinement

The book has five ways to conclude an operation (`Park`, `Lose`, `Move`,
`Reject`, `Fail`) and `Open`. An operation is recorded only if no other holds one
of its keys, settled once, together with its wallet and its ledger entry, and
processed or rejected according to what holds *in that step*, not when it was
decided. The mapping takes the committed tables as they are: `wallets`, `ledger`,
the status column, and the reference of a processed reversal. Every statement
except a commit must then be a stutter and every commit one step of the book,
whatever was rolled back, retried, replayed or left with an unknown outcome
before it. One operation per key, one entry per processed operation and one
successful reversal per operation are consequences.

The rules of the book are written from the cases of `Decide` without its order or
its reference states. One looseness is deliberate: a win that names an operation
of another wallet looks it up without that wallet's lock, so its recording may
come between the look-up and the commit. `Excused` lets such a win be rejected,
`Barred` does not demand it.

### Outbox

One row per event holds owner, whether the lease is valid, the generation
(`attempts`) and whether it is published; `due` is the order by
`next_attempt_at`. That instant is `clock.Now()` read at the beginning of
`Execute`, before the insert and the wallet lock, so it does not follow the order of
the commits, not even in one wallet: a new event enters `due` anywhere
(`EntersDue`), as does one whose backoff ends. `InstantsFollow` restricts new events to
the end; only `outbox_order` uses it, to show that the order is lost even then. A
publisher claims a batch, sends one event at a time and ends
its publication by mark or reschedule, both conditional on owner, generation and
lease. Sends are in flight until the queue takes or loses them, also after the
publisher has given up on them. The outbound queue is external: it takes an event
once per deduplication identifier. A lease may expire at any moment; a publisher
that is too slow for its own lease costs a fault.

### Consumer

`box` is what the queue knows of a message: visible, hidden, deleted or set aside
by the redrive policy, how often it was received, and (a history variable) which
instance answers for the current receive. `work` holds one record per goroutine
of `watch`: the delivery and how far `dispatch` has got with it. `inFlight` is the
map of the code, keyed by receipt; `unfinished` is the slice `Stop` copies from
it; `phase` stands for the contexts and flags of the consumer.

| Code | Actions |
|---|---|
| `Start`, `Run` | `Start`, `Run` (which may fail for good) |
| `watch`, `receive` | `Receive`, `ReceiveFails` |
| `dispatch` up to the map, `release` of a late message | `Dispatch` |
| `Handle` | `Commit`, `HandleReturns`, `HandleFails`, `HandleUnknown`, `HandleCancelled` |
| `remove`, `deadLetter`, `retryLater`, each with the deferred calls | `Remove`, `DeadLetter`, `RetryLater` |
| `StopReceiving`, `Stop` | `StopReceiving`, `Drained`, `DrainEnds`, `Abort`, `Release`, `Stopped` |
| the process dies, or `Stop` runs out of time | `Crash` |
| the queue (external) | `VisibilityExpires`, `Redrive` |

Abstractions:

- `Handle` is what the consumer may rely on: a message is either rejected every
  time or its operation becomes durable at some moment, after which handling it
  again changes nothing. The second half is what `Settlement` checks
  (`ImplementsBook`, `InboxAgrees`). The commit is a step of its own, because
  the context may be cancelled on either side of it. A verdict that changes
  between two deliveries (`WALLET_NOT_FOUND`, then the wallet is opened) is left
  out.
- The queue gives out the first message of a group that is still there, and none
  while that one is hidden. A receipt that is not the newest deletes and releases
  nothing; the newest one may or may not delete once its timeout has run out.
- The visibility timeout and the backoff of `retryLater` are one: hidden until
  some later moment. The configuration keeps the deadline of a message below the
  timeout, so a timeout that beats a handler costs a fault, like a failed call, a
  lost reply and a crash. A receive that `StopReceiving` cuts off after the queue
  has answered costs nothing.
- `DeadLetter` adds to a set: its identity makes a second copy collapse.

### Instance

`hooks` counts the hooks of `registerLifecycle` that have started and not stopped,
`server`, `consumer`, `scheduler` and `pool` are the states of the components, and
`task` says what each goroutine that may use the database is doing: queued at the
limiter, waiting in the pool's `line`, holding a connection, ending.

| Code | Actions |
|---|---|
| the `OnStart` hooks in order, an error in one of them | `StartDependency`, `Connect`, `StartJobs`, `StartEntrances`, `StartFails` |
| a request, message or tick; `limited` | `Arrive`, `Enter`, `Shed` |
| `BeginTx`, commit or rollback, another transaction of the same task | `Acquire`, `Refused`, `Return`, `Again`, `Finish` |
| the `OnStop` hooks in reverse | `StopEntrances`, `ServerDrained`, `ServerCloses`, `ConsumerDrained`, `ConsumerAborts`, `ConsumerLeft`, `EntrancesStopped`, `CancelJobs`, `JobsStopped`, `JobsLeft`, `SkipHook`, `ClosePool`, `PoolClosed` |
| a signal, the end, `lifecycleTimeout` | `Sigterm`, `Exit`, `Expire` |

The budget of `connection_budget.go` is the assumption `BudgetAssumption`, because
the configuration is refused without it. A task holds one connection at a time and
its retries are bounded by `MaxFaults`. How the consumer releases its messages is
`Consumer`; here it only drains, aborts or leaves.

`BudgetHolds` states precisely what the budget is worth. The comment at
`infrastructure/config/connection_budget.go:5`, `src/README.md:54` and
`src/ARCHITECTURE.md:79-81` present a budget that fits as what keeps tasks from
waiting for the pool, with the reserved share for reads. `GET` requests pass no limiter,
so more of them than that share can exhaust the pool; the property is that nothing
else can.

### Entrance

`call` is the call being served, from the request to the answer, and `notes` what
the caller remembers: one answer about an operation, kept or not at will, or the
pages of a listing. Calls meet only in the book, so one is followed at a time
while `Elsewhere` moves the book at any moment; remembering one answer chosen
freely is as good as remembering all.

| Code | Definitions |
|---|---|
| `NewRouter`, `authenticate`, `requireRole`, `limited`, the tests before the use case | `Admitted`, `Limited`, `refusal`; actions `Refuse`, `Shed` |
| `openWallet`, `getWallet` | `OpenWallet`, `GetWallet` |
| `reconcile`, `getLedger`: `UnitOfWork.Read`, then a second statement | `FindFirst`, then `Reconcile` or `GetLedger` |
| `submitTransaction`, `statusOf`, `failProcessing`, `fail` | `SubmitTransaction`, `Execute`, `httpAnswer` |
| the listener's `Handle`, `rejectionReason` | `HandleMessage`, `queueAnswer` |
| `getTransaction`, `getProviderTransaction` | `lookUp`, `GetTransaction` |
| a statement that fails, the caller that takes its answer | `Break`, `Take` |

A body is too large (413), unreadable, invalid or well formed; an amount is its
whole units and cents, and one that is not canonical is not told apart further. A
credential is what `Verify` makes of it. Headers, problem documents and JSON are
left out.

Two lists of errors decide what is final: `fail` and `failProcessing` for HTTP,
`rejectionReason` for the queue. `Errors` has what `Execute` can end in: the conflicts,
the missing wallet, `ErrPayloadMismatch`, the failures of statements and commits, and
the errors of `wagering` that `NewExternal` returns. The lists disagree on
`ErrPayloadMismatch` and the `wagering` errors, which the queue dead-letters and HTTP
would answer with 500. `ErrPayloadMismatch` needs an inbox row, so only a message ends
in it. Of the `wagering` errors both doors exclude all but one by validating first: a
message whose correlation identifier is nothing but spaces passes `CorrelationID`
and fails in `NewExternal` with `ErrMissingField`. HTTP trims its header and makes up
an identifier when nothing is left, so it never ends there. `DoorsAgree` says just this:
the doors treat every result alike but these, which only a message reaches and
which record nothing.

## Runs

| Run | Instance | Checks |
|---|---|---|
| `submissions` | 2 handlers, 2 wallets opened with 0 or 1; a bet over HTTP and the queue, another payload under its key and its message, another key with its external identifier and the wrong player, a refund and a win in the other wallet that name it, largest balance 2; 5 arrivals, 1 fault | `TypeOK`, `AnswersNeverContradict`, `InboxAgrees`, `MoneyIsConserved`, `ImplementsBook` |
| `reversals` | 2 handlers, 2 workers; a bet, a refund and a rollback of it; 4 arrivals, 1 fault of any kind; up to the expiry | `ReadUnderLockIsCurrent`, `DecisionStillStands`, `LedgerChain`, `ReversedOnce`, `RowsRehydrate`, `EventsTellTheOutcome`, `HistoryIsImmutable`, `ReferenceNotIgnored`, `DatabaseAccepts` |
| `wakeups` | 1 handler, 2 workers; bet, refund, two rollbacks of the refund, one of which also comes by the queue; 5 arrivals, no fault; before the expiry | `OnlyLockedRowsSleep`, `OnlyKeptRowsDeadlock`, `ImplementsBook` |
| `cycles` | fair; reversals that reference each other and themselves | `EveryPendingSettles`, `EveryRequestEnds` |
| `wakeups_giveup` | 2 handlers, 1 worker; bet, refund, rollback of the refund over HTTP; a permanent error | `WakeUpNotLost` is violated |
| `outbox` | fair; 2 publishers, 2 events of one wallet, skewed clocks, 2 faults | `PublishedWasSent`, `ReceiptsCurrentWithoutFault`, `LeaseUndisturbed`, `EveryEventPublished` |
| `outbox_order` | 1 publisher, 2 events of one wallet due in the order of their commits, 1 fault | `WalletEventsInOrder` is violated |
| `instance` | fair; 2 writes with 1 slot, 1 read, 1 consumer slot, 1 job, a pool of 3, 1 fault | `BudgetHolds`, `AcceptedFindsAll`, `CleanExit`, `EveryStopEnds`, `EveryTaskEnds` |
| `entrance` | 4 operations of 2 providers in 1 wallet, 4 credentials, every route in good form and refused ones | `ReconciliationConsistent`, `PagesComplete`, `LookupsIsolated`, `AnswersStand`, `DoorsAgree`, `AmountsExact` |
| `consumer` | 2 instances with 2 slots, one of which stops; a message and a rejected one in a wallet, a message in another, 2 receives each, 1 fault | `NothingLost`, `SettledInOrder`, `OverlapOnlyCancelled`, `StoppedHoldsNothing` |
| `consumer_live` | fair; 2 instances, 2 messages of one wallet, the second one rejected, 2 faults | `EveryMessageEnds`, `EveryStopEnds` |
| `consumer_overlap` | 2 instances, 2 messages of one wallet, no fault | `OneMessagePerWallet` is violated |

`TypeOK` of `Outbox`, `Consumer`, `Instance` and `Entrance` documents the values of
their variables and is not among the properties of a run; that of `Settlement`,
which says that balances stay in their bounds, is. The types of `Settlement`,
`Outbox` and `Instance` are proved as theorems, those of `Consumer` and `Entrance`
as part of the invariants of their proofs.

Bounds. Two handlers and two workers are enough for every pair of statements to
meet. `wakeups` needs the second worker, because only another worker changes a row
between the two steps of a claim, and one handler, which arrives several times, for
the settlement or the replay they meet. Its constraint `BeforeExpiry` ends it at the
instant where deadlines begin to pass, and `reversals` has `UntilExpiry`, the first
instant at which every deadline can have passed. What happens at the expiry is left
to `reversals` and `cycles`, and the theorems know neither constraint. Each scenario
has three to five operations, so that every pair of the roles that interact
(original, reversal, competitor, reversal of the reversal) is present. The clock
runs to 4 with a TTL of 2 and a backoff of 1, so an operation is retried before its
deadline, expires at it, and may be claimed with an instant read before either;
requests stop arriving early enough for every deadline to pass, so that liveness is
not decided by the end of the clock. `AttemptsCap` bounds a counter whose further
values no longer change the delay. `submissions` sets the largest balance to 2,
which a win reaches and exceeds; no worker runs in it, so time has no part and its
constraint `TimeStands` stops the clock. In the consumer runs two receives per
message let each one be redelivered once and then reach the redrive policy, and two
slots let `Stop` meet a message that is being handled and one that has just been
received. `instance` has a pool of exactly the budget and nothing reserved, so that
one read exhausts it, and two writes for one slot, so that one is shed or waits; one
fault is a second transaction of a task or the global deadline, while the deadlines
of the hooks are free. `entrance` scales money down: integers up to 7, three cents
to a unit, whole parts up to 3; nothing, the largest amount, the one above it and a
malformed one are sent, and the theorems about `Money` make the numbers immaterial.
Four operations are a bet, a refund that may come first, a reused key and another
provider's, enough for a ledger of four entries, read one to a page. `CHECK_DEADLOCK
FALSE` appears where the system may simply be out of work (no worker runs, every
event is published) or has exited.

Fairness. `cycles` assumes that a process whose next statement can be executed
executes it (goroutines are scheduled; lock waits are bounded by `lock_timeout`,
statements by `statement_timeout`), that the ticker keeps starting the worker, that
the database breaks a deadlock, and that time passes. `outbox` assumes the same of
publishers and that the queue decides what it receives. `consumer_live` assumes that
an instance that runs keeps receiving, that goroutines go on (a handler has its
deadline, a call to the queue `brokerTimeout`), that `Stop` goes on, and that
timeouts nobody renews run out. `instance` assumes that a task goes on (every
statement has a timeout), that the pool serves its line in order, and that the hooks
run; no request, signal or deadline is forced, and a write may be overtaken at the
limiter for ever, which is why its timer matters. Arrivals, failures, stops and
restarts are never forced; therefore `EveryMessageEnds` is about behaviours in which
some instance is left running for good. TLC showed why that premise is needed: if
`Run` fails once at the start of an instance, the process stays up without its
consumer, and when the other instance stops nothing is received any more.

Wake-ups and deadlocks. Both properties of `wakeups` name what really happens
instead of promising that nothing does.

- A wake-up is lost when `SKIP LOCKED` skips the waiting row and whoever holds it is not
  going to settle it. There are two ways, and TLC reaches both: the queue redelivers the
  waiting operation, and the foreign key of the completed inbox row holds it `FOR KEY
  SHARE` until the replay commits; or a claim saw the row due, found it put off by
  another worker, and went on to a later row with the lock. `OnlyLockedRowsSleep` says
  that these are the only ways: the order of parking, claiming, looking up and settling
  alone never loses one. The operation is then settled at its own next attempt, so the loss
  is a delay of at most the backoff (`REFERENCE_BACKOFF_MAX`), as it is in `wakeups_giveup`.
  `src/ARCHITECTURE.md:153` promises the wake-up without exception.
- A deadlock exists. A worker has locked a refund that another worker settled in the
  meantime, has gone on to another row of the wallet and waits for the wallet; who holds
  the wallet settles a rollback of that refund and waits for the key share on it.
  `OnlyKeptRowsDeadlock` says that every circle goes through such a row: message, keys, row,
  wallet and reference are otherwise taken in an order that always leaves someone able to go
  on. The victim runs again. `EveryRequestEnds` is checked in `cycles`, whose one worker
  cannot keep a row; that requests end although there are deadlocks is not model-checked.
  The argument is that each one uses up a row settled since the worker's scan, that a worker
  which scans again does not see it, and that whoever is not the victim goes on.

What the three violations show:

- `wakeups_giveup`: `giveUp` (`application/usecase/retry_pending_reference.go:205`)
  makes an operation `FAILED`, a terminal state, without `WakeUpWaitingFor`.
  `src/ARCHITECTURE.md:153` says that every operation that reaches a terminal state
  wakes up what references it. The waiting operation is still settled, at its own
  next attempt.
- `outbox_order`: with one publisher, an event whose send failed waits for its
  backoff while the next event of the same wallet is sent. The comment at
  `infrastructure/sqs/publisher/wallet_event_notifier_sqs.go:16` says everything
  about one wallet stays in order, and `documentation/api/messaging-contracts.md:93`
  says so of a single publisher.
- `consumer_overlap`: `Stop` (`infrastructure/sqs/consumer.go:437`) releases a
  message without waiting for its handler, so another instance can finish it and
  start the next message of the wallet while the first handler has not returned.
  `documentation/api/messaging-contracts.md:59` promises at most one message per
  wallet in processing in the cluster. What is left of the promise is
  `OverlapOnlyCancelled`, and the order of effects, `SettledInOrder`, holds all
  the same.

## Proofs

Every theorem below holds for all values of the constants that satisfy the named
assumptions: any set of operations, wallets, processes, publishers, instances or
tasks, and any bound. Before an invariant was proved, TLC checked it on the
instances of the runs.

| Module | Theorem | States |
|---|---|---|
| `SettlementProofs` | `TypeCorrect` | `TypeOK` |
| | `MutualExclusion` | `OneSettlementPerWallet` |
| | `NoLostUpdate` | `ReadUnderLockIsCurrent` |
| | `LedgerAlwaysChained` | `LedgerChain` |
| `SettlementOutcomeProofs` | `HistoryStays` | `HistoryIsImmutable` |
| | `DeadlocksNeedKeptRows` | `OnlyKeptRowsDeadlock` |
| | `DecisionsNeverOvertaken` | `DecisionStillStands` |
| | `NeverReversedTwice` | `ReversedOnce` |
| | `RowsStayReadable` | `RowsRehydrate` |
| | `ReferenceNeverIgnored` | `ReferenceNotIgnored` |
| | `EventsAlwaysTellTheOutcome` | `EventsTellTheOutcome` |
| `SettlementPromiseProofs` | `AnswersAreKept` | `AnswersNeverContradict` |
| | `InboxAlwaysAgrees` | `InboxAgrees` |
| | `WakeUpsArrive` | `OnlyLockedRowsSleep`, if `~PermanentFaults` |
| | `SettlementImplementsBook` | `ImplementsBook` |
| | `MoneyAlwaysConserved` | `MoneyIsConserved` |
| | `CommitsAreAccepted` | `DatabaseAccepts` |
| `OutboxProofs` | `TypesHold` | `TypeOK` |
| | `LeasesHold` | `LeaseUndisturbed` |
| | `PublishedOnlyIfSent` | `PublishedWasSent` |
| | `ReceiptsStayCurrent` | `ReceiptsCurrentWithoutFault` |
| `InstanceProofs` | `TypesHold` | `TypeOK` |
| | `BudgetAlwaysHolds` | `BudgetHolds` |
| | `AcceptedAlwaysFindsAll` | `AcceptedFindsAll` |
| | `ExitsAreClean` | `CleanExit` |
| `ConsumerProofs` | `NothingIsLost` | `NothingLost` |
| | `WalletsSettleInOrder` | `SettledInOrder` |
| | `StoppedInstancesHoldNothing` | `StoppedHoldsNothing` |
| | `OverlapsOnlyWhenCancelled` | `OverlapOnlyCancelled` |
| `EntranceProofs` | `AnswersKeepTheirWord` | `AnswersStand` |
| | `LookupsStayIsolated` | `LookupsIsolated` |
| | `DoorsAlwaysAgree` | `DoorsAgree` |
| | `AmountsStayExact` | `AmountsExact` |
| | `ReconciliationIsConsistent` | `ReconciliationConsistent` |
| | `PagesAlwaysComplete` | `PagesComplete` |
| | `AddIsExact`, `SubIsExact`, `ParseIsExact`, `AmountsSurvive` | themselves |

### Settlement: types, locks, ledger

- `TypeCorrect`. A balance is in `0..MaxBalance` because
  `Decide` refuses a debit that is not covered and a credit that overflows; that
  is the lemma `DecideFits`. `TypeOK` is not inductive: the movement decided in
  one statement is applied two statements later, so `JobsFit` carries
  `MovedBalance \in 0..MaxBalance` from `Settle` to the commit, and `RowsFit` that
  an inbox row names a stored operation, whose status a replay answers.
- `MutualExclusion` and `NoLostUpdate`: one settlement per wallet at a time, and
  what was read under the lock is current until the commit. The strengthening is
  `OpenedOnce`: an opening in progress means the wallet has no version yet,
  nothing is stored in it and nobody has locked it, so the only other writer of a
  wallet cannot interfere.
- `LedgerAlwaysChained`: every version beyond the first has exactly one entry,
  which starts where the version before it ended, and the wallet holds what the
  newest entry left.

The inductive invariant is `SafeInv`, the conjunction of `Shape` (`TypeOK`,
`JobsFit`, `RowsFit`), `Locks` (`OneSettlementPerWallet`,
`ReadUnderLockIsCurrent`, `OpenedOnce`) and `LedgerChain`; the chain needs
`NoLostUpdate` (the entry starts at the balance the wallet really has), and that
needs mutual exclusion. The proof has one lemma per action or group of actions
that disturb the same conjuncts (`Shape...`, `Locks...`, `Chain...`), put together
in `HandlerStepSafe`, `WorkerStepSafe`, `FailureSafe` and `SafeStep`.

### Settlement: what becomes of an operation

The invariants are stacked, each one used to prove the next.

1. `OwnedInv == SafeInv /\ Ownership`. Between the statements of a transaction a
   worker's row still waits, a handler's keys are still free and the rows it woke
   still wait; nobody else holds them. This is what row locks and the
   reservation of uncommitted keys are worth. From it follows `HistoryStays` (a
   commit writes only a row that is absent or waits).
2. `DecidedInv == OwnedInv /\ DecisionsStand`. What justified a decision
   (`ProcessStands`, `RejectStands`, `WaitStands`) stays true until the commit. An
   operation and its reversals are of one wallet, whose lock the process holds;
   what is not under that lock is either final or not used. `DecisionStillStands`
   says the same by taking the decision again; it follows, but is not inductive,
   because it does not say of which operation the reference was found.
3. `RowsInv` adds `Timing` (a worker's row was due when it claimed it), `RowsAgree`,
   `GivesUpOnFaults`, `RowsRehydrate` and `ReversedOnce`. A second successful
   reversal would have been decided while `HasSuccessfulReversal` already held.
   `DeadlocksNeedKeptRows` orders the locks (message, keys, row, wallet, reference):
   whoever waits has come less far (`Progress`) than who holds what it waits for, so in
   a group of any size one that has come furthest waits for nobody in it. The exception is
   the reference of a settlement: it is terminal by then, or the process would not
   reference it, so whoever holds it `FOR UPDATE` claimed something else and kept it
   (`OnlyKeptReferences`). The rows that `WakeUp` updates out of order are held only by
   processes that are about to commit.
   `ReferenceNeverIgnored` is an action property that follows from it.
4. `ToldInv == RowsInv /\ EventsTellTheOutcome`.

### Settlement: what others rely on

- `AnswersAreKept` and `InboxAlwaysAgrees`. `AnswersInv` adds that a handler works
  on a real delivery (`JobsAreDeliveries`), that a replay under way reports what is
  still stored (`ReplaysAgree`), and why an operation that was refused for its
  keys can never be stored (`ConflictsStand`: another operation holds a key of it).
- `WakeUpsArrive`, under `~PermanentFaults`, which `wakeups_giveup` shows to be
  necessary. `WaitersAreDue` is about the gap between `WakeUp` and the commit: an
  operation of the same wallet that waits for the one being settled has been woken up, was
  met locked by a replay or a claim, or is due anyway. Who parks or reschedules in between
  would have to hold the wallet, and so would a worker that held the row to settle it and
  put it back to sleep afterwards.
- `SettlementImplementsBook`: `Init` maps to the initial state of the book, and
  every step to a step of `WalletBook` or a stutter. There is one lemma per commit
  (`BookOpening`, `BookWait`, `BookMove`, `BookProcess`, `BookReject`,
  `BookGiveUp`); all other statements leave the mapped tables alone.
  `DecisionsStand` is what makes the guard of the book, evaluated at the commit,
  true of a decision taken earlier.
- `MoneyAlwaysConserved`: the balance of a wallet is what it was opened with and the
  effects of its processed operations, each counted once. `MoneyInv` adds that the
  processed operations of a wallet are finitely many at any time (the set of
  operations need not be): without it their sum would mean nothing. A step
  processes at most one operation of one wallet (`ProcessedForms`), and `SafeInv`
  says that what it writes is the balance it read under the lock and the movement
  of its decision; `MoneySettled` and `MoneyOpened` add the one new term with the
  lemmas of `Sums`.
- `CommitsAreAccepted`: the checks, unique indexes, guards and deferred triggers
  of the schema accept every commit, so none of them ever turns a decision of the
  domain into an internal error. `TablesInv == RowsInv /\ EntriesBelong /\
  MovementsRecorded` adds that an entry belongs to its wallet's opening or to
  exactly one processed operation of the wallet, in the direction of its kind, and
  that every operation that moved money has its entry. The guards compare the rows
  before and after a step and the triggers read the tables after it, so `TablesInv`
  is used at both ends of the step: one lemma per table (`WalletAccepted`,
  `EntryAccepted`, `RowAccepted` with `SettlementAccepted`, `EventsAccepted`).

The assumptions are the named ones of `Wagering` and `Settlement`: the constants
have their types, a request passed its validation, two operations differ in a
column, a body asks for one operation. `RecordAssumption` says that a request is a
record (a function on its columns), so that two which agree on every column are
the same.

### Outbox

`LeasesHold` needs only the types: whatever changes a row is a claim of a free
row, an end of the lease, or the statement of a publisher whose receipt is the
row's claim. `PublishedOnlyIfSent` adds that what a publisher is about to mark has
arrived (`MarksWhatWasSent`); the queue forgets nothing. `ReceiptsStayCurrent`
adds that the receipt being delivered has left the batch (`OneAtATime`): otherwise
its mark would leave a stale copy of it behind.

### Instance

`TypesHold` carries `LineInv` (who is in the line of the pool waits, once): a
cancelled task leaves the line from the middle. `BudgetAlwaysHolds` adds that
holders of a slot are at most `WriteConcurrency` (`SlotsInv`); connections held are
then counted by kind (`FiniteSetTheorems`) against `BudgetAssumption`.
`AcceptedAlwaysFindsAll` and `ExitsAreClean` rest on `OrderInv`: what is idle when
it is off (`ClosedIsIdle`), what is up at each hook (`UpAtHook`), what a start has
begun and what a stop has ended (`Begun`, `Ended`).

### Consumer

`ShapeInv` is the type of each variable. `StagesInv` (what a goroutine is about to
delete is settled) gives `NothingIsLost`. `HandlesInv` (a receive makes a new handle,
so no two instances and no two goroutines know the same one) and `GroupsInv` (a
group gives out a message only when those before it have gone, and only a
received message takes effect) give `WalletsSettleInOrder`. `AnswersInv` follows each
message an instance answers for into its goroutine, `inFlight` or `unfinished`,
through the copy `Stop` takes of the map: that is
`StoppedInstancesHoldNothing`. `WorkersInv` (without a failure, who works on a
message and was not cancelled has its newest receipt) gives
`OverlapsOnlyWhenCancelled`. `ConsumerAssumption` says that a message appears once in
one stream.

### Entrance

The theorems rest on the book, not on the protocol: `BookInv` types it and
`OutcomeForms` says that it changes one operation at a time, from fresh or
pending. `NotesInv` keeps why an answer stands (`409`: a key of the operation is
taken) and gives `AnswersKeepTheirWord`; `LookupsInv` ties an answer to the rows the
statement saw and gives `LookupsStayIsolated`; `DoorsInv` and the lemma `SameMeaning`
give `DoorsAlwaysAgree`; `AmountsStayExact` uses `ParseIsExact` and `AmountsSurvive`
of `Money`. `EntranceAssumption` types the calls and the credentials; of a listing
whose request is well formed it says that the limit is positive, which `getLedger`
has checked.

`ReconciliationIsConsistent` rests on `BooksAgree`: the versions of a ledger are
distinct and not beyond that of the account, and the signed amounts add up to its
balance. `SeenInv` says that a snapshot is the ledger up to the version of its
account, whatever has been added since, and that the two agree in the same way. The
difference is then zero and `subExact` cannot overflow.

`PagesAlwaysComplete` describes a list by what it has passed instead of how it was
sorted: `Begins(s, S)` says that `s` is in order and leaves out nothing of `S` below
any entry it has. The query returns such a list because the number of entries up to
a version gives every entry its place (`Places`, `QueryForms`); cutting it at the
limit (`BeginningBegins`, `PageForms`), putting it after the pages before
(`BeginsFurther`, `PageFollows`), and commits beyond its end (`BeginsOn`) keep it so.
`LedgerInv` follows the cursor through a call: `ListingInv` (the pages begin the
ledger and end at the cursor), `CursorInv` (what the caller has was there when the
snapshot was taken), `LastPageInv` (without a cursor nothing is missing).

### Money

The first part of `EntranceProofs`. For every width of integer, number of cents and
limit of digits (`MoneyAssumption`):

- `AddIsExact`, `SubIsExact`: `addExact` and `subExact` return the exact result
  when it fits and the overflow error when it does not, although they only compare
  the wrapped result with one operand. This is what lets `Wagering` say
  `overflows` and `Decide` compute with unbounded integers.
- `ParseIsExact`: a canonical amount is parsed to its exact value or refused because
  the value does not fit. The limit is a division, so the lemma `LimitIsExact`
  relates it to the product the code never forms.
- `AmountsSurvive`: what `String` writes, `Parse` reads back as the same amount.

### Sums

`SumFunctionOnSet` of the community modules is a fold over subsets, each of which
chooses the index it adds last. An induction over finite sets would need an
operator as its hypothesis; instead the lemmas take a smallest subset for which the
claim fails (`SmallestSubset`, from the well-foundedness of inclusion on finite
sets) and refute it. They give that the fold exists, that equal values have equal
sums, that integers have an integer sum, and that one more index adds its value,
whatever the order of the choices (`SumIsFold` links them to the library's operator).

### Only model-checked

- Liveness: `EveryPendingSettles`, `EveryRequestEnds`, `EveryEventPublished`,
  `EveryStopEnds`, `EveryTaskEnds`, `EveryMessageEnds`. Fairness and `ENABLED` are
  out of the prover's reach.

Every safety property of a passing run has a theorem. That of `OnlyLockedRowsSleep` has
the premise `~PermanentFaults`, under which `wakeups` checks it.

## Not modelled

- Observability: metrics, logs, traces, and the statements that only feed them
  (`CountPending`, `PendingStats`). No property depends on them.
- The verification of a token and the refresh of its keys, which a library does;
  `Entrance` starts from the claims.
- Reading and validating the configuration, except for the connection budget:
  sequential code without state.
- Wording and layout: JSON of requests, answers and events, problem documents,
  headers. Of the payload of an event the model keeps its type and its order.
- The construction of the components in `app.go`, the health checks' own answers
  (they are reads of `Instance`), the emulator and the test environment.

## Plan

1. done: `Wagering`, `Settlement`, `DatabaseGuards`, `Outbox`, `Consumer`,
   `WalletBook` with the refinement, `Instance`, `Money`, `Entrance`.
2. done: the proofs listed above.
3. done: `MoneyIsConserved`, `ReconciliationConsistent` and `PagesComplete`, the last
   safety properties without a theorem. What is left to TLC is liveness.
