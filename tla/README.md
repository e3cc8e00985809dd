# Verification of domainry-foundation

TLA+ specifications of the stateful parts of `domainry-foundation`, a Go
library of process-local building blocks (workers, admission, rate limits,
idempotency, secrets, health, module contracts) that services embed.  TLC checks
the specifications on small instances; TLAPS proves the most important
invariants for every value of the constants.  `PROJECT.json` holds the index:
components, runs, mutants, the map from definitions to source lines, findings,
hazards and theorems.

Run a model with `tlc -config X.cfg M`, the proofs with `tlapm X_proofs.tla`.

## 1. The system: inventory

The library has no process of its own.  Its components are objects inside a
service; they interact with each other little and with the service's callbacks
and tables a lot.  Concurrency is that of goroutines, channels and mutexes;
durability is that of the service's tables, which the library only touches
through callbacks.

| Component (source) | State | Operations | What is hard | Correct when |
|---|---|---|---|---|
| Wakeable dispatcher (`worker/lifecycle.go`) | `inFlight`, `jobs`, `completed`, wakeup channel, executor goroutines | wakeup, recovery pass, enqueue, execute, report, shutdown | channel sends outside the select, panics, closing order, lost hints | no slot lost, nobody blocks on a full buffer, `done` only after everybody left, every committed task done |
| Polling dispatcher (`worker/lifecycle.go`) | `slots`, `jobs`, `wake`, interval | scan, acquire, enqueue, execute, release, signal, back off | slot count read before the scan and used after it; a signal between check and wait | the same, and a freed slot is noticed without waiting for the backoff |
| Recurring loops (`worker/lifecycle.go`) | timer, wakeup channel, interval | tick, wakeup, recovery, join | closed wakeup channel, timer reset, panic in a tick | keeps ticking, stops on cancel |
| Claim controller (`worker/controller.go`) | shutdown state, `inFlight`, `idle` channel | Pause, Resume, Drain, Undrain, Stop, TryBegin/End, WaitIdle | WaitIdle waits on a channel it read before unlocking | the channel is closed exactly when idle, Stop is final, draining converges |
| Lease heartbeat (`worker/heartbeat.go`, `worker/contract.go`) | derived context, `done`, `sync.Once`; the durable lease row | heartbeat goroutine, stop (called once or more), claim, finish | stop racing a heartbeat in flight, crash, expiry, reclaim | a failure is never hidden, a finished row is never revived, stop returns |
| Wakeup broker (`worker/wakeup_broker.go`) | subscriptions by stream | Publish, Subscribe, unsubscribe | full buffers drop hints | a publisher never blocks |
| Fair order, retry policy, metrics (`worker/`) | counters with bounds | order by quota, delay, begin/end | overflow of the delay, bounded owners | starvation freedom, delay within bounds |
| Capacity (`capacity/controller.go`) | counters by process, workspace, use case, retry; load state | Acquire, Release, Snapshot | eviction of entries, windows, state recomputed only on some paths | leases accounted, maps bounded, state matches the load, rates hold |
| Rate limiter (`ratelimit/ratelimit.go`) | map of fixed-window buckets | Allow | clock read before the mutex, expiry, capacity eviction | map bounded (it is not, see findings), rate holds |
| Telemetry SQL driver (`telemetry/sql_driver.go`) | `inTransaction`, transaction metrics | Begin, BeginTx, Exec, Query, Commit, Rollback | fallback paths, initializer failure | no transaction is exposed without its initializer, one metric per transaction |
| Idempotency (`idempotency/`) | receipts with leases (in the service), bounded metrics | Classify, Acquire, complete, fingerprint | crash between effect and receipt, expired lease | one effect per key, replay of the stored answer |
| Mutation (`mutation/`) | none | run with unknown commit outcome | commit error that did commit | the receipt decides |
| Secrets (`secrets/`) | keys by id with status and material, active id; envelopes in the service | Rotate, Revoke, Active, ByID, Encrypt, Decrypt | rotation to an id that exists, revocation during an encryption | sealed data stays readable until its key is revoked, and for its binding only |
| Health (`health/health.go`) | check history | Evaluate, Register | slow checks, concurrent evaluations of one check | what a check once achieved stays recorded, evaluations return |
| Pagination (`pagination/`) | none; a client keeps its position | Bounds, Slice, cursor windows and boundaries | integer width, last and empty pages | following the pages shows every item once |
| Action registry (`action/`) | definitions, three indexes, usages, revision, `frozen` | Register (a batch), Freeze, Resolve*, QueryPermissionUsages | conflicts in the middle of a batch, order of modules | a batch is registered whole or not at all, the indexes agree |
| Module descriptors and HTTP adapters (`moduleinfo`, `modulehttp`) | none; the host keeps the inventory | NewInventory, ValidateSourceOwners, ValidateAuthorizationProjection | manifest and mounted routes drift apart | what is mounted is what is authorised |
| Capability contracts (`modulecapability/`) | a static binding; the documents a remote binding loaded | NewStaticBinding, OpenRemote, ValidateCandidate, component closure | the service is redeployed between requests, answers with other documents | an opened binding is the pinned contract, whole |
| Expressions (`expression/contract`) | none | ExpressionValidate, ExpressionEvaluate | two walks that learn types in different ways | what was accepted evaluates to its type |
| Decimals (`decimal/`) | none | normalise, round, add .. divide, compare, encode | ties, signs, precision, width of the scale | order and value survive the encoding, results are rounded as configured |
| Outbound HTTP (`safehttp/`) | kept connections | Do, RoundTrip, dial, CheckRedirect | DNS changes between validation and dial, redirects | connections go only where the policy permits |
| apperror, collection, filelock, logging, requestcontext, testkit | little or none | values, wrappers | | |

The dispatcher, the broker, the claim and the heartbeat meet in the durable
task path: a transaction commits a row, the broker publishes a hint that may be
lost, the dispatcher queues the task from the hint or from its recovery query, an
executor claims the row under a fencing token and keeps its lease alive with
a heartbeat, and the claim controller drains the process.  `DurableDispatch`
composes the dispatcher with the row, the hint, the claim and crashes;
`LeaseHeartbeat` looks at one row, its tokens and its heartbeats more closely.

An idempotency receipt decides which of several attempts executes a request, under
a lease of the same kind, and the commit of its effect may end with an unknown
outcome, which `mutation` classifies; `IdempotencyReceipt` composes the two.

A host admits modules: the descriptor into the inventory, the HTTP adapters against
the manifest, the manifest into the action registry, which is frozen and then
authorises requests.  `ModuleAdmission` composes the four packages.  A module that
runs elsewhere is reached through a remote binding with a pinned contract;
`RemoteBinding` puts the client beside the service and its deployments.
Expressions compute with decimals, and `Expression` extends `Decimal`.

The list of hazards, each at its line, is in `PROJECT.json`; a property that is
not about one of them is a type invariant.

## 2. Modules

| Module | Models | Proofs |
|---|---|---|
| `WakeableDispatcher` | `StartWakeableDispatcherWithExecutors` | `DurableDispatch_proofs` |
| `DurableDispatch` (EXTENDS the former) | the same with the task table, `WakeupBroker.Publish`, claims under fencing tokens, leases that run out, failure and crash | `DurableDispatch_proofs` |
| `TaskTable` | abstract: what durable dispatch promises the owner of the table; implemented by the former | `DurableDispatch_proofs` |
| `RecurringLoops` | the named, adaptive and recovery loops, `WakeupBroker`, `Join` | `WorkerLoops_proofs` |
| `PollingDispatcher` | `StartDispatcherWithExecutors`, `nextAdaptiveInterval` | `WorkerLoops_proofs` |
| `ClaimController` | `worker.Controller` | `ProcessControls_proofs` |
| `LeaseHeartbeat` | `WithHeartbeat`, `Lease` | `WorkerLoops_proofs` |
| `CapacityController` | `capacity.Controller` | `Limits_proofs` |
| `MemoryLimiter` | `ratelimit.MemoryLimiter` | `Limits_proofs` |
| `Tallies` | sums over a set, for the properties of the former two and the lists of `ActionRegistry` | |
| `ObservedConn` | one connection of the observed SQL driver: `BeginTx`, statements, implicit transactions, rows | `ObservedConn_proofs` |
| `HealthRegistry` | `health.Registry.Evaluate` and `evaluate` | `ProcessControls_proofs` |
| `IdempotencyReceipt` | `Classify`, `Lease` and commits of unknown outcome around one receipt | `IdempotencyReceipt_proofs` |
| `OnceOnly` | abstract: what a receipt promises its callers; implemented by the former | `IdempotencyReceipt_proofs` |
| `KeyRing` | `MemoryKeyRing` and the `Cipher` on top of it | `Libraries_proofs` |
| `SafeClient` | `safehttp` client: validation, dial, redirects, kept connections | `Libraries_proofs` |
| `ActionRegistry` | `action.Registry`, normalisation, validation, usages | `ModulePlatform_proofs` |
| `ModuleAdmission` (EXTENDS the former) | `moduleinfo`, `modulehttp`, and a host that admits modules | `ModulePlatform_proofs` |
| `CapabilityContract` | validation rules of `modulecapability`, digest, static binding, component closure | `ModulePlatform_proofs` |
| `RemoteBinding` (EXTENDS the former) | `OpenRemote` and candidate validation against a service that is redeployed | `ModulePlatform_proofs` |
| `Decimal` | `decimal.go` | `Libraries_proofs` |
| `Expression` (EXTENDS the former) | expression validation and evaluation | `Libraries_proofs` |
| `Pagination` | `numbered.go`, `cursor.go`, and a client that walks through the pages | `Libraries_proofs` |
| `Scheduling` | `fairness.go`, `retry.go` | `Libraries_proofs` |

`MC*` modules hold the constants and symmetries of the instances.  `MCLibraries`,
`MCModulePlatform`, `MCProcessControls`, `MCDatabaseWork` and `MCWorkerLoops` put components that share
nothing into one run: each behaviour is about one of them, and the others rest.  An operator
whose comment starts "A bug to tell apart" is a mutant: a plausible mistake in
the definition after it, which the named property must detect.  No specification
uses it.

### What a step is

* A goroutine takes one step per channel operation; a select with several cases
  is a choice among the enabled ones.  A buffered channel is a sequence or, where
  its items do not matter, a counter; a send's guard is the free buffer.
* A method that holds a mutex from its first read to its last write is one step.
  A read made before the lock or used after the unlock is a step of its own
  (`ReadClock` in `MemoryLimiter`, `ReadIdle` in `ClaimController`).
* A callback of the owner (`scan`, `recover`, `execute`, `heartbeat`) returns
  any value of its type, an error, or panics where the code recovers.
* Logging, metrics sinks and the text of errors are left out.

### WakeableDispatcher

`pc` is the place of the dispatcher goroutine: in `dispatchRecovery`
(`"recover"`), sending a batch (`"send"`), in the select, waiting for the
executors (`"join"`) or done.  `inFlight` is its local counter.  The guard that
turns the wakeup input off when the pool is full is `InputOpen`.  `execute`
runs inside `runTick`, which recovers panics, so `ExecuteReturns` covers both.

### DurableDispatch and TaskTable

`durable` is the state of each row, `version` the fencing token of its last claim and `held` the
token under which an executor works.  A lease is time: `LeaseExpires` makes a claimed row runnable
whoever is at work on it, so a second executor of the same process, and so of the same owner, may
claim the task while the first one is still at work; what keeps them apart is the token
(`Matches`, `worker/contract.go:47`).  The late one finishes the row if nobody claimed it since
(`Succeed`) and finds a newer token otherwise (`Fenced`).  `TaskTable` knows no tokens: it has who is
at work on a task and to whom it was given last, and says that only that one finishes it.  Failed
executions, failed recovery queries, leases that run out under a live holder and crashes are
counted together and bounded by `MaxFaults`.

### PollingDispatcher

`available` is the slot count the goroutine read at the start of the iteration;
slots may be given back between this read and the sends.  `StartTimer` is the
point between a scan and the wait: a release before it must still be seen by the
select that follows.  `interval` is
bounded by `MinInterval` and `MaxInterval` and doubled by `nextAdaptiveInterval`.
A panic of `execute` is *not* recovered in this function: the process dies, which
leaves nothing to state a property about, so it is not an action.

### RecurringLoops

Each loop is at one place of its function: before its first tick, in its callback,
in its select or done.  `armed` and `fired` are its timer (running, and with a time
in its channel); `StopTimer` is the stop-and-drain idiom, which leaves the channel
empty either way.  `listening` says that the local variable `wakeups` is not nil, which a
loop makes it when it finds the channel closed.  The broker's channels are never
closed by the code; a caller may pass a channel of its own, which is why `SendHint` and
`CloseHints` are external actions.  `Publish` is the whole fan-out, since no send
blocks.  `Join` waits with a goroutine for each loop.

### ClaimController

Channels are numbered; `closed` is the set of those closed.  `refusing` is
history: no claim could be admitted since the waiter read the channel.  The code
comment of WaitIdle promises nothing about claims that begin later, and the
property does not either: without `refusing` the answer may be stale.

### LeaseHeartbeat

One attempt of a worker goes through `Claim`, the heartbeat goroutine, two callers
of `stop` (the explicit one and the deferred one) and `Finish` or `Abandon`.
The row and the token check are the service's; they are modelled by the contract
in `worker/contract.go`.  Time is abstract: a lease may expire at any
moment it is not renewed.

### CapacityController and MemoryLimiter

`held` and `admitted`, and in the limiter `allowed` and `evicted`, are history variables.
What they sum is written as the cardinality of a set of units (`Tallies`), which the
prover's theorems about finite sets can count.  Time is a counter; the
mutex is held while the clock is read in `capacity` and not in `ratelimit`.
Ratios are percentages.  `RetryAfter` and the contents of events are left
out.  The empty key is a key like others in `MemoryLimiter`, except that `evictOldest` takes it for
"none found" (`Victims`).  The code strips the monotonic clock (`UTC()`), so a wall clock set back is
possible in reality; the models let the clock only move forward.

### ObservedConn

`database/sql` serialises the calls on a connection, so each driver call is one
step.  `current` is the transaction that is open on the physical connection and
`inTransaction` the flag the driver keeps about it; `explicit` is the transaction
the caller holds.  `rows` are those of an implicit transaction, which they end,
or of a plain query.  `driver` says which optional interfaces the wrapped
connection has and whether an initializer is configured; every path of
`BeginTx`, `ExecContext` and `QueryContext` depends on it.  The wrapped driver is external:
any call may fail, and a begin inside a transaction is refused.

### HealthRegistry

A member of `Evaluation` is one call of `Evaluate` and stands for the time it read
at its start.  Each check runs in a goroutine (`run`) with a channel (`done`) that
outlive the evaluation's wait.  `RunReturns` has no fairness: a check may hang
for ever.  The sort and the formatting of the answer are left out.  `HistoryIsRetained` says that
the time of a success or a failure, once there was one, is never wiped out; it does not say that it
is the latest, which the code does not ensure.

### IdempotencyReceipt and OnceOnly

One row and the attempts under one key.  Callers bring their own clocks to
`Classify`, so a lease may look expired at any moment (`LeaseExpires`).  Several
attempts may use one owner name, and only the token tells them apart.  `Commit` is
the transaction of effect and completion; `CommitUnknown` is its unknown
outcome, after which the caller starts over and lets the receipt decide.  The
table is external and modelled by the contract's fields; the fencing of the
completion is what `Lease.Matches` is for.  `OnceOnly` has neither leases nor
tokens: one request, one outcome, one effect, one answer.

### KeyRing

`Encrypt` is two steps, `Active` (a copy under the lock) and `Seal` (without it).
`envelopes` is everything that was ever returned.  Cryptography is modelled by its
promise: material and binding must be those of the seal.  `Rotate` takes any
identifier, as the code does; `reused` remembers the ones that existed, about which
the property promises nothing.

### SafeClient

One call at a time of one client.  A host is a name or a literal address; `dns` is
what the resolver answers now and changes at any step.  `RoundTrip` validates,
`DialContext` resolves again and validates again, `Dial` tries one address,
`Redirect` is `CheckRedirect` with the rule that a literal loopback is reachable only
if the call began at one.  `Reuse` is the connection pool of the base transport: no dial.
A proxy from the environment, which the cloned transport keeps (`client.go:49`), is left out: then
the address dialled is the proxy's.

### ActionRegistry and ModuleAdmission

A text is a sequence of tokens, so that trimming, case and namespaces do what they do in
the code; a list that the code sorts is a bag.  `Register` is one step under the mutex:
normalise, validate, look for conflicts with the indexes and inside the batch, then
write all indexes.  `Freeze` computes usages and the revision, which is the set of
definitions (a hash of them in the code).  `Admit` is the host, external, and calls
what the packages offer in the order they document.

### CapabilityContract and RemoteBinding

A key is a number ordered as its text, a size is a count, and the digest of a
bundle is the bundle without its digests, so two digests are equal exactly when the
contracts are.  `OpenRemote`, `LoadSummary` and each `LoadCategory` are steps of their
own, with `Redeploy` and `RequestFails` between them.  `HandWritten` are services that
do not use `NewStaticBinding`, may serve documents under a digest that is not
theirs, and answer a request for a category with any document they have (`CategoryAnswers`): the
client relies on the validation of the whole bundle for the key.  In the code digests are equal when
the canonical texts are, and canonical JSON takes numbers through a float64, so contracts that
differ in large integers only have one digest and are served alike.  `strayed` and `accepted` are history.

### Decimal, Expression, Pagination, Scheduling

Algorithms, each next to a definition that says what the result should be in other
words: a decimal rounded once from the exact result, the order of numbers, the whole
sequence of items, each tenant's turn.  Where an algorithm is a loop, the steps of the loop
are actions: `FetchPage` is a client that asks for the next page until `HasNext` is false
(`walk`, `position`, `seen`); `Reserve`, `AddClass` and `ShareRest` are the three parts of
`QuotaFairOrder`, the second for the classes in the order of a Go map, that is in any order;
`TryAgain` is one attempt more and one round more of the loop of `Delay` (`grown` is its
variable).  `Validate` and `Evaluate` are one node of the walks of `ExpressionValidate` and
`ExpressionEvaluate`.  An expression is the sequence of its nodes in the order in which both
recursions return from them (`nodes`; an operation names the places of its arguments), so that
the first failure of the recursion is the step at which the walk ends, with its code in
`diagnostic`; `typed` and `evaluated` are what was returned so far.  `FairOrder` is stated by the order in which its rounds serve the
items (`ServedBefore`).  A decimal calculation has no steps: `calculation` holds its
operands and its configuration.  A decimal is the pair of the
library (integer and exponent).  A value of an expression carries the kinds that read it,
which is how JSON text and the caller's Go values differ.  Validation (`expressionLiteralValid`) and
evaluation (`Normalizes`) have a switch over the kinds each; a `time.Time` (`Instant`) is a date for
the second only.  Integers, scales and
durations wrap at a width (`IntMax`, `ScaleModulus`, `DurationMax`) that the
instances make small.

## 3. Runs

| Run | Checks | Bounds |
|---|---|---|
| `durable_dispatch` | slots accounted, implements `TaskTable`, shutdown completes, every committed task done | 2 tasks, 2 executors, wakeup buffer 1, recovery may return one item more than the pool, 1 fault of any kind: a failure, a crash, or a lease that runs out under its holder (148,993 states) |
| `worker_loops` | polling pool: freed slot signalled, shutdown; loops: cadence, `Join` | 3 executors, interval 2..7 (a doubling that hits the cap off a power of two); one loop of each kind, hint buffer 1, four spellings of queue kinds, backoff 2..3 (69,968 states) |
| `process_controls` | claims: idle channel, WaitIdle, Stop is final, draining; health: history retained, evaluation returns, late checks end | 2 workers, 2 waiters, 3 channels (a waiter can hold a channel two generations old); 2 evaluations, 2 checks, 1 of them critical (138,734 states) |
| `capacity_controller` | leases accounted, maps bounded, state matches load, rate of a workspace over eviction | 3 workspaces for 2 places, in-flight limits 3/2/3 and 1 retry, rates 3/1/2 in a window of 2, TTL 2, ratios 60/10, time 0..4 |
| `capacity_ratios` | violation, see findings | degraded ratio 50, recovery ratio unset |
| `libraries` | rate of the limiter, envelopes readable, dials allowed, decimals exact, accepted expressions evaluate, pages partition, schedules fair | limiter: 2 callers, the empty key and another for 1 bucket, window 2, TTL 4, 5 ticks, clock read up to 1 early; key ring: 3 identifiers, 2 materials (1 usable), 2 bindings; client: 2 names, 3 addresses, 4 answers, 2 redirects; walks, calls, policies, calculations and expressions from the case sets of `MCLibraries` (702,126 states) |
| `limiter_bound` | violation (the map is bounded), see findings | the same |
| `database_work` | heartbeat: failure reported, finished row final, stop returns, lost lease cancels; connection: flag tracks the transaction, one observation each, the caller's transaction ends by the caller | 2 workers, 2 tokens (a claim by each, or by one twice); 2 rows, 4 transactions, every combination of interfaces with `BeginTx` or without initializer (89,764 states) |
| `database_begin` | violation (initializer before statements), see findings | the same with every combination |
| `page_bounds` | violation (bounds are safe for every page), see findings | integers up to 15 |
| `idempotency_receipt` | effect matches the receipt, implements `OnceOnly` | 3 attempts under 2 owner names, 2 fingerprints, 3 tokens |
| `module_platform` | indexes agree, mounted routes resolve, usage answers validate; an opened binding is pinned, mismatches are real, results under the pinned contract | 16 modules that meet in every way the registry tells apart, 4 usage requests; two versions and another module, refused drafts, hand-written services that answer with any document, limits of 1 and 2 per category (5,947 states) |

Why these are enough: two executors (three in the polling pool) give every
pair of roles a goroutine each, a full and a half full pool; a batch larger
than the pool is among the inputs; and maps that are smaller than the key set
make every eviction path run.  Four transactions let rows of an implicit transaction
outlive a caller's transaction that begins and ends beside them; three attempts under
two names let a late attempt share its name with the one that took over from it.
Three identifiers let a key be rotated away, revoked and replaced while an envelope of
it exists.  The module sets contain for each rule a module that meets it and one that
breaks it.  The case sets of the pure algorithms hold ties, carries and signs at
precisions of one and two digits, every operator over leaves of every kind with nulls and
bad references, page numbers past the integer width, and delays at its edge.
One fault is enough for a lease to run out under its holder, a second executor to claim the task
and both to finish; that several faults together keep the safety properties is proved.
The mutants show that the bounds reach the cases: each property fails in its own
run when the code is changed.

A fixed window allows a burst at its end and another at the start of the next, so the
rate of a workspace is stated as twice its limit in any span of a window's length.  It
needs the state of an idle workspace to be kept for a window (`WorkspaceStateTTL >=
RateWindow`).  In `ratelimit` calls of more than two windows may be decided in such a
span, since a call counts in the window of the time it read and waits for the mutex
after that: the bound is the limit times `WindowsInSpan`, which is 2 for waits of one
tick, as in the instance, and one more for each further window a call may wait.  (With
window 2 and waits of 2, TLC finds three.)  `Allow` counts denied calls too; the model
saturates the count at `Limit + 1`, since all values above the limit deny.

### Fairness

* Weak fairness of each goroutine: the Go scheduler runs what can run, callbacks are
  assumed to return, and timers fire.
* Strong fairness of a select case: `select` picks at random among ready cases,
  so a case that is ready again and again is not ignored for ever.  It is
  assumed only of the cases shutdown or recovery depend on (`ctx.Done`, the
  recovery timer, a completion): in `DSpec` of `DurableDispatch` and, in
  `RecurringLoops`, for the recovery loop only, which hints can keep busy.
* `DurableDispatch` assumes that a lease nobody works under any more runs out; it assumes nothing of
  a lease with a live holder, nor of hints, which may be lost or never published.
* `ClaimController` assumes that an admitted run returns; nothing of
  administrators or waiters.
* `HealthRegistry` assumes that the goroutines run and that the timer of a check
  fires; not that a check returns.

## 4. Proofs

TLAPS proves, for every number of executors, tasks, workers, callers and modules, every
buffer size and every limit:

| Theorem | Inductive invariant |
|---|---|
| `DurableDispatch_proofs`: TypeCorrect, NoSlotIsLost, NoSendBlocks, DoneIsQuiescent (of the pool alone) | `TypeOK`, `SlotsAccounted`, `BatchFits` (what is queued and what is left of the batch fit the pool), `ExitsAreFinal` (an executor leaves only after `jobs` is closed and empty) and `BusyHasJob` |
| the same: TasksAreHeldExclusively, NoSlotIsLostDurably (of the composition) | the former and `Fencing`: who has a token is running, tokens at work on a task differ and are none of the future, and a row that is done has left its token behind |
| the same: DispatchServesTable | the same; a refinement, see below |
| `WorkerLoops_proofs`: TypeCorrect, NoSlotIsLost, ScanFits, NoLostWakeup, DoneIsQuiescent (polling pool) | the same as the pool's with `batch + slots <= Concurrency` while sending, which survives releases because they only lower `slots` |
| the same: FailuresAreReported, StopWaitsForGoroutine, FinishedIsFinal (heartbeat) | `LeaseTypeOK`, `GoroutineReportsOnce` (its error is in the channel until `stop` receives it, and is the result of `stop` from then on), `OnceIsExclusive`, `FinishedIsQuiet` (nobody who could renew a finished row is left) |
| the same: LoopsKeepTypes, JoinWaitsForAll, NoLoopSpins (loops) | `LoopTypeOK` and `WaitedAreDone`; NoLoopSpins is an action property: each wake of a sleeping loop uses up its cause |
| `ProcessControls_proofs`: TypeCorrect, IdleChannelIsExact, WaitIdleSound, StopFinal | `TypeOK`, the exact channel, `ClosedWereMade` (no channel of the future is closed) and `WaitersAreCurrent` (a waiter during a refusal waits on the current channel or finds the pool idle) |
| the same: HistorySurvives, LateSendsNeverBlock (health) | `HealthTypeOK`, `HistoryIsRetained` and `ChannelsAreFresh` |
| `Limits_proofs`: LoadStateIsRight, RecoversWithHysteresis | `LoadInv`: the bounds of `global` and `StateMatchesLoad` |
| the same: LeasesStayAccounted | `CapacityInv`: typed and bounded maps, finitely many units and the accounting, from which `release` finds its keys in the maps |
| the same: WorkspaceRateIsHeld | `RateInv`: per workspace, what its counter says about the admissions (`WindowOK`); a counter that is not there forgets only admissions a window old |
| the same: LimiterRateIsHeld, LimiterIsBounded | `LimiterInv`: the map, the waiting calls, and per key `BucketOK`: from any time on, the calls are at most what the bucket counts and the limit for each window's length before `start + MaxStale` |
| `ObservedConn_proofs`: FlagIsRight, ObservedOnce, CallerEndsExplicit, NothingRunsBare | `TypeOK`, the flag, the count, `RowsOwnCurrent` (unfinished rows own the open transaction, and only one does) and `ExplicitIsCurrent`; `GuardInv` adds that an open transaction of a driver with an initializer is initialized |
| `IdempotencyReceipt_proofs`: EffectHappensOnce, FencedExecution, AnswersAreRight, ReceiptKeepsPromise | `TypeOK`, `HoldsWhileWorking`, `TokensAreUnique` (no two attempts hold one token, none holds a future one), `TokenExecutes` (who holds the row's token executes the row's request), `AbsentIsBlank`, and the two checked invariants |
| `Libraries_proofs`: OneKeyIsActive, SealedIsReadable | `KeyRingTypeOK`, one active key, `EnvelopesKept` and `CopiesKept`: the ring knows the key of an envelope, and of a copy that an `Encrypt` still holds, as it was, or has revoked it |
| the same: DialsAreSafe | `ClientInv`: the chain of hosts, `RedirectsPermitted` (a loopback host means the call began at one) and `CandidatesPermitted` (what was validated stays permitted while the resolver changes its mind) |
| the same: PagesShowEverything | `PageInv`: what was shown is a prefix (`Shown`), the position is the page or the cursor right after it, and each page before the last added something |
| the same: SchedulesStayFair | `FairInv`: the selected and the remaining items are, each once, the items of the classes handled (`FairOpen`), each handled class has its share (`Shares`), and what quotas are left fits what is left of the limit (`QuotasFit`); `RetryInv` bounds the delay.  Rests on `FairOrderBalanced`: the items a group got are its first ones, and no group is two rounds ahead |
| the same: AcceptedStaysEvaluable | `ExpressionInv`: every typed node has the type validation computes for it, and every evaluated one agrees with it (`Agrees`: the type, no null without a null among the nodes so far, numbers for the numeric kinds); rests on `OperationApplies`: on arguments the table of operations admits, only a null argument fails a type assertion |
| the same: DecimalsStayExact | about all calculations, so nothing is inductive in time; rests on `RoundQuotientRounds` (each mode rounds as `RoundsTo` says), `RoundingInOrder` (rounding keeps the order and so has one result), `TextOrder` and `ParseDigits` (digits), and `RoundedTwice` (quotients) |
| `ModulePlatform_proofs`: BindingsArePinned, MismatchesAreReal, ResultsArePinned | `BindingInv`: the documents loaded so far were served, the summary carries the pinned digest, and while nothing strayed they are the pinned ones |
| the same: IndexesStayConsistent, RoutesResolve | `AdmissionInv`: keys, manifests and indexes agree, no action belongs to two modules, permissions belong to their action |
| the same: UsageAnswersAreValid | `AdmissionInv` and `FrozenAnswers` (a frozen registry has a revision, and its usages are those of its definitions); rests on `NormalizedTwice`: normalising a definition again changes nothing |

Why strengthening is needed: `SendsNeverBlock` says nothing of the rest of the
batch, so a send could use up the space of the next one; `DoneMeansQuiescent`
says nothing before `done`, so an executor could have left with a job in the
queue; `ExclusiveHolding` says nothing of executors that are not running and nothing of tokens on
tasks they left; `WaitIdleIsSound` speaks of waiters that have an answer, and what makes it
true is which channel they wait on before that.  `FinishedRowIsFinal` needs that the
heartbeat of the worker that finished has ended before.  `EffectMatchesReceipt` does not
exclude a second commit by an attempt whose token was taken over; the uniqueness of
tokens does.  `ExplicitEndsByItself` needs that no unfinished rows exist beside a
transaction of the caller.  `SealedStaysReadable` says nothing of a copy that was
taken before a rotation and becomes an envelope after it.  The rates say nothing of
the counters: a bucket could have forgotten calls of its own window.  `OpenedIsPinned`
speaks of an opened binding, and rests on what was loaded before the digest was computed
again.

`ReceiptKeepsPromise` is a refinement: the initial states map to initial states of
`OnceOnly`, and under the inductive invariant each action maps to a step (`Insert` to
`Accept`, a final commit to `Resolve`, `Replay` to `Answer`, `AskAgain` to
`Forget`) or to a stutter.  `DispatchServesTable` is one too: the workers of a
task are those with a token for it (`atWork`), its holder is the one whose token the row still has
(`holder`), and `CommitTask` maps to `Submit`, `Claim` to `Start`, `LeaseExpires` to `Lapse`,
`Succeed` to `Finish`, `Fenced`, `Fail` and `Crash` to `Abandon`, every other step to a stutter.

Two arguments recur.  A sum over a set is the number of its units (`Tallies`), so that
adding a call or a lease is adding an element to a finite set; the lists of a definition
that the code sorts are bags, and the image of one (`Images`) is such a sum.  Where a proof needs an
induction over numbers (sorted categories, the first and last token of a text), it
takes a least element, which the strict subset order on finite sets has
(`LeastNumber`, `GreatestNumber` in `ModulePlatform_proofs`).  The powers of ten (`Ten`) and
the reading of digits (`Parse`) are recursive functions, which TLA+ defines by `CHOOSE`: that a
function with the recursive equation exists (`PowersExist`, the step `h = F(h)` of
`ParseDigits`) and what its values are is shown by a least counterexample too.

Hypotheses of single theorems, which the code does not establish:

* `LoadStateIsRight` assumes `RecoveryRatio < DegradedRatio` after normalisation;
  `capacity_ratios` shows what happens otherwise.
* `WorkspaceRateIsHeld` assumes `WorkspaceStateTTL >= RateWindow`; both are configured
  freely.
* `LimiterRateIsHeld` assumes `IdleTTL >= Window + 2 * MaxStale`: a call moves `lastSeen` back by up
  to `MaxStale`, and after another key's call expired the bucket, a waiting call opens a window up to
  `MaxStale` earlier still.  `Allow` takes any window from its caller, and one that is longer than
  the TTL does not hold its limit.  The instance meets the bound exactly.
* `LimiterIsBounded` assumes that the empty string is no key; `limiter_bound` shows what happens
  otherwise.
* `NothingRunsBare` assumes that every driver with an initializer has `BeginTx`
  (`GuardedDrivers`); `database_begin` shows what happens otherwise.

Some facts are proved and not checked again by a run: the type invariants of these
modules, `SendsNeverBlock` and `DoneMeansQuiescent` of the wakeable pool,
`SlotsAccounted`, `ScanFitsThePool` and `DoneMeansQuiescent` of the polling pool,
`ExclusiveHolding` of durable dispatch, `StopWaits` of the heartbeat, `JoinedIsQuiet` and `WakesForCause` of the loops,
`LateSendHasRoom` of the health registry, `Hysteresis` of the capacity controller,
`ExecutesItsRequest` and `AnswersItsRequest` of the receipt, `OneActiveKey` of the ring.

The assumptions on constants are in the modules that declare them and are
evaluated by TLC in every run: positive concurrency, buffer sizes and limits,
ordered intervals, finite sets of workers and tasks, a `NoTask` that is no task, a bounded
clock, and that manifests are lists of definitions (`ModuleAssumption`), usage requests
lists of texts (`QueryAssumption`) and documents records (`BindingAssumption`).  A list that is
paged has distinct, non-blank identifiers (`PageAssumption`: "the item identity must be the final
stable key" of the ordering, `cursor.go:61`); the items of a scan are different rows and an order
lists no class twice (`CallAssumption`; section 5 says what happens otherwise); delays are within
the width (`PolicyAssumption`); operands are integers with an exponent of either sign
(`DecimalAssumption`); the arguments of an operation come before it, and only a list has a type of
its elements (`ExpressionAssumption`: for literals the code sees to that, for the types of
references it is up to the caller that declares them).

Only model-checked: the liveness properties (fairness and `ENABLED` are beyond the prover).
Every invariant and every refinement a run checks is proved as well.

## 5. Findings

* `capacity_ratios`: a degraded ratio of 60% or less without an explicit
  recovery ratio makes a process normal at a load at which it should be degraded.
* `limiter_bound`: while the bucket of the empty key is the oldest, nothing is evicted, and the map of
  the limiter outgrows its capacity.
* `database_begin`: on a driver without `BeginTx` the fallback to `Begin` exposes
  a transaction without running the initializer.
* `page_bounds`: the offset of a large page number wraps around; the window that is
  promised to be safe starts below zero.

Each is a run with a counterexample; the quoted lines are in `PROJECT.json`.

Observations made while modelling, which no document contradicts clearly and
which have no run:

* `worker/heartbeat.go:27`: a heartbeat in flight when `stop` cancels its context
  returns the context's error, and `stop` reports it like a lost lease.
* `ratelimit/ratelimit.go:102`: the expiry of idle buckets does not look at their
  window; a window longer than the TTL does not hold its limit.
* `telemetry/sql_driver.go:166`: a statement between the rows of an implicit
  transaction joins that transaction.
* `health/health.go:107`: a slow evaluation that ends late replaces the times a newer
  one recorded by older ones.
* A panic in `execute` of the polling dispatcher, or in a health check, is not
  recovered and ends the process.
* `secrets/keyring.go`: a decrypt-only key may be given twice; rotating to an
  identifier that exists replaces its material, and envelopes under it stop opening; a
  revocation during an encryption yields an envelope that is unreadable at once.
* `action/validation.go:18`: the comment says conflicts are validated at Freeze; Register
  does it.  Retired actions still appear in usages.  A route pattern keeps the case of its
  method while the registry's identity upper-cases it.
* `modulehttp`: owners `a_b` and `a-b` have one namespace root; the registry, not the
  namespace, keeps their routes apart.
* `modulecapability`: the document check accepts a reference into a part of a component whose other
  references dangle, while the builder collects whole components.  Some
  policy and permission keys are valid for actions and refused in an operation's
  extension.  A pinned static binding is verified once and read live afterwards.
* Expressions: a literal null of an accepted expression makes `and`, `or`, `not`, an ordered
  comparison or date arithmetic fail with a panic; a reference without a declared
  type, or a list reference without an element type, is typed by its value only
  when it is evaluated; durations compare as text; the comparison of decimals ignores an
  overflow of its subtraction.  `AcceptedEvaluates` excuses exactly these.
* Decimals: a division rounds twice; a scale beyond 32 bits wraps around before it
  is checked against the precision.
* `pagination/cursor.go`: the look-ahead of a page size at the integer width wraps around;
  `PagesPartition` is about sizes and pages within the width.
* `QuotaFairOrder` takes an item twice if its order lists a class twice.  A retry policy
  with a maximum delay of 0 never grows, and one with a base delay of 0 jumps to its
  maximum at the second attempt.

## 6. Not modelled, and why

* `telemetry.go` and SQL histograms, `logging`, `apperror`, `requestcontext`,
  `collection`: values and wrappers without state of their own.
* `filelock`, the secret file provider: system calls.
* Schema generation and contract tests of `modulecapability`: reflection over Go types
  and text generation.
* Worker, idempotency and mutation metrics: counters with a bounded set of names,
  written under one mutex; nothing reads them back.
* `idempotency` fingerprints and the classification of database errors in
  `mutation`: tables of cases over text.
* Redaction, JSON and the text of messages: not told apart by a property.  A canonical size is a
  count, or whether it is within its limit.
* A proxy of the HTTP client.
* `OverscanLimit`, the deadline of `Allows` and the classification of application errors
  (`worker/`): one condition each.
* Faults outside the code's handling: a wall clock set back, a panic that kills
  the process in the polling dispatcher, a callback that never returns.

## 7. Plan

Of this code, what has steps worth ordering is modelled, and what the prover reaches is proved.
If the metrics of the workers get readers: bounded owner names under concurrent ticks.
