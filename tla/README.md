# TLA+ specification of Aero Arc Conformance

The service decides whether an aircraft follows its approved 4D volumes. It
keeps versioned assignments in PostgreSQL, evaluates telemetry it polls from
InfluxDB, stores incident evidence, and publishes summaries to a Registry. This
directory specifies the parts whose correctness depends on order, timing and
fences. TLC checks the specifications on small instances; TLAPS proves the most
important invariants for every value of the constants.

## The system and its parts

| Part | Source | Module |
| --- | --- | --- |
| Assignment lifecycle: prepare, arm, cancel, cutover, with an idempotent inbox, an audit trail and an API outbox | `internal/store/postgres/store.go:112-638`, `migrations/001_initial.sql` | `AssignmentStore`, which implements `Authority` |
| Leases, checkpoints, summaries, live and historical commits | `store.go:640-1114` | `AssignmentStore` |
| Registry outbox and its publishers | `store.go:1119-1237`, `internal/projection/registry/publisher.go` | `RegistryOutbox` |
| Evaluator: volumes, hysteresis, condition, causal range | `internal/evaluator/evaluator.go` | `Evaluator` |
| Worker: poll, claim, restore, read, evaluate, commit | `internal/worker/evaluation.go` | `EvaluationWorker` |
| Telemetry reader: one query, its row limit, duplicates, WAL identity | `internal/telemetry/influx/reader.go` | `EvaluationWorker` |
| Incidents, events and history reads | `store.go:1009-1081`, `store/postgres/history.go`, `transport/grpc/history_handler.go` | `IncidentHistory` |
| Opening the store: migrations | `store.go:34-72`, `store/postgres/migrations.go` | `SchemaMigrations` |
| Service start and shutdown | `internal/conformance/conformance.go`, `cmd` | `ServiceLifecycle`, which extends `SchemaMigrations` |
| Assignment gRPC handler, configuration, test containers | `transport/grpc`, `config`, `testsupport` | not modelled, see the end |

A dispatcher delivers lifecycle commands, possibly more than once and out of
order, to the store. A *cutover* closes the authority interval of the current
generation and opens that of the armed candidate at one event time. Workers
lease the current generation, evaluate the telemetry after its newest checkpoint
and commit a checkpoint, a summary and a Registry outbox row in one transaction.
Publishers lease outbox rows and send them to Registry.

## Modules

### AssignmentStore

State: one function per column of `conformance_assignments` (lifecycle,
specification, authority interval, lease, revision, next evaluation time), the
inbox, the transition rows, both outboxes, the checkpoints and summaries, and the
claims workers hold. Claims are never taken back, so any claim may be used at any
later time. An action is a transaction: lifecycle commands of one assignment hold
its advisory lock, and every other transaction is one `UPDATE` of the row or
begins with one. Readers use one `SELECT`, so the statements of a transaction are
never seen apart. What this takes for granted is the locking inside a cutover: it
locks the current row and only then reads the watermark, in a statement of its
own, which under READ COMMITTED sees the commit that held the row before. The
mutant `BehindWatermark_BeforeLock` is a cutover that reads it earlier, and
`EvidenceStaysAttributed` fails for it. A lookup takes an interval without an end
for open (`Authorizes`), a commit does not (`WithinAuthority`); a governed
interval always has an end, so the two agree (`AuthorizesIsWithin`). `now()` is the start of the transaction; a transaction that
waited works with a time up to `MaxLag` old. A payload hash is the command itself,
a telemetry cursor an event time and a position among the frames of that time.

### Authority

The promise of the store to whoever routes an observation by its capture time:
every event time has at most one governor, a cutover hands the rest of event time
to a newer generation without a gap, and evidence is recorded only for the
generation that governs all of it, which it keeps. `AssignmentStore` maps to it
by `Governor` (what `ResolveAssignmentAt` answers) and `Attributions` (the causal
ranges of all checkpoints); `RoutesAsPromised` is the abstract specification as a
property.

### RegistryOutbox

Rows are pairs of an assignment and a cursor. A claim moves through the sets
`sending`, `waiting`, `acked` and `failed` of its publisher; requests and
responses are sets of messages that may be lost, answered late, or answered after
the publisher gave up. Registry is external: it keeps the highest cursor and
answers an older one with an error or with its projection. Because only the oldest
row of an assignment is claimed, a row in fact never meets a newer projection:
`DeliveredIsProjected` is about errors and lost or late answers. `Lapse` lets a lease
expire at any moment (while the publisher works, that counts as a fault, because
`New` demands a lease longer than the request timeout). The expiry of Registry's
snapshots is not modelled.

### Evaluator

An observation is a time and a reading: for each volume whether the point is
inside the polygon, its distance to the boundary and its altitude deviation, and
the altitude reference. Everything `Evaluate` derives from these numbers is
modelled: active volumes, the terminal overrun volume, the best volume, joint
containment, missing evidence, the state machine per violation, the condition
(for every iteration order of Go's map) and the causal range of a batch.
`PhaseOfHistory` is the reference definition the incremental state machine is
compared with: it computes the phase from the whole history of evidence.

### EvaluationWorker

`processClaim` is split where the code touches a clock, the store or InfluxDB:
claim, window, checkpoint, read, commit or defer. Between two steps the clock may
move, the lease may expire and be taken over, a cutover may close the generation
and frames may become visible. The renewal goroutine may run at any point. A
worker reads its own clock, which differs from PostgreSQL's by `Skew`. The ticker
of `Run` has its grid and its one-tick buffer. `readComplete` is a stack of
windows still to be queried: a query that returns `MaxRows` rows is replaced by
its halves, and telemetry may arrive between the halves; a single saturated
instant fails the claim. A row is a frame at a WAL position, and a frame may have
several rows; `Deduplicated` keeps its first, as the sort and the map of frame
identifiers in `readComplete` do. A row carries what the attribution filter makes
of it, or that its WAL identity is missing, which fails the claim.

`PunctualSpec` is the same worker with no faults, no late tick and claims that
take at most `Latency`.

### IncidentHistory

`writeEvaluation` turns the transitions of an evaluation into incident and event
rows whose identifiers are hashes of their content; here an identifier is the
tuple that is hashed. Live commits continue from the newest checkpoint, historical
ones replay a superseded generation from any of its checkpoints, or from its
start, and may find other openings and resolutions, because late frames are there
now. Every insert that collides with a row is compared as the code does, and a
difference is `message_conflict`.
A client pages through `ListConformanceEvents` with a page token while commits go
on. A page size below zero or above `MaxPageSize` is refused; the checks of a
token's length, version and fields are left out, because a client here uses the
tokens it was given. Which frames open or resolve an incident is chosen freely, within what the
evaluator's `IncidentsAlternate` allows.

### SchemaMigrations and ServiceLifecycle

Replicas of different builds open one database: lock, ledger lookup and
application of each file are separate steps, and a replica may fail or die at any
of them. A dead session gives up its lock and its transaction.

One replica, `Main`, is then followed through its process: `New` builds its parts
in order and closes what it opened when one fails, `Run` starts four goroutines
that report into `errCh`, a signal or an error leads to `Shutdown`, which another
goroutine may call at the same time. The pool counts the connections in use, and
`Close` waits for them. `Shutdown` waits for `GracefulStop`, which returns when the
handlers have, also after `Stop` cancelled their RPCs. A readiness probe and an RPC may be in progress.

## Runs

| Run | Shows | Bounds |
| --- | --- | --- |
| `lifecycle` | authority is handed over without gap or overlap and never reopened; schema constraints, identity, the newest candidate, a complete audit trail | three generations, two identities, windows and cutovers on and off each other's edges, reused message IDs |
| `evaluation` | the store routes event time as `Authority` promises; evidence stays with its generation, watermarks and replay checkpoints are consistent, a lease commits once, Registry cursors advance | two generations, two workers, one unit of transaction lag, equal cursors, evaluations before, at and across the boundary |
| `outbox` | publication is ordered, nothing is marked that Registry lacks, Registry's cursor has no gaps | two assignments and publishers, batches of two, two faults |
| `outbox_liveness` | every summary is delivered | one assignment, two publishers, two faults |
| `hysteresis` | phases, transitions, condition and causal range follow from the evidence; conforming means inside one volume | thresholds of two, six observations: an incident can open, flap, recover and open again |
| `takeover` | each settled frame is evaluated once and in order, from the newest state | two workers three time units apart, six rows of five frames, three of them in one instant, at most four rows to a query, so windows are split; one fault, one cutover |
| `history` | live commits are never refused, evidence is immutable, a resolution is the one of its opening, pages are complete and show an opening before its resolution | five frames of two generations, two pairs at one time, three commits to a generation, pages of one and of the default of two, page sizes out of range |
| `service` | replicas end with one schema and none collides; whatever returns has released everything; starts complete and the service stops | five replicas of four builds in three deployments, one crash, two callers of `Shutdown`, a probe and an RPC |
| `retry`, `inside`, `final`, `stop` | disagreements with comments, tests and documentation, see below | |

Four runs are expected to fail:

- `retry`: a redelivered arm or cutover is answered with the current record, not
  the armed or newly active record its comment promises.
- `inside`: when the altitude is wrong, the lateral breach is taken from the
  distance to the polygon's boundary, which is large deep inside the polygon. An
  altitude deviation then opens a lateral incident too.
- `final`: a claim is rescheduled one poll interval after the worker read its
  clock, which is just after the next tick. So the worker evaluates on every
  second tick and can miss the grace period in which it should query the tail of
  an ended interval.
- `stop`: `Shutdown` closes the store and returns without waiting for the worker
  and the publisher. Neither holds a connection then, but they may still be in
  the middle of a claim, which fails at its next statement.

Deadlock is checked for the store. The other specifications stop when their
bounds (time, cursors, observations) are used up.

Fairness is assumed in two runs. `outbox_liveness`: publishers poll for ever,
every request has a timeout, leases expire by the clock, and Registry answers the
requests that reach it, so each of these is weakly fair. Crashes, losses and
early lapses are limited by `MaxFaults`; nothing is promised while they go on.
`service`: goroutines go on, statements and timers end, a probe ends within its
two seconds, and the handler of a cancelled RPC returns. A client may keep an RPC
open for ever, and nobody need send a signal: `ServiceStops` speaks of the time
after the stop was asked for, `StartsComplete` of replicas that do not die.

The replica that is followed to its end starts alone (`Deployments`): once its
store is open it shares only tables with the others, so their steps could not
disturb it, and `{"old", "new", "edited"}` and `{"new", "twice"}` show the starts
that do interact.

`NothingIsSkipped` holds under `VisibleInTime`: the settle delay covers the
visibility delay of InfluxDB and a worker clock that is ahead. Frames that become
visible later are lost, as `docs/conformance-design.md` says.

## Proofs

The proofs assume only the named assumptions on the constants: generations are
positive, specifications have natural times and non-empty windows, deliveries are
well formed, bounds are natural numbers, and the null values are not workers or
publishers. What a component assumes beyond that is said with it.

`AssignmentStore_proofs`: type correctness, then `AuthorityInv`. The properties
of authority are not inductive alone. A cutover checks its boundary against the
*current* row only, so the invariant adds that there is one current row, that
every interval belongs to a generation no newer than it (`CurrentIsLast`), that a
candidate is the latest generation, and which lifecycle states carry an interval
(`AuthorityShape`). From it follow `CandidateIsNewest`, `AuthorityIsHandedOver`
and the action property `AuthorityNeverReopens`.

In the same module, `EvidenceInv` adds that the causal range of
every checkpoint lies in its generation's interval, that revisions are used once
and in order, that replay order is commit order, and that the summary is the
newest checkpoint. The last is what makes the watermark test of a cutover
sufficient: closing an interval cannot cut off committed evidence. From it follow
`EvidenceStaysAttributed`, `SchemaConstraintsHold` and `WatermarkIsMonotone`.
It also proves what the lifecycle commands record. `IdentityInv` adds
`LatestExists`: a new generation is compared with the latest row only, so the
proof needs that row to exist and to have the identity of all others. `AuditInv`
says that the transition rows form a path to the state of each row. From them
follow `IdentityIsStable` and `AuditTrailIsComplete`.

`AssignmentStore_lease_proofs`: `LeaseInv` adds `LeasesAreSpent`, that a commit
belongs to a lease generation already handed out, and to an older one wherever the
row is leased now; without it a lease could be used again. `CursorInv` says that
the cursors of a generation strictly advance until it is superseded, and that no
revision enqueued for Registry is ahead of the row's. Once a generation is
superseded, historical commits may repeat a cursor, but they enqueue nothing. From
them follow `OneCommitPerLease`, `OnlyCurrentIsLeased`,
`ReplayCheckpointIsCurrent` and the action property `RegistryCursorAdvances`.

In the same module as the leases, `Spec` implements `Authority!Spec`
(`RoutesAsPromised`), for any generations, deliveries and evaluations. On top of
the two invariants above it needs `AuthorityInWindow`: a generation governs no
time outside the window it was prepared with, so a cutover closes what it should
and the times after the new window were nobody's. Each transaction is then shown
to hand over, to attribute, or to stutter.

`RegistryOutbox_proofs`: `DeliveryInv` says that before the row of any claim in
hand, or of any request in the network, every earlier row is delivered
(`ClaimsAreClear`), that every row below Registry's cursor is delivered, and that
responses and acknowledgements are true. It is needed because a request outlives
its lease: the order has to hold for claims that nobody holds any more. From it
follow `RegistryIsNeverAhead`, `DeliveredIsProjected` and `ProjectionHasNoGaps`.

`EvaluationWorker_proofs`: `Inv` relates each job to the shared state at every
step of a claim: the state in hand is that of the claimed revision (`Restored`), a
row of the window is in the batch or in a query still to come (`Wanted`), and what
is about to be committed follows the checkpoint of that revision (`CommitInv`).
`CheckpointInv` says that revisions number the checkpoints in canonical order. A
job whose revision is no longer current may hold anything, because its commit is
refused: the proof uses the revision fence and never the lease, so a worker that
outlives its lease is harmless. From it follow `EvaluatedOnceInOrder`,
`RestoresNewestState` and, under `VisibleInTime`, `NothingIsSkipped`.

`ServiceLifecycle_proofs`: `MigrationInv` says that what is in effect is numbered,
recorded and a prefix of one build's files, that the lock is held by exactly the
replica between its checks, and that the files it is past are in effect
(`Matched`); it needs the lock to carry the look at the ledger to the application.
`ServiceInv` says what is open at each stage of `New` and of `Shutdown`. From them
follow `OneSchema`, `StartsNeverCollide` and `ReturnedMeansReleased`. They assume
that a build numbers its files 1, 2, ... (`NumberingAssumption`; a repeated number
is allowed): the ledger does not enforce an order between builds whose numbers
have gaps.

`Evaluator_proofs`: for any volumes, tolerances, thresholds, readings and batches.
The reference definition looks at the whole history, the code at a counter, so
the first part is about streaks: `Latest(these, others)` is the streak at the end,
`LatestGrows`, `BreachAdded` and `InsideAdded` say what one frame more does to it
and to `InIncident`. `Matches` ties the state of a violation to its evidence (its
phase, and how long the streak is that may open or resolve an incident), and each
branch of `advance` is shown to keep it. `Tied` says that the last transition of a
violation is the opening of the incident in progress, or no opening, and
`Anchored` that its times and its opening frame are those of frames not before the
causal range. `IInv` puts them together over all violations and adds how the
condition was found. A batch is a recursive function; `BatchEvaluated` is an
induction over its prefixes, and `IterationEndsWithTheWorst` one over the
iteration of the map: the condition is the worst phase seen so far at every step,
whatever the order. From `IInv` follow `TypeOK`, `PhaseFollowsEvidence`,
`IncidentsAlternate`, `ConditionIsTheWorstPhase`, `CausalFromCoversEvidence` and
`ConformingMeansOneVolume`.

`IncidentHistory_base_proofs` and `IncidentHistory_proofs`: for any frames and
times that do not decrease, generations, violations, filters and page sizes, and
any order of the hashed identifiers. None of the properties is inductive alone.
`StoreInv` says that the rows are evidence (`Evidence`): identifiers and
occurrences are unique, every incident has its opening among the events, and its
resolution if it is resolved, and every resolution event has its incident. It adds
that the events of the current generation are not beyond its newest checkpoint and
that the checkpoint and the incident table name the same open incidents
(`Agrees`). The latter is why a live commit cannot be refused: its transitions are
for later frames and continue from exactly the incidents that are open. Replays
write only rows of superseded generations (`Kept`), so they cannot disturb it. The
loop of `writeEvaluation` is a recursive function; `WritesAreEvidence` and
`LiveWrites` are inductions over the transitions written so far.

`ClientInv` says that a reader's token names the last event it saw, that what it
saw is in order, and that every event that is due was seen or lies after the token
(`Due`: stored at page one, or the earlier opening of a resolution it saw). A
commit between two pages makes nothing due (`ReaderWaits`): the opening of a
resolution that was seen is already stored, as `Evidence` says. `NewestFirstSorts`
shows that the page is the newest rows in strict order, for which the identifiers
must differ. From the two invariants follow `LiveCommitsAreNeverRefused`,
`ResolutionIsEvidence`, `PagesAreComplete`, `OpeningIsSeen` and the action property
`EvidenceIsImmutable`. They assume that distinct events have distinct hashes
(`RankAssumption`).

The induction theorems of the library take an operator and cannot be applied here.
`Evaluator_proofs` and `IncidentHistory_base_proofs` state induction for a set of
numbers instead (`Smallest`, `Induction`), which the provers can use, and show with
it that their recursive functions satisfy their equations (`EvaluationsRecursion`,
`ConditionsRecursion`, `WritesRecursion`).

Only model-checked: liveness (`EverySummaryIsDelivered`, `StartsComplete`,
`ServiceStops`), which is out of the prover's reach. Every invariant and every
action property of the passing runs is proved.

## Not modelled

- Assignment gRPC handler: translates requests to commands and errors to status
  codes, and keeps no state. Configuration: reads the environment once. Test
  containers: used by tests only.
- Evaluator: the geometry of polygons, the worst deviation of an incident, and
  `AssessMonitoring`, which only tests call.
- `CommitHistoricalEvaluation` is modelled, in `AssignmentStore` and in
  `IncidentHistory`, although only tests call it. A replay that no longer finds an
  incident leaves the row of its opening as it is.
- `Shutdown` before `Run`, or while `Run` sets `runCancel`, which is an
  unsynchronised access: worker and publisher then run until the service context
  is cancelled.
- A session that PostgreSQL has not yet found dead may hold the advisory lock a
  little longer; the others wait for it as for a slow replica.
- The width of WAL sequences, and the collation PostgreSQL orders WAL identifiers
  by, where Go compares bytes.
- A worker whose window contains one saturated instant defers for ever. The model
  takes that step; that nothing else would come of it is not stated.

## Running

    tlc -config lifecycle.cfg MCAssignmentStore
    tlapm AssignmentStore_proofs.tla
