# Verification project for cohestra-dataflow

TLA+ models of the Go backend of this repository (`src/apps/workflow-go`) and
of the SQL it depends on (`src/db`), with TLC configurations that check them on
small instances and TLAPS proofs that hold for every instance. `PROJECT.json`
lists the components, runs, mutants, hazards, findings and theorems, and maps
every definition to the source lines it stands for.

1. [The system](#1-the-system)
2. [The modules](#2-the-modules)
3. [The runs](#3-the-runs)
4. [Fairness](#4-fairness)
5. [The proofs](#5-the-proofs)
6. [Findings](#6-findings)
7. [What is not modelled](#7-what-is-not-modelled)
8. [Plan](#8-plan)

Paths below are relative to `src/apps/workflow-go/internal/` unless they begin
with `src/`.

## 1. The system

A tenant draws a data pipeline (a DAG of sources, transforms, conditional edges
and sinks). The **API** stores versions of it, activates one, and starts
executions: by hand, from a webhook, from another pipeline's event, from a
Temporal schedule, or as partitions of a backfill. Each execution is a
**Temporal workflow** that schedules activities on an **activity worker**. The
worker also runs **dispatchers** that poll the database. PostgreSQL holds all
authoritative state; Redis holds deduplication keys, locks and an event stream.

| Part | State | Operations | Talks to |
|---|---|---|---|
| Execution control (`api/execution_control.go`, `dispatchers/execution_control.go`, `workflows/execution_control.go`, `activities/execution_control.go`) | `executions.phase`, `control_state`, `control_revision`, `control_delivered_revision`; the workflow's copy of them | pause, resume, cancel; scan, signal, acknowledge; read, refresh, admit, finalize | API -> row -> dispatcher -> signal -> workflow -> activity -> row |
| DAG runtime (`workflows/dynamic_dag.go`) | node results, attempt budgets, pages | batches, gates, retries, skips, merges, commits | activities through Temporal |
| Backfills (`api/backfills.go`, `api/routes_pipelines.go`, `src/db/016_backfills.sql`) | `backfill_jobs`, `backfill_partitions`, claims of five minutes | plan, create, claim, launch, mark, cancel, retry | API replicas race in SQL; `MarkExecution` reports back |
| Launch and quota (`api/temporal.go`, `activities/activities.go`) | `usage_counters`, `executions` | consume, start workflow, insert row, terminate, release | Temporal first, database second |
| Execution retry (`api/routes_executions.go`) | `executions.retry_of` | check, launch | API |
| Lifecycle and schedules (`api/routes_pipelines.go`, `api/temporal.go`) | drafts, versions, environments, Temporal schedules | save, activate, promote, roll back, sync schedule | database, then Temporal |
| Event, alert and lineage dispatchers (`dispatchers/dispatchers.go`) | three outboxes | claim, publish, back off | database, Redis stream, HTTP |
| Event consumer, webhooks (`api/routes_triggers.go`) | stream group, done keys, locks, webhook keys | deliver, acknowledge, claim, complete | Redis, launch |
| Cursors and dedupe keys (`activities/activities.go`) | `connector_state`, `dedupe_keys` | commit at the end of a run | several runs share one cursor |
| Node runs (`activities/activities.go`) | `node_runs` | upsert per page and per result | repeated by retries |
| Billing, accounts, password reset, rate limits | plans, tokens, buckets | webhooks, requests | API |
| Connectors, payload store, codec, analytics, AI builder, web application | none that is shared by a protocol | I/O, queries | - |

**What is hard here.** Four processes act on one `executions` row; the workflow
learns of a change by a signal, by a poll, or when a worker refuses an
activity, and these answers may overtake each other. An activity that Temporal
gave up may still run. Workflows are started before their row exists. Several
API replicas run the same dispatcher. Statements decide on snapshots. Almost
every step can be repeated after its answer was lost.

**What makes each part correct.**

- *Execution control*: an acknowledged request is followed, never forgotten and
  never undone by late news; no external call begins without a committed
  `active`; a cancel that was committed in time wins; waiting for a resume costs
  no attempt and gives none back; every request and every cancelled run settles.
- *DAG runtime*: a completed run is a whole run; cursors only after success.
- *Backfills*: every instant of the range in exactly one partition; completed
  means moved, once; no more than `max_concurrency` at a time; a cancelled job
  launches nothing; a waiting partition is launched some day.
- *Events, webhooks, alerts*: an event leaves the outbox only once the stream
  has it, and is acknowledged only when every subscriber was launched or
  refused; one run per idempotency key, and per signature for the deliveries that
  claim it in its window; a notification is accepted once, and again only after
  an acceptance that no row could record; it is tried a bounded number of times.
- *Launch and billing*: the counter of a month stays within the quota and equals
  the executions once nothing is under way, and a launch without a row leaves no
  workflow, but for the launches that a named failure hit, each once; one active
  retry; an order pays once.
- *Accounts and sessions*: a refresh token is redeemed once, a reset ends the
  sessions it sees and its link works once; an unconfirmed account has no
  session and a confirmed one keeps its password; retired signing keys end and
  new ones work, as exactly as the age of the issuer's answer allows; OAuth states
  are spent once and a refresh never undoes a reconnection.
- *Pipelines*: one active version per environment; sharing and roles follow a
  version; the schedule follows the active version; what is saved can be
  planned, in an order the edges allow; breaking contracts are not promoted.
- *Data*: the saved cursor never passes over a row or a record of a stream; a
  record is dropped only when it was delivered; what a sink reports as written
  is there, once where the sink can recognise a repetition; the output of a node
  is what its answered attempts wrote.
- *Engines*: a cancelled Flink execution leaves no job; a completed Spark one has
  its output; every one of them ends.

`PROJECT.json` "hazards" lists the places where these could go wrong, each at
its line, with the properties that would notice.

## 2. The modules

| Module | What it is | Code |
|---|---|---|
| `ExecutionControl` | the controlled execution: API, dispatcher, workflow, worker | `api/`, `dispatchers/`, `workflows/execution_control.go`, `workflows/dynamic_dag.go` |
| `ExecutionIntent` | what the control API promises; `ExecutionControl` refines it | - |
| `Backfill` | one backfill job with its dispatchers and executions | `api/backfills.go`, `src/db/016_backfills.sql` |
| `BackfillPlan` | `planBackfill`, one step per partition | `api/backfills.go` |
| `EventDelivery` | event outbox, Redis stream, consumers, launches | `dispatchers/dispatchers.go`, `api/routes_triggers.go` |
| `WebhookClaim` | signature, idempotency key, launch, release | `api/routes_triggers.go` |
| `NotificationOutbox` | alerts and the outbox that posts them (and OpenLineage) | `dispatchers/dispatchers.go`, `activities/activities.go` |
| `LaunchQuota` | counter, start, insert, compensation, retries, scheduled starts, orders | `api/temporal.go`, `api/routes_billing.go`, `api/routes_executions.go` |
| `Sessions` | refresh rotation, reuse detection, logout, password reset | `api/auth.go`, `api/routes_auth.go`, `api/routes_password_reset.go` |
| `Accounts` | registration, confirmation, identities, invitations | `api/routes_auth.go`, `api/oidc.go` |
| `JwksCache` | the issuer's signing keys and their cache | `api/oidc_jwks.go` |
| `OAuthConnections` | authorization state, callback, token refresh | `api/routes_connectors.go`, `connectors/` |
| `RateLimit` | counters in Redis and in the process | `api/http.go` |
| `PipelineLifecycle` | save, activate, promote, stages, sharing, schedule | `api/routes_pipelines.go`, `api/temporal.go` |
| `PipelineGraph` | `validatePipeline` and `buildPlan` | `api/pipeline_validation.go`, `workflows/dynamic_dag.go` |
| `Contracts` | extraction and comparison of data contracts | `api/routes_pipelines.go` |
| `ListPages` | keyset pages of pipelines, executions and lineage runs | `api/routes_*.go` |
| `SourcePaging` | incremental pages of a source over overlapping runs | `connectors/databases.go`, `activities/activities.go` |
| `CrossRunDedupe` | the keys of records delivered by earlier runs | `activities/activities.go`, `workflows/` |
| `NodeRuns` | attempts, payloads and the `node_runs` row of a node | `activities/activities.go` |
| `Transforms` | the loops of dedupe, contract and merge | `connectors/transforms.go` |
| `SinkDelivery` | what the attempts of a sink leave at the destination | `connectors/*.go` |
| `StreamDirect`, `SparkJob`, `FlinkJob` | the engine workflows | `src/apps/workflow-go/ee/` |
| `ExecutionControlProofs` | proofs about `ExecutionControl`, the refinement of `ExecutionIntent` among them | - |
| `PipelineProofs` | proofs about `PipelineLifecycle`, `ListPages`, `BackfillPlan` and `PipelineGraph` | - |
| `BackfillProofs` | proofs about `Backfill`; the properties of the suite `pipelines`, from `PipelineProofs` | - |
| `TriggerProofs` | proofs about `WebhookClaim`, `NotificationOutbox`, `LaunchQuota` and `EventDelivery` | - |
| `IdentityProofs` | proofs about `JwksCache`, `Accounts`, `Sessions`, `OAuthConnections` and `RateLimit` | - |
| `DataProofs` | proofs about `SinkDelivery`, `NodeRuns`, `SourcePaging`, `StreamDirect`, `SparkJob` and `Transforms` | - |
| `SuiteProofs` | proofs about `CrossRunDedupe`; the properties of the suites `triggers` and `identity`, from `TriggerProofs` and `IdentityProofs` | - |
| `DataSuiteProofs` | the properties of the suite `data` about sinks, nodes, pages, engines and transforms, from `DataProofs` | - |
| `MCExecutionControl`, `MCBackfill`, `MCStreamDirect` | values of the constants for TLC | - |
| `MCTriggers`, `MCIdentity`, `MCPipelines`, `MCData`, `MCProgress` | suites: several components in one run | - |

`PROJECT.json` "map" gives the lines of every definition.

**Suites.** Components that share no state are checked together in one run. A
suite instantiates each of them, often more than once with different constants,
over variables of its own; the variable `scenario` (`trigger` in `MCTriggers`,
`concern` in `MCIdentity`) is chosen in the initial state and names the one
instance that moves, while the others stay where they begin. So the state space
is the sum of those of the instances, not their product. A property of a suite
is the conjunction of what one component promises, where `scenario` names it:
its parts are defined, each with a comment, in the component's module, the type
invariant among them. Only what the components have in common in the code is
missing by this; where they do interact through state (the row of an execution
and its signals, events and launches, pages and cursor and sinks) they are one
module. `MCData` extends `CrossRunDedupe`, so that its run checks the very
formulas that `SuiteProofs` proves of that component.

### ExecutionControl

State: `launch`, `phase`, `control`, `delivered` are the row; `dispatcher` and
`signals` the delivery; `read[r]` the answer on its way to a coroutine `r` (the
main one, the watcher, or a node); `view` and `flags` are the fields of
`executionController`; `watcher`, `main`, `step`, `want`, `status` the two
coroutines of `controlledDAGWorkflow`; `node`, `op`, `attempt`, `remaining`,
`blocked`, `result` the coroutine of each node in `runNode`, `runSource` and
`executeNodeActivity`; `zombies` the attempts Temporal has given up that have
not reached admission; `committing`, `committed` the two commit activities.
`log`, `admits`, `budget`, `fails`, `why` are history, read by properties only.

| Actor | Actions |
|---|---|
| API | `InsertExecution`, `LaunchFails`, `ExecutionSignal` |
| dispatcher | `DispatchScan`, `DispatchSignal`, `DispatchAck`, `DispatchFails` |
| control reads | `ReadExecutionControl`, `ReadFails` |
| watcher | `WatchSignal`, `WatchPoll`, `WatchApply`, `WatchError` |
| node | `NodeGate`, `NodeGateError`, `NodeResumes`, `NodeCancelled`, `Admit`, `Block`, `BlockedAttempt`, `AttemptFails`, `AttemptRejected`, `EvalReturns`, `FetchReturns`, `WorkReturns`, `ZombieAdmitted`, `ZombieEnds` |
| main | `MainInit`, `MainReadError`, `MainGate`, `MainResumes`, `MainCancelled`, `BatchDone`, `CommitInDatabase`, `CommitReturns`, `CommitFails`, `FinalizeExecutionControl`, `MarkExecution`, `FinalizeRetried`, `FinalizeLost` |

Abstractions. A control read is two steps, so that answers can be late and out
of order. A signal channel holds a wake-up or none, since every wake-up only
causes a read. Time is left out: an armed timer may fire. `buildPlan` enters as
the constant `Batches`; conditions and pages are booleans that the environment
chooses. A launch whose insert failed leaves a workflow without a row, which
the model keeps: its reads fail and it ends without an effect.

`ExecutionIntent` has three variables and three actions: `Request` changes the
intent until it is a cancel or the run is terminal, `Begin` starts an external
call only while the intent is `active`, `Settle` ends the run once and as
`cancelled` if that is the intent. The refinement mapping is
`intent <- control.state`, `effects <- admits`, `phase` itself. A pause does
not interrupt a call that has begun, and the abstraction does not say it does.

### Backfill

State: `job` and `part[p]` are the status columns, `old` the claims older than
five minutes, `row[p]` the phase of the execution of `p`, `alive` the
partitions whose recorded execution still has a workflow, `mark[p]` the
progress of `MarkExecution`'s backfill statement, `disp[d]` the dispatcher of
an API replica, with the snapshot of its claim.

| Code | Actions |
|---|---|
| `claim_next_backfill_partition` | `Ages`, `ClaimSnapshot`, `ClaimLock`, `ClaimNothing` |
| `fireExecution`, `dispatchBackfills` | `FireFails`, `FireStarts`, `InsertExecution`, `InsertRefused`, `InsertUnknown`, `PartitionFailed`, `PartitionUpdateFails`, `Crash` |
| end of an execution | `RunEnds`, `RunLost`, `MarkBackfill`, `MarkIgnored`, `MarkRepeated` |
| API requests | `BackfillCancel`, `BackfillRetry` |

Two points of PostgreSQL decide this model. The claim counts active partitions
in a subquery: it is evaluated in the snapshot of the statement, while
`FOR UPDATE ... SKIP LOCKED` rechecks only the rows it locks. So a claim is two
steps, the snapshot and the lock. And the parts of a data-modifying `WITH`
share one snapshot, so in `MarkBackfill` the update of the job reads the status
of the partition from before the statement.

### BackfillPlan

The loop of `planBackfill`: validation, one `AppendPartition` per iteration with
the cut at the end of the range and the limit looked at after the append, and
the return. An instant is a number; `AddDate(0, 0, n)` adds `n` days of equal
length, which it does for timestamps with a fixed offset. In a server whose
local zone has daylight saving and the same offset as the timestamp, Go parses
the timestamp into the local zone and a day may have 23 or 25 hours; that case
is not modelled.

### EventDelivery

State: `published`, `batch`, `added` the outbox and the open transaction of
`dispatchEvents`; `stream` the entries with their state in the consumer group;
`done` and `locked` the Redis keys of `deliverEvent`; `at`, `pending`, `todo`,
`subs`, `sub`, `ok`, `retry` the loop of each replica. `Publisher` adds and marks
rows and commits, `PublishRollback` and `XAddFails` break it; `Consume` is
`CreateGroup` and the loop from `XREADGROUP` to `XACK`; `GroupFails` (the
consumer ends for good), `ReadLost`, `FindFails`, `CheckDoneFails`, `MarkFails`
and `Crash` are its failures, `LockExpires` the time to live. A call that fails
may have taken effect: an `XADD` whose answer is lost has streamed the entry, a
`SETNX` has set the lock, and an `XREADGROUP` has handed out the new entries,
which wait for a restart, as the loop asks for pending ones only after an error
of its own or when it starts. `launches`, `handled`, `lost` and `unread` (handed
out in an answer that nobody got) are history.

### WebhookClaim, NotificationOutbox, LaunchQuota

A webhook handler verifies the signature (`Verify`), goes through the two
`SETNX` of `claimWebhook`, the launch, and `complete` or `release`; a Redis call
may fail, or take effect without an answer, and the process may stop. The clock
moves between any two steps, so a handler that was verified in the window may
claim the signature when its key has expired (`late`), and a signature may come
from a clock that is ahead by the whole window.

The outbox worker holds its row locks from the claim to the commit; `Rollback`
loses the outcomes of what it has posted. A `Post` has three results: accepted
with an answer, failed, and accepted with the answer lost, which the code cannot
tell from failed. When the connection to the database breaks, the locks are gone
while the worker goes on through its batch (`Disconnect`, `PostUnlocked`, with
the rest of the batch in `orphan`). `unheard` counts the acceptances that no row
records.

A launch is the steps of `fireExecution` and of `PrepareScheduledExecution` with
their compensation, and every call fails on its own. `Faults` names the failures
that leave something behind: the answer of the quota's transaction, of the start
or of the `INSERT` is lost after it took effect (`consume`, `start`, `insert`),
the ignored errors of the termination and of the release (`terminate`,
`release`), the end of the process (`process`), and the repetition of a
scheduled execution's first activity (`prepare`). `hit` says which of them, and
whether the end of a month, a launch met; `repeats` counts the repeated counts.
Payment events are repeated and reordered.

### Sessions, Accounts, JwksCache, OAuthConnections, RateLimit

Only statements and transactions are atomic. In `Sessions` a transaction is two
steps, as READ COMMITTED has it: what its statements see, and the commit or
the rollback. A reset that is rolled back gives its link back (`RolledBack`),
so one instance mails two links at once: one reset may fail while the other is
under way. In
`Accounts` each handler reads in one step and writes in later ones. `JwksCache`
is under a mutex, which a login keeps from `FetchJWKS` over the issuer's answer
(`Serve`) to `StoreKeys`; the issuer rotates its keys and the clock moves between
any two of these, and the age of the set counts from the last of them.
`OAuthConnections` refreshes in three steps (read, call, write) while the connection may be replaced. `RateLimit` reads the clock,
counts in Redis and, if that does not answer, in the process; a request may be
counted when the window of its bucket is long over.

### PipelineLifecycle, PipelineGraph, Contracts, ListPages

A request of `PipelineLifecycle` is its access check, its writing transaction and
its calls to Temporal. `PipelineGraph` keeps the two queue walks as steps and
compares them with cycles and orders defined over the edges. The roots enter
the queue in the order of a Go map, so in any order; the model leaves it open,
too, in which order the targets of one node follow, which nothing it says
depends on. `Contracts` applies
the comparison to every pair of small definitions. `ListPages` lets rows appear
and change between two pages of a walk.

### SourcePaging, CrossRunDedupe, NodeRuns, Transforms, SinkDelivery

Runs of `SourcePaging` and `CrossRunDedupe` overlap and end in any order. Two
errors that the code does not look at are steps of theirs: a run whose read of
the cursor failed starts from nothing, and the answer of `ExistingKeys` may stop
in the middle (`missed` has the keys that did not come). In
`NodeRuns` and `SinkDelivery` an attempt may fail before or after each write, its
answer may be lost, and where the instance says so it goes on beside its
successor; an ordered bulk write may stop in its middle. The key of a payload
and of a delivery is modelled by what it is made of. In `Transforms` a step is one turn of the loop of a handler, over every input,
and the properties compare the result with a definition by sets.

### StreamDirect, SparkJob, FlinkJob

The three loops with their signals, polls, failing activities and, for the first
and the last, continue-as-new, and with the errors that the code ignores: of the
cursor or snapshots an execution starts from, of the phase and the desired state
written to the row, of a deployment or submission that left nothing. The
dispatcher of requests is here one step, `Dispatch`: a lost answer or a failed
acknowledgement means that the request is signalled again. `ExecutionControl` has
scan, signal and acknowledgement in full. Kafka, Kubernetes, Spark, Iceberg and Cohestra are
external and modelled from how the activities use them.

## 3. The runs

| Run | Instances | Distinct states | What it shows, and the properties |
|---|---|---|---|
| `control_parallel` | two sinks in one batch, one attempt each, two requests, one failure | 1.43 M | the workflow's copy is a committed intent and never goes back; cancels are intended; an acknowledged revision has a wake-up behind it; refinement of `ExecutionIntent` (`ViewSound`, `AcknowledgedWakeup`, `ViewNeverRegresses`, `ImplementsIntent`) |
| `control_retry` | one sink, three attempts, three requests | 1.54 M | the attempt accounts (`TypeOK`, `AttemptsAccounted`) |
| `control_dag` | paged source, conditional fork, sink, both commits, two requests, one failure, fatal refresh errors | 1.66 M | finalization, commits, wholeness of completed runs, no downstream start after a cancel (`RunsEndWhole`, `CancelStopsDownstream`) |
| `control_liveness` | one sink, two attempts, cursor commit, two requests, one failure | 0.39 M | runs end, cancelled ones too, and intents are delivered (`RunSettles`, `IntentDelivered`) |
| `backfill_single` | three partitions, two slots, one replica, two failures of any kind, one retry | 0.85 M | slots, drained cancels; completed means moved, once (`CompletedIsReal`, `CancelledJobIsDrained`, `ConcurrencyKept`, `CompletedRangeNotRerun`) |
| `triggers` | two events and one replica, one event and two replicas; four deliveries, and three with failures; two queued alerts, two workers; three launches, and two with all seven failures | 1.77 M | section 1, *Events, webhooks, alerts* and *Launch and billing* (`EventsHandled`, `WebhooksExact`, `NotificationsBounded`, `LaunchesAccounted`) |
| `identity` | two requests and a reset link, and two links mailed at once; three requests about one address; an issuer with two keys; two users with three providers, and one connection with three consents; three requests over two replicas | 2.55 M | *Accounts and sessions* (`SessionsEnd`, `AccountsProtected`, `KeysFollowIssuer`, `ConnectionsKept`, `LimitPerCounter`) |
| `pipelines` | all ranges within 20 hours, days of 2 hours, -1..5 days, limit 5; four instances of the lifecycle; graphs of four nodes and four edges, and every kind of node and engine on two; pairs of contracts; three kinds of listing | 1.74 M | *Pipelines*, exact tiling and limit of a backfill plan (`PlanExact`, `VersionsConsistent`, `VersionsCarryOver`, `DefinitionsExact`, `WalksComplete`, `ContractsCompared`) |
| `data` | two runs, two dedupe nodes, two keys, two versions; four kinds of paging; fourteen sinks; five kinds of node; every small input of the transforms; two streams; two Spark jobs | 1.31 M | *Data* (`DroppedWasDelivered`, `DeliveredOnce`, `PagesExact`, `SinksDeliver`, `NodesReported`, `TransformsAgree`, `EnginesSkipNothing`) |
| `progress` | one small instance of each dispatcher, of paging, of a listing and of each engine | 97 k | what must eventually happen (`DispatchersFinish`, `ReadersFinish`, `EnginesFinish`, `FlinkControlled`) |
| `backfill_close`, `stream_continued` | two partitions; one stream | small | the findings of section 6 (TLC reports a violation) |

**Bounds.** `MaxRevision` bounds the accepted requests: two suffice for every
race of an old intent with a new one (pause, resume; pause, cancel), three for
a budget that is reduced, used and reduced again. `MaxFaults` bounds failed
reads, RPCs and finalizations. Timeouts and failed attempts of activities are
not counted as faults: the attempt budgets bound them, so they are all there in
every run. Three attempts are the fewest at which a block can come after one
used attempt and before another one. The pipeline of `control_dag` has one of
each construct; its budgets are 1 because `control_retry` covers retries. Two
slots and three partitions let a claim, a launch and a run overlap. Section 5
proves for all values of the constants the safety properties of the control and
backfill models, of every component of `triggers`, `identity` and `data`, and of
`pipelines` but for the contracts: they do not rest on the bounds.

In the suites two of everything that can race are there (replicas, workers,
runs, requests), one failure where a second one adds no order of events (two in
the instance of a retried alert, where a lost answer and a rollback can meet), and
three of what a race needs a third for: a retry, a late duplicate and a first
delivery of one webhook; a page, its successor and a row that ties with both.
Clocks reach the end of the longest window. The comment at each instance in the suite
says what it is for. Symmetry is used in `data` only, for runs, nodes, keys and
versions of `CrossRunDedupe`; that run has no liveness property. Deadlock is
checked in the control runs and in `backfill_single`. In the suites requests,
faults and clocks are used up and runs end, so a state without a step is no
error there.

**Mutants.** Every property of a passing run has a mutant in `PROJECT.json`: a
definition next to the original that makes a plausible mistake (a stale answer
accepted, the newest revision acknowledged, the blocked attempt charged, a
count with `<=`, a claim that does not recheck, a key that names the attempt) and
makes TLC report that property. A property with several parts has a mutant for each of
them, so that none of the parts holds whatever the code does.

## 4. Fairness

`ExecutionControl!Fairness` is weak fairness of

- the launch: the API inserts the row or fails;
- the dispatcher's steps: it ticks every two seconds for as long as the worker
  lives, and Kubernetes restarts the worker;
- the watcher: it has an armed 30 s timer whenever it waits;
- the control reads, the node and the main coroutine, and commits that were
  scheduled: Temporal retries and times out each activity and replays each
  workflow task;
- failing reads and failing finalization when there is no row: the retries are
  bounded.

Requests, failures, failing attempts, fatal errors and late attempts have no
fairness. `RunSettles` is claimed of runs that are not left paused.

`Backfill!Fairness` is weak fairness of each dispatcher (a ticker in every API
process), of the ageing of claims, of `MarkBackfill` (Temporal retries
finalization) and of runs coming to an end. The backfill instance of `progress`
has two replicas and leaves out the failures after which the code really does
not recover: an ignored error of the mark, a finalization that ran out of its 30
seconds, and a commit whose answer was lost can each leave a partition `running`
for ever, with its slot.

`MCProgress!Fairness` has, each for the scenario it belongs to, the fairness of
the components:

- `EventDelivery`: the publisher (a ticker of the worker), the loop of every
  replica, and the expiry of the lock keys in Redis. Failures have none.
- `NotificationOutbox`: time passes, and each worker comes back to its
  dispatcher after a success, an error or a restart.
- `Backfill`: as above.
- `SourcePaging`: a schedule keeps starting runs, and Temporal carries each one
  on. That a run fails or that rows arrive has no fairness.
- `ListPages`: a client that asks for the next page while there is one.
- `StreamDirect`, `SparkJob`, `FlinkJob`: the workflow, which Temporal replays
  and whose activities it times out; for Spark also that an application completes
  or fails. Signals, requests and failures have none. `CancelHeard` and
  `CancelEnds` are claimed only of a cancel that arrives early enough in a run:
  one that comes in the last iteration can be lost by continue-as-new.

## 5. The proofs

All theorems are for arbitrary constants under the named assumptions of the
modules. Most of these only say what kind of value a constant is: bounds are
natural numbers, attempt budgets, windows and page sizes at least one. Others
are facts of the code: the batches partition the nodes, instants and offsets
are natural numbers, the id of an execution is not the marker `pending`
(`RunAssumption`), an event that is looked at has a subscriber (`SubscriberAssumption`), the kid ""
is no key's (`JwksAssumption`), `redis`
names no replica (`RateAssumption`), the edges of a definition are pairs
(`DefinitionsAssumption`). Sets that are counted (orders, executions,
links, requests, rows of a table) are finite. The other assumptions mark where the
code does not keep the property. `PageAssumption` says that no value of the cursor
column is NULL and that a key column, once configured, is kept; `SlotsKept` is
for one dispatcher (section 6 has both). `LaunchedOnce` is for one replica: with
two, the lock of a launch may expire before its done key is written, and the
other replica launches again. `SchedulesFollow` is for calls that do not fail
(`Reliable`), one request at a time (`OneByOne`) and triggers that are cron
triggers (`OnlyCron`); what a save shares and what a promotion promises is for
one request at a time, too, as a second one may replace what the first has
read. `WalksMissNothing` leaves out the route `executions`, which has no second
page. `SnapshotsAreWritten` is for submissions whose answer arrives (`MaxLost`
is 0), as a repeated one stores a snapshot that its application may not have
read. Section 6 has each of these.

**ExecutionControl.** The invariant `Inv` is built in layers, each proved with
the help of those before it, one lemma per actor:

1. `TypeInv`: types.
2. `StructureInv`: which positions of the coroutines go together. Nodes run only
   inside their batch, an answer waits only for a coroutine that asked, without
   the row nothing gets past the first read, and a terminal phase means that the
   main coroutine has gone on to finalization.
3. `IntentInv` = `CancelInv` and `ViewInv`: every answer under way, every
   blocked attempt and the workflow's copy come from `log`. `CancelIsIntended`
   is not inductive alone: a cancel that reaches the workflow later is in a
   pending answer or in a blocked attempt first, and a terminal phase read by a
   late coroutine has to be excluded.
4. `PlanInv`: batches before the current one are done, later ones untouched;
   commits only once all nodes ended well; `want = "completed"` only then.
5. `BudgetInv`: the account of each node, `admits + zombies + what this call
   may still use <= budget`, and `fails = MaximumAttempts - remaining + attempt
   - 1` while an attempt is out. `AttemptBudgetKept` only states a consequence.

From `Inv` follow `TypeSafe`; `ViewSafe` and `CancelSafe`, together
`ViewSoundSafe`; `BudgetSafe`, `ExhaustionSafe` and `BlockedSafe`, together
`AttemptsSafe`; `CancelWins`, `CompletedSafe`, `CommitsSafe` and `StatusSafe`,
together `RunsEndSafe`; the action properties `ViewForward` and
`DownstreamStops`; and `Refinement`: every step of `ExecutionControl` is a step of
`ExecutionIntent` or leaves its variables alone.

`WakeupsKept` (the property `AcknowledgedWakeup`) has an invariant of its own,
`WakeInv`. A revision is heard of when the workflow's copy has it, a signal is
waiting, or the watcher is about to read a row at least as new. While no read
or call has failed this holds of the delivered revision and, one step ahead, of
the one that the dispatcher has signalled and not acknowledged. The second half
is what makes it inductive: between signal and acknowledgement the watcher may
take the signal and be answered.

**Backfill.** `Inv` = `TypeOK`, `RunInv` (a live workflow has a running row, a
mark has a terminal one) and `VerdictInv` (the three status invariants, which
need each other: the verdict on a job reads the partitions, and a cancel
empties them). They hold for any number of replicas. `SlotsKept` is proved for
one dispatcher; with two replicas it does not hold (section 6).
Its invariant `SlotInv` counts the partition that is being launched as a holder
even when a cancel has taken it out of `starting`, and says that the snapshot
of a claim contains every holder: others may leave between snapshot and lock,
only the dispatcher itself adds one.

**Pipelines** (`PipelineProofs`).

- `PipelineLifecycle`. `Types` says which version each request works on. `SafeInv`
  adds that a stage has one active version, that a production version is a
  tested one, and `GateKept`: what was looked at at the gate stays tested until
  the promotion commits. It needs that no step changes anything of a version
  but its status and its test (`Keeps`), which all the parts rest on.
  `FollowInv` follows a schedule from the commit to the call that sets it: the
  version it runs is active, or a request is about to delete it.
  `SharingInv` and `ContractInv` say, for one request at a time, that what a
  save or a promotion has read is still so when it commits.
- `ListPages`. `ListedBehind`: no listed row is behind the cursor of a walk.
  `KeptAhead`: what was left alone is listed, or after the cursor. The order by
  time and id is a strict total one; the rows of a page are its first ones, and
  the cursor is the last of them.
- `BackfillPlan`. `TileInv`: in the loop the partitions lie one after the other
  between the start of the range and the cursor, and hold every instant before
  it. `PlanTiles` follows. `SizeInv` counts: the cursor is `Len(partitions)` widths
  past the start, and every partition was appended before the end. `PlanSizes`
  follows by bounding the ceiling of the quotient with products, which the
  lemmas do step by step as the SMT solver does not multiply variables.
- `PipelineGraph`. `Walked(D)` is the invariant of either walk: `D` are the nodes
  taken from the queue, as many as were counted; a node's count is the number
  of edges into it that do not come from `D`; and the queue has, once each, the
  nodes outside `D` whose count is zero. When the queue is empty the nodes
  outside `D` are either none, or a set in which every node has a predecessor:
  that is a cycle. Conversely no node of a cycle can be the first to leave it.
  The same holds of the plan with its levels for `D` (`GraphInv`), so it never
  fails for a definition that was accepted; `LevelInv` gives the order.

**Pipelines, the suite** (in `BackfillProofs`). One instance of `PipelineProofs`
has each set of constants of `MCPipelines`; the theorems `PlansAlwaysExact`,
`VersionsAlwaysConsistent`, `VersionsAlwaysCarryOver`, `DefinitionsAlwaysExact`
and `WalksAlwaysComplete` carry its invariants over to the properties of the run.

**CrossRunDedupe** (in `SuiteProofs`). `KeysInv` = `TypeOK`, `Read` (what a filter
found is in the table), `Written` (a node that is done has written its fresh
records), `CommitsSucceeded` (a run commits only after all its nodes succeeded),
`Backed` (every key in the table was written by such a run of the same version)
and `DroppedIsKey`. `DroppedSafe` follows: no record is dropped that was not
delivered. The commit's loop over the nodes is the part that needs `Backed` for
each key rather than for each run: it may fail in the middle and be repeated.
`DeliveredSafe` is the converse, that a record is not written again by a run
that began to filter after another had completed. `OnceInv` adds `Booked` (what
the checkpoints before the commit's position name is in the table),
`SentIsFresh`, and `Seen` (such a run has read the keys it shares with the
completed one, or the answer broke off before them), which ties a node's reading to the history of other runs.

**Triggers** (`TriggerProofs`).

- `HookInv`: a delivery that claimed its signature in the window, and has or may
  still get a run, holds the key of the signature until the window is over, and
  no two hold it (`SignatureHeld`); whoever is `late` came after the window. The
  same of idempotency keys (`KeyHeld`); a
  pending key has a request at work on it as long as nothing failed
  (`KeyWorked`). The first two are claimed while Redis and the database answer:
  after a lost answer a key may be released under a run that was started.
- `OutboxInv`: the row locks of two workers are disjoint (`RowsLocked`), and
  every acceptance or attempt is recorded in the row, held in an open
  transaction, or was lost with an answer or a rollback (`GotCounted`,
  `TriesCounted`).
- `LaunchInv` says what each stage of a launch knows of its row, its workflow and
  its failures. `Balance` is about the counter of each month, for every set of
  failures: it lies between the number of executions that hold a unit of the
  month (`Live`) less those that gave one back wrongly (`Short`) and that number
  plus those that did not give one back (`Spare`) and the repeated counts. These
  are counts of changing sets, so each step shows by how much each set grows.
- `EventInv`: what the loop of a replica has passed without an error is handled,
  so an acknowledgement is sound; it relates positions of the stream, done keys
  and loop variables of every replica. `LaunchCounted`, for one replica: a launch
  is marked, about to be marked, or lost.

**Identity** (`IdentityProofs`).

- `JwksInv`: the cached set, and the reply on its way, are the usable keys that
  were offered when the issuer gave them out (`Document`): a key in it was added
  before then or never removed since, and one that is offered since before then is
  in it. That moment, not the one recorded by the cache, is what a key's end and
  beginning are measured from.
- `AccountInv`: what each handler relies on between two statements (`JobSound`);
  no step takes a confirmation back. The action property `KeepsPassword` follows.
- `SessionInv`: no row is held by two transactions, a rotation's token is live
  for as long as it is locked, a reset has seen every live token but those that
  a concurrent login or rotation issues, and those are marked as racing.
  `LinkUsedOnce` counts the used links that no reset holds.
- `OAuthInv`: a grant comes from one spent state, the tokens of a row are from
  grants of its owner, and the row a refresh has read may be gone, but no other
  connection has its id.
- `RateInv`: the counter of Redis has counted all it let through in any
  stretch of a window that is not over, because each count renews the expiry
  (`RedisOK`); a replica's own counter is not renewed, so that the limit holds
  for the window of its bucket only (`LocalOK`), and twice the limit for an
  arbitrary one (section 6).

**Data** (`DataProofs`).

- `SinkInv`: once an attempt has written, all records have landed unless a stale
  attempt may empty the destination; a receiver that recognises repetitions has
  a record exactly when it has heard of it; an attempt adds one copy at most.
- `NodeInv`: at most one attempt is awaited; what the workflow holds is the
  concatenation of the answered pages; without overlap the row is the one the
  last attempt left. The concatenation is `FlattenSeq` of the community
  modules, about which the proofs need that appending a page appends its rows.
- `PageInv`: no wanted row is passed over, that is, each is delivered, in the
  hands of the run, or still selected by its cursor (`Covered`), for the saved
  cursor and that of every run; a cursor is a place in the table, so that the
  rows that arrive, whose keys are the highest, come after it where ties are
  read by key. The turn of a page (`FetchSourcePage`) is the long step: the rows
  returned are a prefix, in the order of the query, of those selected.
- `StreamInv`: every record behind a committed offset is in the sink, and so is
  every record behind the offsets that a batch starts from; a batch that is to
  be committed has been written as far as it says (`BatchOK`). Two executions
  may commit in either order: `mergeKafkaOffsets` keeps the greater offset, and
  the greater one was written by the batch that brought it. `OffsetsAreWritten`
  includes that a commit never takes an offset back.
- `SparkInv`: an execution submits one application, which begins behind
  snapshots that are all in the sink and covers what the execution has read
  (`JobOK`).
- `TransInv`: the rows so far are those of the records passed so far. Each row of
  a dedupe is the first or the last record passed with its key (`Deduped`); the
  place of a record that conforms is the number of those up to it (`Checked`); a
  union has each record once (`United`); each row of a join is the one of a key
  whose turn has come (`Joint`), and the keys are those of the left input, or of
  both in order (`KeysOf`). With unique keys the index of an input has each record
  under its key, so that the rows differ as their keys do.

**Suites.** `SuiteProofs` and `DataSuiteProofs` prove the properties of the runs
`triggers`, `identity` and `data` themselves. The instances of a suite are by
definition those that the proof module has under the same constants; the
lemmas say so, show that the constants meet the assumptions, and carry each
invariant over for the behaviours of which `trigger`, `concern` or `scenario`
names the instance.

**Only model-checked.** `ContractsCompared`, whose search is a recursive function
over data, compared with its definition on all small inputs; and all liveness (`RunSettles`, `IntentDelivered`,
`DispatchersFinish`, `ReadersFinish`, `EnginesFinish`, `FlinkControlled`).
Liveness under fairness, `ENABLED`, and what a
recursive definition computes for every input are out of the prover's reach.
Library theorems that take an operator
as a parameter cannot be used; induction over a finite set or a number is done
with a least counterexample instead (`WFMin`).

## 6. Findings

- **A backfill job is not closed by its last partition** (`backfill_close`,
  `activities/activities.go:639`). One statement updates the partition in a
  `WITH` and then closes the job if no partition is unfinished; both use one
  snapshot, in which the partition is still `running`. A job whose partitions
  all completed keeps showing `running`. The statement's own verdict branch
  (`ELSE 'completed'`) is only reached on a repetition, or when the partition
  was already out of the unfinished states, as when `dispatchBackfills` had
  recorded a failure for an insert whose answer was lost.
- **A continued stream cannot be controlled** (`stream_continued`,
  `dispatchers/execution_control.go:53`). The dispatcher signals the run id of
  the launch. `StreamDirectWorkflow` and `FlinkJobWorkflow` continue as a new run
  after 100 iterations; the signal is answered NotFound and the request given
  up, while the workflow goes on.

**Observations.** Cases met while modelling in which the code does less than a
document, a comment or a test says, or less than one would expect. The models
have them as behaviours; the passing properties are worded, or their instances
chosen, so that these cases are left out, as the last column says. Each was
reproduced by giving the instance back what is left out.

| Where | What happens | Left out by |
|---|---|---|
| `activities/activities.go:639` | `MarkExecution` repeated for an execution finds the partition finished and closes the job: a retry is not idempotent | not stated |
| `src/db/016_backfills.sql:71` | two API replicas (a rolling update) exceed `max_concurrency`: the claim counts in its snapshot | one replica in `backfill_single` |
| `api/routes_pipelines.go:726` | `backfillRetry` of a partition whose execution has a row can only fail: the unique index refuses a second one | not stated |
| `api/routes_triggers.go:374` | an event with a subscriber that always fails stays pending, and no new event is read | `EventsAreDelivered` has no failing subscriber |
| `api/routes_triggers.go:325` | two API processes may launch a subscriber twice, as the lock ends before the done key is written | `LaunchedOnce` is for one replica |
| `api/routes_triggers.go:369` | a consumer whose group could not be created ends, and its replica reads no events | `EventsAreDelivered` unless all have ended |
| `api/routes_triggers.go:386` | entries handed out in an answer that is lost are not read again until an error or a restart | `unread` in `EventsAreDelivered` |
| `api/routes_triggers.go:231` | a handler verified in the window that claims the signature after its key has expired starts another run | `late` in `OneRunPerSignature` |
| `dispatchers/dispatchers.go:180` | a notification whose answer is lost is posted and accepted again | `unheard` in `AcceptedOnce` |
| `api/oidc_jwks.go:62` | the age of the keys counts from the arrival of the document, so a withdrawn key works longer by the time it took | `Latency` in `RetiredKeysEnd` |
| `activities/activities.go:112` | a run whose cursor could not be read starts from the beginning and delivers again | `ReadOnce` speaks of each run alone |
| `activities/activities.go:374` | an answer that breaks off in the middle is taken for all the keys, and what did not come is delivered again | `missed` in `DeliveredOnce` |
| `workflows/dynamic_dag.go:495` | a pause sent after a resume is undone by it if an engine takes both at once | not stated |
| `api/routes_triggers.go:198` | a process that stops between claim and release leaves the idempotency key pending for a day, and retries are answered 409 | `KeySettlesWithoutFaults` |
| `activities/activities.go:641` | the alert of a failed run gets no row in the notification outbox: nothing inserts there | rows are given in `Queued` |
| `api/routes_password_reset.go:91` | a refresh or login under way when a reset revokes the tokens leaves a live session | `raced` in `ResetEndsSessions` |
| `api/routes_password_reset.go:41` | two concurrent requests both mail a link within the minute | not stated |
| `api/routes_auth.go:113` | two first registrations on an empty install are both verified | not stated |
| `api/oidc_jwks.go:59` | failed fetches are not spaced by the backoff | `GoodFetchesSpaced` |
| `api/temporal.go:67` | a launch that fails across the end of a month gives its unit back to the wrong month | the launches hit by `month` in `UsageIsCounted` and `Settled` |
| `api/temporal.go:97` | a start that fails may have started the workflow, which nothing terminates | those hit by `start` in `Compensated` |
| `api/temporal.go:102` | an `INSERT` whose answer is lost has a row, and its unit is given back | those hit by `insert` in `UsageIsCounted` |
| `api/temporal.go:115` | the errors of the termination and of the release (`:66`) are ignored; both use the context of the request, and are lost with it | those hit by `terminate` and `release` |
| `activities/activities.go:63` | a repeated attempt counts a scheduled execution twice | `repeats` in `Settled` |
| `api/routes_billing.go:173` | bought units raise the quota of every later month | not stated |
| `api/temporal.go:128` | activating a version without a cron trigger leaves the schedule of the archived one | the schedule instance has cron triggers only |
| `api/routes_pipelines.go:199` | a failure between the commit and `syncSchedule` leaves the old schedule | no faults in that instance |
| `api/temporal.go:136` | two activations may set their schedules in the other order | one request at a time in that instance |
| `api/routes_pipelines.go:98` | of two concurrent saves one may carry over the sharing of a version that is no longer the latest | one request at a time in that instance |
| `api/routes_pipelines.go:517` | two concurrent promotions may compare with a version that the other one replaces | one request at a time in that instance |
| `api/routes_pipelines.go:602` | an archived production version counts as a draft and can be activated past the gates of a promotion | not stated |
| `api/pipeline_validation.go:176` | stream-direct accepts a source with two targets, one of which leads nowhere | not stated |
| `src/apps/workflow-go/ee/activities/spark.go:58` | a retried submission stores a snapshot newer than the one its application reads: rows are skipped | no lost submission in the `data` instance |
| `src/apps/workflow-go/ee/activities/spark.go:69` | the retry reads the sink after the first application has written, and fails for want of an output | not stated |
| `src/apps/workflow-go/ee/activities/flink.go:121` | the second pause repeats the Idempotency-Key of the first and suspends nothing | not stated |
| `connectors/databases.go:258` | removing the key column in the middle of a tie skips the rest of it | the instance only adds one |
| `connectors/databases.go:302` | a page that ends with NULL in the cursor column starts from the beginning again | no NULL first in the SQL instances |
| `api/http.go:278` | a replica's own counter starts anew when its window is over (`:312`), so up to twice the limit passes in a stretch of a window's length that lies across | `LimitPerCounter` counts in the window of the bucket for it |
| `connectors/databases.go:492` | a commit whose answer is lost is repeated by the retry for tables without a conflict key | `OnceIfRecognised` |
| `api/routes_executions.go:98` | the paged list of executions limits before it looks ahead, so there is never a second page | route `executions` has no instance |
| `activities/activities.go:137` | a page repeated after a lost answer is counted twice in a source of one page | the source instance has two pages |
| `activities/activities.go:544` | a concat over the in-memory limit is refused rather than spilled | not stated |
| `connectors/transforms.go:625` | joins keep the last record of a key only | `JoinReference` for unique keys |
| `connectors/transforms.go:491` | quarantined records are counted and dropped | not stated |
| `api/routes_pipelines.go:473` | a required field may become nullable without an override | types only in `Keeps` |
| `api/routes_pipelines.go:426` | contracts stored as JSON text are enforced but not compared | contracts as objects in `compare` |

The lost answer of an insert also frees the slot of an execution that may still
run (`unknown` in `ConcurrencyKept`).

## 7. What is not modelled

- Legacy workflow histories without execution controls (`workflows/dynamic_dag.go`,
  the branch of the version marker): the same loop without gates.
- The request and response side of connectors: SaaS pagination, expressions and
  templates, file formats, credentials and their tests, CDC registration. They
  are I/O or pure functions of one value; what they do to a run is in
  `SourcePaging`, `SinkDelivery` and `NodeRuns`.
- Ciphers, key rotation of the payload codec, the object store: payloads are
  opaque values.
- The AI builder: it keeps no state, and what it proposes is validated when it is
  saved.
- Analytics and dashboards: read-only queries. Configuration and process start.
- API tokens, authorization per route and row-level security: every statement is
  assumed to see its tenant's rows; roles are modelled where versions inherit
  them.
- Kafka partitions that appear after the cursor was saved: `kafkaFetch` reads
  only the partitions in the cursor, and the set of partitions is a constant.
- The `latest` start position of a stream (`connectors/streams.go:72`): it
  skips what was written before the first page on purpose; the model is of `earliest`.
- Retention and cleanup loops: they delete what is terminal and old.
- The web application: a client of the API without authoritative state.

## 8. Plan

1. Proofs: the search of `Contracts`, with the loop as steps of the model in place
   of a recursive function.
2. An abstract launch (all or nothing) that `LaunchQuota` refines without faults.
3. Modules for CDC registration, API tokens and retention, if their code grows a
   protocol.
