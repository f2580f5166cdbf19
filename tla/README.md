# go-cook: a TLA+ verification project

`go-cook` is a Go library of client wrappers: a workflow pipeline on Temporal,
an NSQ client, a Redis/Valkey client, SQL helpers, and thinner wrappers for
cron, JWT, Elasticsearch and object storage. This directory holds TLA+ models
of the parts that have state and concurrency of their own, the TLC runs that
check them on small instances, and TLAPS proofs that carry their safety
properties to instances of any size.

Paths below are relative to the repository root.

## 1. Inventory

| Component | State | Operations | What makes it correct |
|---|---|---|---|
| Activity pipeline (`temporal/workflow.go`) | the graph `activity`, `firstActivity`; per run the current step and the `Activity` field of its data | `AddTransitionActivityWithOptions`, `Execute`, `runActivity`, `getNextActivity` | a run walks along registered transitions only; it ends or waits for something outside |
| Resumable steps (`temporal/resumable.go`) | per visit `correctionCount`; per step `Resumable`; signal queues on the server | `runResumableActivity`, `waitForSignalPayload`, `applyCorrection`, `waitForApproval` | no execution without a signal, exact correction budget, no step passed without its approval, timeouts and cancellation end every wait |
| Execution status | `w.Status` (one field for all runs), search attribute per run | `setExecutionStatus`, `registerStatusQuery`, both exits of `Execute` | the status agrees with the wait and the outcome; attribute and field agree |
| Workflow data helpers (`temporal/public.go`) | `w.WorkflowID`, `w.ExecutionData` (shared); the polling client's context | `WorkflowInit`, `GetWorkflowData`, `ExecuteWorkflow`, `QueryWorkflowData` | an answer is ready and never what an earlier workflow left; every call returns |
| Temporal client (`temporal/temporal.go`) | SDK client and worker | start, signal, cancel, query, update | passes its arguments on |
| Signal helpers (`temporal/signals.go`, `workflow.go`) | signal channels of a run, shared by its coroutines | `WaitForSignal`, `WaitForAnySignal`, `ListenSignal`, `GetSignalResult`, `On` | each signal reaches one receiver, each answer belongs to its signal, listeners go on |
| Child and external workflows (`workflow.go`) | the child's execution (ID and run ID) | `StartChildWorkflow`, `SignalExternalWorkflow` | the request reaches the child of the call; nil means served; a child that works is awaited; the call returns |
| NSQ client (`nsq/`) | producer, consumers; messages at nsqd | `Publish`, `RegisterConsumer`, the handler wrapper | at-least-once handling |
| Redis client (`redis/`) | package variables `client`, `limiter`; one key space per server | constructors, `RateLimiter` (twice), `Set`, `SetNX`, `Get`, `Del`, `ClearCache` | a client talks to, and limits at, its own server; what is stored can be read |
| SQL helpers (`db/`) | connection pool, tables | `Save`, `FindAll`, `FindByID`, `Update`, `Delete` | own ids, unaliased snapshots, no lost connections |
| Migration (`db/migration.go`) | the list of statements, in memory; the schema | `RegisterMigration`, `Migration` | the schema is a prefix of the list, whoever migrates, fails or dies |
| Elasticsearch client (`elasticsearch/`) | an index and its documents | `CreateIndex`, `DeleteIndex`, `InsertDocument`, `BulkInsert`, `UpdateDocument`, `DeleteDocument`, and calls that only read | nil means stored; a failed bulk has no gaps; what was deleted stays deleted |
| JWT v1 and v2 (`security/`) | claims as JSON, lifetimes | `GenerateTokens` (twice), `MarshalJSON`, `UnmarshalJSON` | both versions read the same user from each other's tokens; a refresh token outlives its access token |
| Cron, Tigris, Nexus | none of their own | see section 8 | not modelled |

How they interact: workflow code calls `WorkflowInit` and `Execute` on one
`WorkflowExecution` value that the worker shares between all its runs; the
Temporal server delivers signals, cancellations, timers and activity results to
each run; operators and other processes start, signal, cancel and query through
the client. NSQ, Redis, SQL, Elasticsearch and the tokens are independent of each
other and of Temporal.

Hard behaviour: interleaved runs on one shared value; signals that come early,
twice, undecodable or for a name two steps share; timers racing signals and
cancellation; redelivery, stale deliveries and late acknowledgements at nsqd; constructors racing
on package variables; connections kept by an abandoned result set; workers that
restart between two tasks and replay; coroutines that compete for a channel;
children that close before they are signalled; migrations and bulk inserts that
stop half way and are repeated; services of two versions on one token. The full
list, each item at its line, is `hazards` in `PROJECT.json`.

## 2. Modules

| Module | Models | Notes |
|---|---|---|
| `Pipeline` | pipeline, resumable steps, status | the core; any number of runs on one shared `w` |
| `ExecutionStatus` | nothing in particular: the abstract status machine | refined by `Pipeline` with one run |
| `MCPipeline` | instances of `Pipeline` | |
| `PipelineRestart` | `Pipeline` on a worker that restarts, evicts and replays | extends `Pipeline` |
| `MCRestart` | instances of `PipelineRestart` | |
| `PipelineProofs` | theorems about `Pipeline` and `PipelineRestart`: types, path, budget, signals, approvals, status, refinement, restarts | |
| `WorkflowData` | `temporal/public.go` | |
| `NsqConsumer` | `nsq/` against nsqd | |
| `RedisClient` | `redis/` against several servers | |
| `Repository` | `db/repository.go` on a bounded pool | |
| `Signals` | the signal helpers on coroutines of one run | |
| `ChildWorkflow` | `StartChildWorkflow`, `SignalExternalWorkflow` | |
| `Migration` | `db/migration.go` in several processes | |
| `Elasticsearch` | `elasticsearch/elasticsearch.go` against a cluster | |
| `Tokens` | `security/jwt.go`, `security/v2/jwt.go` | |
| `TokensProofs`, `MigrationProofs`, `RepositoryProofs`, `ElasticsearchProofs`, `SignalsProofs` | theorems about the module they are named after | |
| `WorkflowProofs` | theorems about `ChildWorkflow` and `WorkflowData` | `WorkflowData` has names of its own (`DataSpec`, `at`, ...), so that one module can extend both |
| `ClientProofs` | theorems about `RedisClient` and `NsqConsumer` | likewise `NsqConsumer` (`NsqSpec`, ...) |

The smaller components do not share state with the pipeline, so what is composed
is `Pipeline` with its worker (`PipelineRestart`, which in turn implements
`Pipeline`) and with its abstraction (`ExecutionStatus`). In every module a comment
starting with "Variant" marks a mutated form of the definition after it: it is
not used by the specification and exists to show that a property can fail.

### 2.1 Pipeline

State: `activity` is the map `w.activity`, a step being its gate, its
`ActivityOptions` (nil, a timeout without a retry policy, or with one), its next
activities and its `ResumableOptions`; a target that is not registered is the
empty entry the code makes for it. `status` is `w.Status`. Each run has a
program point `pc`, its `currActivity`, the `Activity` field of its data (or
`NoData` for a nil interface), `correctionCount`, its signal queues (`sent` is
what the server accepted per name, `taken` how much of it was received), its
cancellation flag, its search attribute and its result. `path`, `spent` and
`executed` are history variables: the steps entered, the executions and approvals
that a signal paid for, and the executions of each visit (by its place in `path`).

| `pc` | In the code |
|---|---|
| `idle`, `started` | before the start; accepted by the server, `Execute` not called |
| `next` | head of the loop in `Execute` |
| `parked`, `ready` | in `waitForSignalPayload`; signal received, correction applied |
| `running` | in `future.Get` |
| `approving` | in `waitForApproval` |
| `advance` | after `runActivity` returned nil |
| `failing`, `finishing`, `done` | the two exits of `Execute`; returned |
| `panicked` | in a workflow task that panics and is tried again and again |

Every place where a workflow can be blocked, and every place where another run
can touch a shared field, is a program point of its own. Statements between
them are one action: Temporal runs workflow code to its next blocking call, and
single accesses to `Status` are taken as atomic.

Actions by group: `AddTransitionActivityWithOptions` and `Tune` (setup: the
graph is complete before the first run starts); `StartWorkflow`,
`SignalWorkflow`, `CancelWorkflow` (operators); `Execute`, `ExecuteRefused`,
`EnterFailFast`, `EnterPlaceholder`, `EnterResumable`, `LeaveLoop`; `ReceiveSignal`,
`CorrectionRefused`, `WaitTimeout`, `WaitCanceled`, `StartResumable`;
`ActivitySucceeds`, `FailFastFails`, `ResumableFails`; `Approve`, `Reject`,
`CorruptApproval`, `ApprovalTimeout`, `ApprovalCanceled`; `Advance`,
`FailExit`, `CompleteExit`.

What is assumed of Temporal (external): signals are buffered per run and name in
order and refused after the run closed; a wait evaluates its condition before it
looks at cancellation and at its timer; an activity of a cancelled context, or
one without a timeout, fails; `ExecuteActivity` without a function, which is what a
target that was never registered has, panics, and by the default panic policy the
task is retried for ever: the run is blocked, a cancellation does not end it; a payload that does not decode is
dropped by `ReceiveAsync`, and `null` decodes to `false`.

Abstractions: a payload is `null`, `true`, `false` or an object; what a
correction or an activity does to the data is any new value of its `Activity`
field; a search attribute has one name. `Resumable` has no setter in the package
and is assigned by code of the package itself (its tests do so), which is `Tune`.
Left out: a gated step with an explicit unlimited `RetryPolicy`; failures of
`UpsertSearchAttributes` after the first one (`setExecutionStatus` returns the
error, its callers drop it); a failure of `SetQueryHandler`.

### 2.2 WorkflowData

The data object of a run is named after the run and has a version. `StoreData`,
`RegisterQuery` and `ReturnData` are the three parts of `WorkflowInit` that
other runs can come between; `QueryWorkflowData` is the polling loop with its
context check, the query, the decision after an error, and the select of the
one-second timer and the context. Refusals of nil arguments change nothing and
are left out. `later` is history: who called `WorkflowInit` after whom. Left out: a
run that is evicted and replayed calls `WorkflowInit` once more, which makes it
the latest.

### 2.3 NsqConsumer

One topic and channel. nsqd and go-nsq are external: a stored message is in the
channel, in flight (at most `MaxInFlight`), or finished; a FIN counts for a message
in flight, whichever of the connection's handlers sends it. go-nsq keeps deliveries
in `buffered`, with their attempt numbers, until one of its handler goroutines is
free (`Take`), so a message in flight need not have a handler, and a delivery that
timed out in the buffer is handled all the same. `HandlerReturns(w, ok)` is the whole wrapper:
`ok` is what really happened inside `handlerFunc`, which the wrapper cannot see.
go-nsq finishes a message unseen after `MaxAttempts` deliveries (its default of
5 is not changed by `NewNsqClient`).

### 2.4 RedisClient

`newClient` is four actions, one per access to the package variables `client`
and `limiter`, by any number of callers at once: the code has no lock. `met` is
history, the constructors that overlapped each caller's. The rate limit of redis_rate is abstracted to a counter per minute and server for one
client IP. A value is text (no JSON document by
itself) or a number (one), stored as JSON by `Set` and raw by `SetNX`.

### 2.5 Repository

Callers share a pool of `MaxOpenConns` connections. A query text is abstracted
to the placeholders and command words it contains, because that is what
`QueryValidation` and `CheckDriverBasedExpression` look at. `FindAll` is row by
row, so other callers write between its rows. Callers' contexts are taken to
outlive their calls. `NewMYSQLClient` builds one kind of connection string for
both drivers; the helpers accept any `Trigger`, so both drivers are modelled. A
`Save` on PostgreSQL may store its row and fail all the same (no `RETURNING`, an id
that does not scan); a `FindByID` may fail to scan the row it found.

### 2.6 PipelineRestart

Adds to `Pipeline` which runs are in the memory of the worker (`cached`), the
status that the run's `Execute` wrote last (`written`), and a bounded number of
losses. `Restart` is a new process: an empty `Status` field and no run in memory.
`Evict` takes one run out of memory. `Replay` brings a run back: `Execute` runs
again from its history, so `Status` ends at what the run wrote last, and the
server sees no new upsert. `Progress` is any step of `Pipeline` by a run in
memory. A task that is cut off is handed out again by the server, so losses fall
between tasks (`BetweenTasks`).

`Undisturbed` is `Pipeline` with `status` read as what the run wrote last, which no
loss touches; `ImplementsPipeline` says that the run on a worker that is lost and
replayed is a behaviour of it: a replay that upserted again, received a signal
again or executed again would be a step `Pipeline` does not have. One run: with
several, the replays share the `Status` field and the statement of
`claim_status_of_workflow` fails already.

### 2.7 Signals

Callers are coroutines of one run; each makes any sequence of calls. A signal is
its position in `sent`. A selector call (`GetSignalResult`, `WaitForAnySignal`)
and a listener's `Receive` go `select` → `holding` → back to `select` when the
payload does not decode; they block (`Park`) when no channel they are open on has
a signal. `blocked` is one queue of the blocked coroutines: a signal goes to the
first of them that waits on its name (`HandOver`), which leaves its other channels
too. `WaitForSignal` is `polling`. `runAsync`, the loop prepared by `On`,
takes the same steps as `ListenSignal` with a result of its own. Workflow code
runs one coroutine at a time, and signals and cancellation come with a task,
hence `Quiet`. The Go version of the module gives each iteration its own
`signalName`, which the variant `NameShared` takes away.

### 2.8 ChildWorkflow

`runs` are the child executions the server knows, with their owner and the
signals they accepted; the callers are anywhere in the three blocking calls of
`StartChildWorkflow`. A child may close at any time with any outcome. The signal may
fail because the child closed, and with the child open, because the request does not
encode or the server refuses it; the code then returns and leaves the child waiting. With one ID
and three runs a second caller can start the next run of the ID while the first
is about to signal.

### 2.9 Migration

A program is any list of statements, each once-only, repeatable or taking effect
every time. The database executes one statement atomically; a failed execution
may have taken effect. Nothing is persisted about what was applied, as in the
code; `owner`, `call` and `partial` are history.

### 2.10 Elasticsearch

Every request (`Send`) is served as a whole or not at all, and its reply may be
lost; a request of any kind may in addition arrive once more later (`late`), because
the transport repeats it or its caller gave up. A late insert is stored under a new
id, a late update is merged once more. A document is abstracted to the call and
position it was inserted by and the updates merged into it: `UpdateDocument` sends
the caller's document whole and its content decides nothing. `BulkInsert` is the loop over
`InsertDocument`, one document per step; `InsertDocument` alone is a batch of
one. `IndexExists`, `GetDocument`, `SearchDocument` and `Count` change nothing.

### 2.11 Tokens

The JSON object of a token has the names of both versions, each present or
absent. Marshalling and unmarshalling are modelled per version, with `omitempty`,
missing names, and `encoding/json`'s matching of `Email` and `email`. `Hour`,
`Second` and the durations are numbers of ticks, `exp` is cut to whole seconds,
and the clock may move between the two tokens of a pair. `RewriteAccess` and
`RewriteRefresh` are services of either version that parse a token and sign its
claims again. v1's `Username` and `RoleID` are never filled by the code.

## 3. Runs

Passing runs:

| Run | Instance | States | Checks |
|---|---|---|---|
| `pipeline` | one run, every graph registrable from 4 transitions (gated and fail-fast, a cycle, a shared gate, an unregistered target), 2 tunings, 3 signals, 3 payloads, 3 steps | 2.0 M | type, path, signals, budget, approvals, status, refinement of `ExecutionStatus` |
| `restart` | one run, acyclic graphs from 5 transitions, 2 losses of the worker's memory | 585 k | status and attribute after restarts and replays, refinement of `Pipeline`, `Settles`, `CancelReturns` |
| `workflow_data` | two runs on one worker, one client | 61 k | no data of an earlier run, retries until the deadline, return |
| `nsq_consumer` | 3 messages, 2 in flight, 2 handlers, 2 faults, 2 attempts | 284 k | at-least-once, no delivery forgotten, eventually handled |
| `redis_client` | 3 callers that overlap in any way, 2 servers, 1 call each | 597 k | own server or that of an overlapping constructor, limit at the right server |
| `repository` | MySQL or PostgreSQL, 2 callers, 2 connections, 2 calls each | 232 k | own ids, snapshots, connection accounting, recovery |
| `signals` | 2 coroutines, 2 names, 3 signals, any calls | 724 k | every signal once, answers belong to signals, listeners consume |
| `child_workflow` | 2 callers, 1 ID, 3 child runs | 434 k | own child, nil means served, working children are awaited, return |
| `migration` | 2 processes, every list of up to 3 statements, 3 calls, 1 fault | 1.2 M | schema is a prefix, nil owns what cannot be repeated, a race has a winner |
| `elasticsearch` | 2 callers, batches of 2, 3 calls, 1 late request | 1.2 M | nil means stored, no gaps, deleted stays deleted |
| `tokens` | every user with 2 ids and 2 texts, every configuration, both versions | 307 k | identity, authorization, lifetimes |

The properties that go beyond one step:

* `PathFollowsTransitions`: whatever ends up in the `Activity` field (from the
  caller, an activity, a correction), a run only goes where its step lists.
* `EverySignalBuysOneRun`: executions and approvals never outnumber signals
  received, and no gate swallows a signal.
* `ExecutionBudget`: the budget is exact for every visit of a path, a second visit
  to the same step included.
* `ApprovalsGranted`: each passed approval has its own `true`.
* `StatusReport`, `ImplementsExecutionStatus`: with one run, the status is right
  during every wait and after every outcome, and only moves as `ExecutionStatus`
  allows. `StatusOutlivesWorker`, `AttributeOutlivesWorker`: the same of a queried
  status and of the indexed attribute when workers restart, evict and replay.
  `ImplementsPipeline`: nothing else of the run shows that the worker was lost.
* `Settles`, `CancelReturns`: liveness, see section 5; checked with restarts. A run
  that reached a step without a function stays in its panicking task, cancelled or
  not; both properties say so, and that a run is stuck nowhere else.
* `NoEarlierData`: with several runs on one worker a run and its readers may see the
  data of a run that started later (the code shares the field), and never what an
  earlier one left. `RetriesUntilDeadline`, `QueryReturns`.
* `AtLeastOnce`, `EventuallyHandled`; `InFlightIsHere`: every delivery nsqd counts is
  in the buffer or at a handler, so that it will be answered.
* `OwnUnlessOverlapping`: how far the lack of a lock goes: only constructors that
  overlap can mix up their servers. `LimitedAtRightServer`: without overlap.
* `SavedIdIsOwn`, `FindAllIsSnapshot`, `ConnectionsAccounted`, `PoolRecovers`.
* `EverySignalOnce`: a signal is in its channel, on its way to one coroutine, or
  decoded by one; only undecodable ones are dropped; over all its calls a coroutine
  decodes the signals of a name in the order they were sent. `AnswerTellsSignal`,
  `ListenersConsume`.
* `RequestToOwnChild`, `NilMeansServed`, `CallReturns`: the run ID in the signal keeps
  a request from the next run under the same ID. `RequestIsAwaited`: a child left
  open is one whose signal failed, and it never gets the request.
* `SchemaIsPrefix`, `NilOwnsOnceStatements`, `RaceHasWinner`: the last two say
  what starting over costs: a half-migrated database with a once-only statement
  is never finished by another call, and of racing processes one finishes.
* `NilMeansStored`, `NoGaps`, `DeletedStays`: no late or repeated request brings a
  deleted document back.
* `IdentityKept`, `AuthorizationKept`, `RefreshOutlivesAccess`.

The type invariants of the modules other than `Pipeline` hold on the same
instances (add `TypeOK`, `DataTypeOK` or `NsqTypeOK` to the cfg); they are not listed
as questions. All of them are theorems.

One run is on a documented statement that the code does not keep (expected to be
violated; the quotation is in `findings`): `claim_status_of_workflow`, "the query
returns the status of that workflow". `w.Status` is shared by all runs of the
worker: a parked run is reported with the status another run set.

Other statements of the repository that the code does not keep. Each is stated as
a definition and can be seen by checking it with the cfg of its module, changed
as the last column says:

| Statement | Definition | How to see it |
|---|---|---|
| `temporal/public.go:27` WorkflowInit "stores execution state, records the workflow ID" | `OwnIdentity` (`WorkflowData`) | `WorkflowData.cfg` as it is: the second run learns the first one's ID, or executes on its data |
| `nsq/nsq.go:75` "Failed messages are automatically requeued" | `FailedAreRequeued` (`NsqConsumer`) | the requeue branch is unreachable, a failed message is finished |
| `redis/redis.go:184` the limit is enforced "against this client" | `OwnServer` (`RedisClient`) | `RedisClient.cfg` as it is: of two concurrent constructors one may return the server of the other |
| `db/repository.go:149` FindAll "returns all matching rows" | `FindAllReturnsAll` (`Repository`) | a driver error between two rows is dropped |
| `temporal/interface.go:94` WaitForAnySignal "parks until the first of the given Signals arrives" | `AnySignalEndsWait` (`Signals`) | after an undecodable payload it waits on that channel alone |

Disagreements met while modelling that no run is spent on, because one call or
one line shows them; the modules follow the code:

* `temporal/interface.go:42` "Activities run in registration order": a run ends
  after a step without next activities (`workflow.go:135`; `Ends` in `Pipeline`).
* `temporal/README.md:247` AWAITING_APPROVAL "Parked for `approve`": the status
  stays after the approval while a fail-fast step runs (`Approve` sets none).
* `temporal/README.md:250` COMPLETED "finished without failure/rejection": with
  several runs the exit skips it when another run's failure is in the shared
  field (`Settled`). Same cause as `claim_status_of_workflow`.
* `temporal/resumable.go:19` on `CorrectionSignal`: the wait listens on
  `SignalEvent` only (`GateSignal`).
* `temporal/public.go:27` on the registered query: it answers with the data of
  whichever run stored last (`HandlerAnswers`). Same cause as
  `OwnIdentity`; `NoEarlierData` says what remains.
* `redis/redis.go:3` "JSON serialization": `SetNX` stores its value raw
  (`SetNX`, `Decode`).
* `db/repository.go:189` on `Delete`: its statement text is malformed and every
  call fails (`Delete`).
* `db/migration.go:25` "Currently returns nil as migrations are not implemented":
  it executes the statements (`Exec` in `Migration`).
* `elasticsearch/elasticsearch.go:84` `GetDocument` returns nil for a document that
  was found, and `Count` returns 0 (not modelled, they change nothing).
* `temporal/signals.go:24` "On registers a signal handler": it is stored in a map
  that nothing in the package reads.
* `db/db.go:60` documents pool sizes; the code takes them from the configuration.

## 4. Bounds, and why they are enough

* `MaxSignals = 3`, `MaxSteps = 3`: a gated step can be entered, fail, be
  corrected and run again, and still have a surplus signal; a cycle can return
  to a step already visited, which is where per-visit counters could go wrong.
* `DefaultMaxCorrectionAttempts` is 5 in the code and 1 in the runs, another
  step is tuned to 2: both sides of the comparison are reached. The theorem
  covers every value.
* Two runs suffice for the shared status (`claim_status_of_workflow`): the property
  relates one run to what somebody else wrote. That path, budget and signals are
  right with several runs is proved, for any number of them (section 6).
* `MaxLosses = 2`: a run can be lost, replayed, go on and be lost again.
* `MaxFaults = 2`, `MaxAttempts = 2`, `MaxInFlight = 2` in NSQ: a message can time out
  with its first handler still busy, or in the buffer while both handlers are, be
  delivered again, and use up its attempts.
* Three constructors in Redis: two can overlap after or before a third has finished,
  and one can overlap two others that do not overlap each other.
* `MaxVersion = 2`, `ReadyAt = 1`: data can be too young, ready, and change again.
  Two runs: one can store its data at any point of the other's `WorkflowInit`.
* Two callers, two connections and one failing scan: one connection can be lost and
  the other still serve. The pool that is used up by failing scans is not in the run.
* Three signals on two names for two coroutines: both names ready at once, or two
  signals of one name with a corrupt one before.
* Three child runs for two callers under one ID: one run can close, be replaced by
  the other caller's, and that one by a third.
* Three statements, three calls and one fault: a failure in the middle, a second
  try, and a second process between the two.
* One late request and batches of two: the abandoned request can arrive before,
  between and after the documents of the repeated call, or after the document or
  the index it is about was removed.
* `Hour = 3`, `Second = 2`, a clock to 8: an hour is no whole number of seconds, so
  cutting matters; the theorem covers every value.

Deadlock is not checked: each of these systems may stop. A run of the pipeline
ends, a consumer has handled every message, and every caller has made the
calls its bound allows.

## 5. Fairness

* Pipeline: weak fairness of `Step(r)`, the run's own code, timers and received
  signals, because the worker polls and the server fires timers; and of
  `CertainOutcome(r)`, an activity's outcome when its retries are bounded or its
  context is cancelled. Nobody is obliged to signal, approve or cancel, and an
  activity with unlimited retries may run for ever; `Settles` therefore says
  that a run ends or rests at exactly such a wait. It is stated for acyclic
  graphs: a cyclic pipeline may go round as long as its activities say so.
* PipelineRestart: the same for runs in memory, and of `Replay`: the server hands
  out the tasks of an open run until a worker takes them. Losses are finite.
* Signals: weak fairness of a coroutine's own steps: the dispatcher runs every
  coroutine that can go on, timers fire, and handlers are taken to return.
* ChildWorkflow: the server answers each command, and a child that has its request
  finishes; one without the request need not.
* Migration, Elasticsearch and Tokens state no fairness: only safety is asked.
* WorkflowData: a started call goes on; a deadline passes.
* NsqConsumer: registration is tried until it works, handlers return, and
  delivery is strongly fair per message, since an in-flight slot comes free again
  and again and nsqd's queue reaches every message. A free handler goroutine takes
  the oldest delivery.
* Repository: a caller inside a helper goes on.

## 6. Proofs

Every safety property and both refinements that a passing run checks are theorems
as well, for any values of the constants that the hypotheses of the theorem allow
(`Runs = {only}` where the code needs it, as said below). Each
proof follows the same argument: an inductive invariant; that `Init` implies it; that
each action keeps it, one step per action; that it implies the property. The library
lemmas of a module say what the steps leave alone, so that an action is only
argued about where it changes something.

### Pipeline and its worker (`PipelineProofs`)

For any sets of runs, names and signals, any registered graph and any bounds, from
the assumptions named in `Pipeline` (the empty name and the empty signal are no
names or signals, the default correction signal is a signal, the default budget
is a positive number, the setup arguments are well-typed).

* `TypeCorrect`: `Spec => []TypeOK`. `TypeOK` alone is not
  inductive: `currActivity'` is looked up in `NextActivities`, so the graph must
  be closed under them (`GraphClosed`, kept by the placeholders that registration
  makes), and a waiting run must be at a gated step (`ControlOK`).
  `TypeInv` is the conjunction. `Control(r)` is what it says of one run, so that an
  action of `r` is shown to keep `Control(r)` and, by `ControlStep`, all others'.
* `PathTheorem`: `PathInv` adds where the current step lies
  relative to the end of the path (`PlaceOK`).
* `BudgetTheorem`: `ExecutionBudget` counts executions, the code counts failures.
  `BudgetInv` bounds `correctionCount` and adds that the options of a step some run
  is in are already defaulted, so another run's defaulting changes no budget in use.
  `VisitInv` relates the two counts: at a gate the visit has had as many executions
  as `correctionCount` says, one more while it runs; a visit to come has had none;
  and the visits that are over stay within their budgets, because defaulting a step
  never lowers its `MaxCorrectionAttempts` (`BudgetGrows`).
* `SignalTheorem`: `SignalInv` keeps the account per run and signal, including
  the one signal in hand between receipt and execution. It needs `BudgetInv`.
* `ApprovalTheorem`: `GrantInv` compares, per run and signal, the passed visits
  with the `true` answers received, and adds that only a gated step asks for an
  approval and that a failing run has an error, so that leaving a step without an
  approval passes no visit that needed one. It rests on the three invariants
  before it; the counts grow by one element at a time.
  `StepKeepsGraph` and `OthersKept` are the frame facts they all share: after
  the setup no step changes the graph except for defaults, and a step of one run
  leaves the others' local state alone.
* `StatusTheorem`, `LifecycleTheorem`: for `Runs = {only}`.
  `StatusInv` gives the status at each program point; the second is the
  refinement of `ExecutionStatus`, step by step. The hypothesis is needed:
  `claim_status_of_workflow` shows the two-run counterexample.
* `StatusSurvivesRestart`, `AttributeSurvivesRestart`: for `Runs = {only}`, of
  `RestartSpec`. Between a loss and the replay the field `Status` is empty, so the
  invariant (`RestartInv`) says what the run wrote last (`written`) at each program
  point, that the field agrees with it whenever the run is in memory, and that
  the attribute always does.
* `RestartRefinement`: for `Runs = {only}`, `RestartSpec => ImplementsPipeline`. By
  `RestartInv` the field and `written` agree whenever the run may move, so a step of
  a run in memory is the same step of `Undisturbed` (`StepSame`); a step of an
  operator is one too (`AroundSame`), and losses and replays are stutters
  (`LossUnseen`).
* `SafetySurvivesRestart`: for any set of runs, of `RestartSpec`: path, signals,
  budget and approvals. Their invariants do not mention `Status`, which is all that
  a loss or a replay writes (`LossSafe`).

The first five and the last are about any set of runs: the cases of several runs on
one `WorkflowExecution` need no run of their own.

### Signals (`SignalsProofs`)

For any coroutines, names and number of signals. `SignalsReceivedOnce` counts
places; the invariant says instead of each signal that it is in a channel, held,
decoded or dropped, and excludes each pair (`Once`), so that a step only has to be
looked at for the signals it moves (`Unmoved` settles the others). Needed besides:
a channel has signals of its own name, each once (`ChannelOK`); who is blocked is
in the queue once and holds nothing (`BlockedOK`, `CallerOK`), or a signal handed
over could replace another. `OnePlace` goes back to the count. For the order,
`OrderInv` says that a channel is ascending and has every signal of its name that
was sent after one it has (`NoneSkipped`), so what has left it was sent before what
is in it (`LeftBefore`). Handing a new signal over keeps that only because the
channels of a blocked coroutine are empty (`Starved`).
`AnswersNameSignals` rests on `CallerOK`: what a coroutine holds has a name it
asked for. The theorems use `Spec`; no fairness is needed. Lemmas `TailSet`,
`AppendSet`, `DropSet`, `RemoveSet`: what the queue operations do to the elements
of a sequence without repetition.

### Child workflows and workflow data (`WorkflowProofs`)

* `RequestStaysWithChild`, `NilIsOwnResult`, `ReturnsLeaveNoWork`: any callers,
  IDs and number of child runs. The invariant says that a call between start and
  return has a run of its own, which has the request exactly when the call waits
  for the result (`CallHasRun`), that an open run with a request is the one its
  caller waits for, or the caller is cancelled (`OpenIsAttended`), and that a call
  which returned left an open run only when its signal failed (`LeavesClosed`).
* `OutlastsFailures`, `SharedOnlyWithLater`: any runs and clients. `DataInv` adds that
  data are there once a run went through `WorkflowInit` (`DataStored`) and, for the
  second, that the shared field always holds the run's own data or those of a run
  that stored after it (`SharedIsLater`).

### Redis and NSQ (`ClientProofs`)

* `ClientOfServerMet`, `RequestsCountedRight`: any callers, servers and interleaving
  of constructors. `MetInv` says of whoever is inside `newClient` that the package
  variables hold what a constructor it met put there, and so do the fields it has
  read; and that without overlap the limiter is that of the latest configuration.
* `DeliveredAtLeastOnce`, `DeliveriesInHand`: any messages, handlers and bounds,
  `MaxInFlight` included. Both are inductive together with `Bookkeeping`, which says
  where a message can be before it is published and how the attempt numbers in the
  buffer relate to the deliveries.

### SQL, migration, Elasticsearch

* `RepositoryProofs`: any callers, pool and number of rows. `SaveReturnsOwnId` needs
  that the result a `Save` still holds is of its own row (`InsertedOwn`);
  `FindAllReturnsSnapshot` that the rows read so far and those at the cursor make up
  the snapshot; `PoolBalances` counts the callers inside `FindAll`, who are finitely
  many at any time, however many callers there are (`ReadingFinite`).
* `MigrationProofs`: any processes and lists. `NoGapInSchema` needs that a process has
  everything before its next statement in effect (`PassedByItself`), `NilIsOwnWork`
  that it executed it itself, `RaceCompletes` that as long as something is missing
  and nothing failed, some process is about to execute the first missing statement
  (`LeaderAtGap`).
* `ElasticsearchProofs`: any callers, batches and late requests. The invariant says of the
  server (`ServerOK`) that a stored document, or a late one on its way, has copies
  of all documents of its call before it, and of a caller (`CallersOK`) that it has
  stored everything before its position. `DeletedForGood` follows step by step: each
  kind of request, served at once or late, leaves what was deleted alone
  (`DeletedKept`).

### Tokens (`TokensProofs`)

For any texts, ids, clock, hour and precision (assumptions of
`Tokens`: the absent name and the two special settings are no values).
`TypeCorrect` shows the types and that every token keeps v1's name of the user.
`IdentityTheorem` and `AuthorizationTheorem` rest on `IInv`, which says what the
object of a token holds under each name after any number of rewrites: v1's
names are always present, v2's are absent or equal to them. `RefreshTheorem`
rests on `ExpInv` (the access token expires no later than one made now would, and
no later than the refresh token once that exists, when the lifetimes are in
order) and on `DateMonotone`: cutting to whole seconds keeps the order.

### Only model-checked

Liveness: `Settles`, `CancelReturns`, `ListenersConsume`, `CallReturns`,
`QueryReturns`, `EventuallyHandled`, `PoolRecovers`. Reasoning with fairness is out
of the prover's reach. Of the refinements the theorems cover what the abstract
specifications say, which is safety.

## 7. Reproducing

`tlc -config <run>.cfg <module>` for the pairs in `PROJECT.json`; `tlapm` on
the modules whose names end in `Proofs`.

## 8. Not modelled, and the plan

Order in which the development was built: `Pipeline` with its abstract status
machine and proofs, `WorkflowData`, `NsqConsumer`, `RedisClient`, `Repository`,
then `Signals`, `ChildWorkflow`, `PipelineRestart`, `Migration`, `Elasticsearch`,
`Tokens` with its proofs, then the proofs of the other modules. What a
next step could be: the order of signals across coroutines that share a name, the
remaining calls of the Redis client, and several runs with restarts in a run of
their own.

Not modelled:

* Cron (`cronjob/`): `Run` and `Stop` make one library call each, and the package
  has no way to add a job, so there is nothing for `Stop` to race with.
* Tigris (`tigris/`): each call is one S3 request, no state is kept between calls.
* Nexus: declarations only.
* The Temporal client's constructor, registrations, `UpdateWorkflow`,
  `GetWorkflowResult` and `GetExternalWorkflowResult` (which does nothing): they
  pass arguments on to the SDK. The geo commands, `Publish` and `Ping` of the
  Redis client are single commands; `HGet` and `HDel` panic.
* Elasticsearch's calls that only read.
* The choice of the search attribute by the order of a map (`resumable.go:67`):
  the model keeps one attribute name.
