# A TLA+ model of service2mcp

service2mcp compiles a description of an existing service (OpenAPI, GraphQL,
gRPC, SQL, ...) into a deployed MCP server. This directory holds TLA+ modules of
the parts of it that carry its logic: the compilation job from the API call to
the terminal status and what its stages make of a source, the registry of the
versions, the gateway, the review of a version, and the runtime that serves the
tools. TLC checks the models on small instances; TLAPS proves their safety
properties for every instance.

## 1. Inventory

| Component | State | Operations | Interacts with |
|---|---|---|---|
| Compilation API (`apps/compiler_api/routes/compilations.py`) | rows of `compilation_jobs` | create, retry, rollback, list, stream events | inserts and deletes job rows, writes the audit log, enqueues Celery tasks |
| Task delivery (`apps/compiler_worker/celery_app.py`) | the Redis queue | deliver a task, acknowledged before it is executed | may deliver twice, may lose a task whose worker dies |
| Compilation workflow (`workflows/compile_workflow.py`) | the stage and attempt loops, `context.stage_results` | nine stages, three attempts each; checkpoint after each stage; compensation in reverse | job store, activities |
| Job store (`apps/compiler_worker/repository.py`) | `compilation_jobs`, `compilation_events` | create, mark running / succeeded / failed, checkpoint, append event | PostgreSQL, one transaction per call |
| Activities (`activities/production.py`) | Kubernetes objects, gateway routes, registry rows | run a stage, roll a stage back | Kubernetes API, access control, registry, the libraries |
| Event stream (`stream_compilation_events`) | a cursor per client | poll events, poll status, close | reads what the job store commits |
| Rollback workflow (`workflows/rollback_workflow.py`, `executor.py`) | the active version | redeploy an earlier version, restore on failure | registry, Kubernetes, gateway |
| Artifact registry (`routes/artifacts.py`, `repository.py`) | service versions, one active per scope | create, update, activate, delete | gateway routes around each transaction |
| Review workflow (`routes/workflows.py`) | a row per service version | transitions by role, notes | registry |
| Access control (`apps/access_control`) | PATs, policies, audit entries | create, change, revoke; sync and reconcile with the gateway | gateway admin API |
| MCP runtime (`apps/mcp_runtime`) | circuit breakers, token cache, sessions | load a service, invoke a tool | upstream services |
| Libraries (`libs/`) | a crawl, LLM batches and their budget | detect, extract, discover, enhance, validate, generate | called by the activities |
| Web UI, proof runner, mocks | none | presentation, demonstrations, test doubles | the APIs |

Hard behaviour, by component:

* **Job.** The duplicate test reads the status in one transaction and writes it
  in another. Every store call can fail, the process can die between any two,
  and the message is gone by then. Correct: success means that all stages ran
  and their effects exist; `rolled_back` means that they are gone; a failed job
  can be resumed where it failed; an accepted job ends.
* **Retry.** A retry clones the options of the original, its checkpoint and an
  old `from_stage` included. Correct: no stage is skipped.
* **Event log and stream.** Numbers are allocated with max + 1 by concurrent
  transactions, the client only keeps a cursor. Correct: unique gapless numbers,
  no row behind the cursor, the stream ends.
* **Deployment.** Four resources are applied one by one, each answer can be
  lost, and a cleanup can fail. Version numbers are picked without a lock.
  Correct: jobs keep out of each other's versions, leftovers are accounted for.
* **Registry, rollback, gateway.** A row and the gateway change in separate
  steps and the other one can fail. Correct: one active version, a compensation
  that restores, a job row that tells the truth, a reconciliation that heals,
  no request that waits for ever.
* **Review.** Read, check and write without a lock. Correct: state and history
  agree, no gate is passed without its role, notes are kept.
* **Runtime.** Breakers, token cache and sessions shared by concurrent calls
  that can fail, be cancelled or outlast each other. Correct: a truthful alert,
  bounded overload, a shared and fresh token, whole events in order, no call,
  process or thread that stays.
* **Libraries.** Eleven extractors that do not know of each other, a crawl in
  several passes, an LLM that may answer anything, validators that change what
  was derived before them. Correct: what was detected can be extracted, what
  was seen stays callable, what is listed can be called, the smoke test does not
  write, arguments arrive once, errors are not taken for answers.

`PROJECT.json` lists the hazards at their lines with the properties that watch
them.

## 2. Modules

| Module | Models |
|---|---|
| `CompileWorkflow` | one job: the create handler, deliveries of its task, the staged pipeline, retries, checkpoints, compensation, crashes |
| `JobLifecycle` | abstract: what a job promises to whoever looks at its status and its effects |
| `CompileRetry` | a lineage of jobs created by the retry route, on top of `CompileWorkflow` |
| `EventStream` | `append_event` by concurrent writers and one streaming client |
| `Deployments` | jobs beside each other: version numbers, Kubernetes calls, cleanup, registration |
| `ArtifactRegistry` | the versions of a service, their routes, the handlers that change both, the rollback job, reconciliation |
| `GatewayBinding` | tokens and policies and their counterparts at the gateway |
| `ReviewWorkflow` | the review of one version by concurrent reviewers |
| `RuntimeProxy` | concurrent tool calls and the circuit breakers they share |
| `ToolCall` | a call await by await: token cache, request, polling, session; implements `RuntimeProxy` |
| `Sessions` | one streaming, gRPC or command session and its upstream |
| `IR` | operations, descriptors, services and their validators |
| `Extraction`, `RestDiscovery`, `Enhancement`, `Serving`, `Exchange` | detection and extraction; the crawl; the LLM batches; validation, manifests, runtime and smoke test; one HTTP exchange |
| `StageContents` | the data path of one compilation, composed of the five modules above |
| `CompileWorkflowProofs`, `DeploymentsProofs`, `ArtifactRegistryProofs`, `GatewayBindingProofs`, `ReviewWorkflowProofs`, `ToolCallProofs`, `StageContentsProofs` | theorems about the module of that name, the first also about `CompileRetry` and `EventStream` |
| `RuntimeProofs` | theorems about `RuntimeProxy` and `Sessions`, two parts of the runtime with disjoint state |
| `MC...` | one instance for TLC per run |

### CompileWorkflow

A stage is its position in `DEFAULT_STAGE_DEFINITIONS`. The constants say which
stages are defined with `rollback_enabled` (generate, deploy, route), which have
an effect outside the database of the job (deploy, route, register), which have
a rollback handler (deploy, route), which of those restore a captured state
(route) and which fail when their effect is already there (register, because of
the unique key of the version). `world` is the set of stages whose effect exists.

`pc[d]` is the next step of delivery `d` of the task. Each step is one store
call or one activity, because each store call opens its own session and commits
it. So `MarkJobRunning`, `UpdateCheckpoint` and `AppendStageSucceeded` are three
actions, in the order of the code, and anything can happen between them. The
activity itself is `RunStage` or `StageRaises`; a raising attempt may leave its
effect, or (deploy) have cleaned it up. `UndoStage` and `UndoRaises` are the
rollback handlers. `JobVanished` is `_require_job` raising because the handler
deleted the row. `WorkerCrash` ends a delivery anywhere: a dead process, or a
store call that raises and that `run` does not catch. The message was
acknowledged, so it does not come back; a further delivery is another element
of `Deliveries`.

Events are a set of (type, stage, attempt) rows; their numbers are in
`EventStream`. The checkpoint is its `completed_stage`. Payloads are in
`StageContents`; error texts, metrics and names are left out.

### CompileRetry

`RetryCompilation(from)` is the retry route up to the new row: the boundary
check on an explicit `from_stage` only, the cloned options, the new job. The
rest of the route is the same code as `create_compilation`, so the actions of
`CompileWorkflow` continue from `api = "created"`. One job of the lineage is
followed at a time: a retry starts when the handler and the executions of the
previous job are over, which the code does not require.

Effects belong to a version of the service. A job that starts at detect or
extract takes the next version number, which is a new one once register has
stored the old (`NewVersion`); then `world` starts empty, and `previous` keeps the
effects of the version that the cloned checkpoint describes until the new job
stores a checkpoint of its own, because a further retry may go back to it. A job
that is resumed later works on the version of its checkpoint and inherits
`world`. `undone` remembers what the rollback of an earlier job took away.

### EventStream

A writer reads the maximum, flushes its insert and commits. PostgreSQL runs at
READ COMMITTED: an insert of a number that another transaction has flushed but
not committed waits (`Blocked`), and conflicts once that one commits. The last
append of a writer is the terminal event, and the terminal status is committed
before it. Before other appends an execution calls `mark_job_running`, which asks
for no status and so reopens a job that a duplicate execution has finished. A
writer can give up after `max_retries` conflicts or die at any point. The stream
lists the rows past its cursor, reads the status, yields, and goes on or closes.

### Deployments

Each request to the Kubernetes API is an action: patch, create when the patch
finds nothing, patch again when the creation conflicts, the polls of the
rollout and of the readiness probe, each deletion of a cleanup. A request can
fail, or take effect and lose its answer. A manifest is the job that rendered
it, so that a resource tells whose it is. The version number is read in extract
and inserted in register, with no lock between.

### ArtifactRegistry

A request is one transaction. `held[r]` are the rows it has locked, and the key
of the partial unique index of the active version; `todo[r]` are the rows that
its current statement has still to lock, one by one and in any order, so that
two requests can wait for each other in a cycle. PostgreSQL breaks the cycle by
failing one of them (`DeadlockAbort`). The gateway is changed one HTTP call at
a time (`del`, `put`) while the transaction is open. The rollback job runs the
same rows and routes through `RollbackWorkflow.run`, one store or deployer call
at a time, with both restore paths; `activate_version` can raise before its
commit or after it, in the refresh. A regime says which kinds of
requests are made, which may overlap and how many errors happen, so that a
property can be stated for the discipline under which it holds.

### GatewayBinding

A handler writes its row (which locks it), tells the gateway, and commits; when
the commit fails it reconciles. A reconciliation reads the rows, lists the
gateway, then upserts and deletes one document at a time without any lock. An
update that asks for what the row already has issues no UPDATE and so takes no
lock, as SQLAlchemy does.

### ReviewWorkflow

`pc[c] = "write"` lies between a handler's read and its commit. SQLAlchemy writes
the columns that were assigned, so notes and transitions do not overwrite each
other's columns; two transitions do. A version without tenant or environment
can get two rows.

### RuntimeProxy and ToolCall

`RuntimeProxy` has a call as a start and one of its ends, each with what the
handler records. `ToolCall` has the awaits in between: the lock of the token
cache as a queue, the token request, the request, the kick-off and the polls of
an asynchronous job, a streaming session, a native executor, cancellation at any
await. Coroutines run undisturbed between awaits, and time passes only when none
can run. The timeout of httpx is that of one read: a part of an answer that
arrives starts it anew (`Dribble`), so that a request can last for ever, the
token request under the lock included (`asked` is the time since it was sent).
A native executor may never return, because the statements of the SQL executor
have no timeout. `Proxy == INSTANCE RuntimeProxy WITH ...` maps a call to in flight from
its admission to its answer, and the breakers to themselves.

### Sessions

The collector reads one item at a time under its timers. SSE items are lines; an
event is the sequence of the lines it was made of, so that `SessionTruthful` can
say that events are whole and in order. A gRPC call runs in a thread that nobody
can interrupt, a command in a process. Before its call a gRPC session asks the
reflection service (`reflecting`); that request has no deadline.

### StageContents and its parts

A source is reduced to its shape, how it is given, what its name looks like,
which marks of other protocols its text mentions (`words`), what a probe of the
endpoint answers, and what it declares. `Extraction` gives
every extractor's confidence and result. `RestDiscovery` is the crawl with its
frontier, the OPTIONS probes, the inference passes and the merging of paths into
templates. `Enhancement` has the batches, the semaphore and the budget, and an
answer that may be useless, out of range or malformed. `Serving` has the
pre-deploy checks, the flags in the manifest, the tools and executors of the
runtime, the choice of the smoke operation and the audit, which says of each
tool whether it was called and what the account says of it: after a failed call
of a tool whose path parameters are numbers the account says skipped. `Exchange`
builds the request of a served tool from a set of arguments and judges every
answer. The parameter lists of the tools are a constant (`ParamLists`), with a
payload in any position or none. What becomes of a payload depends on its kind:
by position a list is spread over several, by name an object is merged into the
other arguments and replaces those of its names, an empty one vanishes; an empty
list has no pair in a query and no element in a SOAP envelope.

## 3. Runs

| Run | Instance | Shows |
|---|---|---|
| `pipeline` | nine stages with their real flags, one delivery, one attempt per stage, one crash; a job and up to two retries of it with any `from_stage` | success is served, rollback undoes, failure can be resumed, no stage is skipped, the lineage implements `JobLifecycle` |
| `duplicates` | two deliveries of a two-stage job, two attempts, one crash, fairness | success stays complete, the shared log consistent, every accepted job ends unless something crashed |
| `stream` | two writers of three events that may reopen the status or die, two tries per append, one client | numbering, cursor, end of the stream |
| `breaker` | a native and an HTTP operation, three calls, threshold 2, restarts | truthful gauge, bounded overload |
| `recovery` | one HTTP operation, two calls, threshold 2, an upstream that recovers for good, no restart | **violated**: `RecoveryResets`, what `docs/troubleshooting.md:116` promises (section 5) |
| `registry` | up to four versions, two requests of eight kinds; serial with two errors, any overlap without errors, overlap of those that lock several rows with one error | one active version, compensation, rollback, reconciliation, no endless wait |
| `access` | a token, a policy of two contents, three requests; serial with errors, the safe overlap, any overlap with one error | the gateway follows the rows, revoked tokens are gone, reconciliation heals |
| `review` | two requests at a time, four roles, histories of nine steps, with and without scope | state and history agree, gates need their role, notes are kept |
| `toolcall` | two calls of a polled job, a stream and a native operation, one token, threshold 1 | implements `RuntimeProxy`, shares and renews the token, every call of an HTTP upstream ends unless answers dribble for ever |
| `deployments` | two jobs of one or of two services with one label, two attempts, two failures | versions do not disturb each other, leftovers are explained |
| `contents` | every shape of source under every name, way and probe, with misleading words, options, three websites, an LLM, parameter lists with and without a payload | the eight properties of the data path |
| `sessions` | every transport, four items, two idle timeouts (one below and one above the read timeout) | truthful answers, every session ends once a gRPC reflection has been answered |

Why the bounds are enough: two attempts (in `duplicates`) are a first, a retried
and a last one, while `pipeline` has one attempt per stage, because a lineage of
three jobs is large and the theorems hold for any number of attempts; one crash
ends the only execution; two retries are what it takes to inherit a `from_stage`; with three calls and threshold 2 calls admitted by a closed breaker
fail and succeed after it has opened; two overlapping requests are what a lost
update, a stale read or a lock cycle of this code needs (four versions leave a
cycle between a deletion with its replacement and the deletion of the service),
and the third of
`access` is the one that reads what two left behind; nine history entries reach
`deployed` with one rejection on the way; token lifetimes lie below, at and above
margin plus request time; four items make two events with a line to spare, at
`max_events` 2. The contents instance is finite by nature: one of each kind of
declaration.

`CHECK_DEADLOCK` is off where the modelled work ends (jobs, requests, sessions);
it is on for the breakers, which always serve.

Fairness: the API's event loop keeps serving a request and a worker keeps
executing a task it has taken (weak fairness of the handler's steps and of each
delivery). Nothing is assumed about crashes; `AcceptedEnds` promises nothing
after one, because the code has no recovery of a job whose worker died. In
`EventStream` each writer and the polling loop are weakly fair; a writer may die
instead. In `ArtifactRegistry` a request that can step does, and PostgreSQL's
deadlock detection, which runs after `deadlock_timeout`, counts as such a step. In
`ToolCall` and `Sessions` coroutines and threads run and time passes; strongly so
in `ToolCall`, because calls that come one after the other could otherwise keep
the clock from ever moving, which no real sequence of calls does. Native
executors, the reflection service, upstreams and clients may do nothing at all,
and an answer may arrive bit by bit for ever: `CallsEnd` has the hypothesis that
the answer to this call and those of the token endpoint do not
(`NoEndlessAnswer`). In `recovery` clients keep calling every operation and an
admitted call of a healthy upstream is answered, which is the situation the
documentation describes.

## 4. Proofs

`CompileWorkflowProofs` proves, for any set of deliveries, number of stages and
attempts, choice of stage flags, requests and crashes (`ConstantsAssumption`
only says that the constants have the right types):

* `TypeCorrect`: `TypeOK` needs one strengthening, `AttemptLeft`: between the
  test `attempt < max_attempts` and the next attempt lies a store call.
* `SuccessIsComplete`: the inductive invariant `CompleteInv` adds `LoopProgress`,
  which says for each control point which stages `stage_results` has: those from
  the first requested stage up to the loop variable, with or without the
  current one. `mark_job_succeeded` is only reached with all of them.
* `OutcomeIsFinal` (of `TerminalFinal`): `FinalInv` says that the only execution
  of a finished job is past its last status write, and that nothing runs before
  the message is sent. Any other writer would be a second execution.
* `LogAccountsForAttempts`: `LogInv` says what an execution in its attempt loop
  has logged so far; other executions only add rows.
* `RollbackUndoes`: `EffectsInv` says of a sole execution that the effects of the
  stages in `stage_results` are in place until it starts to compensate (a failed
  attempt concerns the current stage only), and that the stages it has already
  walked back over are undone, or were captured as there before, and logged.
* `SuccessServes`, about the lineage of `CompileRetry`, if messages are delivered
  once. `EffectsInv` covers the stages the job itself runs; for those before the
  stage it was resumed at, `AccountInv` keeps an account along the lineage: each
  effect up to the stored checkpoint exists for the version that the checkpoint
  describes, or a logged rollback took it away. A retry passes the account on,
  and a request that resolves starts right behind its checkpoint.
* `FailureIsResumable`: `ResumeInv` says at each control point which boundary the
  stored checkpoint belongs to. It lags by one stage between an activity and
  `update_checkpoint`; no status is written in between.
* `ImplementsLifecycle`: each step of a job, and each retry of it, is a step or a
  stutter of `JobLifecycle`. `LifeInv` adds to `EffectsInv` which status the row can have at
  each control point. The theorem has the hypothesis that there is at most one
  delivery, which is not an assumption of the module: with two, the first item
  of section 5 is a counterexample, and the theorems above that do not need the
  hypothesis are stated without it.
* `ResumingSkipsNothing`, about the lineage of `CompileRetry`, with duplicate
  deliveries: `LineageInv` says that the stages up to the stored checkpoint were
  completed by this job or an earlier one, and those up to the checkpoint of the
  request by earlier ones. Only resolved requests reach the stage loop
  (`OnlyResolved`), so the loop starts right behind what is done.

About the event table of `EventStream` (`StreamSpec`) it proves, for any number of
writers and tries:

* `NumberingIsGapless`: `NumberInv` says that a number a writer holds extends the
  committed ones without a gap, and that a flushed number is neither committed
  nor flushed twice.
* `CursorLosesNothing`: with gapless numbers, a row that is committed now is past
  every committed row, so it is past the cursor and past the batch
  (`CursorInv`).

`RuntimeProofs` proves of the breakers (`RuntimeProxy`), for any operations,
threshold and finite number of concurrent calls, `AlertsAreTruthful`,
`FailuresAreBounded` and `OpenBreakersStay`: an open breaker without a call in
flight never closes and admits nobody, which is why `RecoveryResets` fails. `OverloadBounded` is not inductive:
`Reserved` adds that each call in flight of an open breaker has one of the
remaining failures reserved, which holds because the set of calls in flight can
only shrink while the breaker is open.

`ToolCallProofs` proves, for any operations, calls, timeouts and token lifetimes:

* `CallsImplementProxy`: every step of a call is a step or a stutter of
  `RuntimeProxy`, so what is proved there holds of the detailed calls. `Seen` is
  the refinement mapping; a call counts in flight from its admission, so the
  lock, the token, the polls and the session are stutters, and each answer is
  exactly one of the ways to end.
* `TokensAreSound`: `CacheInv` says that the cached expiry never exceeds what the
  token has to live, although it was computed from a clock read before the
  answer, and that only the holder of the lock asks the endpoint.

`ReviewWorkflowProofs` proves, for any number of concurrent requests, any roles
and any length of history, `HistoriesAgree`, `GatesHold` and `NotesStay`. The
properties speak of committed rows, but a commit writes what its handler
computed from a row that others may have replaced since, so `ReviewInv` says of
the pending records as well that the history is a chain of legal transitions
from draft to the state. A handler assigns both columns or neither
(`Typed`), hence a commit that overwrites another one takes state and history
from the same record. `GatesPassed` follows by reading such a chain from its
newest entry back: only one transition enters each gated state.

`DeploymentsProofs` proves, for any finite set of jobs, any services and labels,
and any number of attempts, polls and failures, `JobsAreIsolated` and
`CleanupIsComplete`. `IsolationInv` has a part for all jobs (`BaseInv`: rows
belong to the job that picked their number, resources and pods carry the name of
the job they come from) and a part for a job that shares its name with nobody
(`Undisturbed`: what it applied is there, and of other resources no more than
the failures account for). `Alone` is not stable, because another job can pick
the same number later, so the invariant is an implication and a job that gains
company drops out of it. That a free number is always found is a pigeonhole
argument (`LastVersionFree`), the reason for `IsFiniteSet(Jobs)`.

`ArtifactRegistryProofs` proves, for any number of versions, any finite set of
requests and all regimes:

* `RegistryTypes`, and `AtMostOneActive`: `LockInv` says what an open transaction
  holds, or has still to lock: the rows its commit is about and, if it activates a version, the key
  of the unique index, which no two hold. `delete_version` acts on an `is_active`
  it read without a lock; when it has a replacement it holds the key, and the
  active version can only be the deleted one or the replacement.
* `ReconciliationHeals`: without overlap the rows are still those that were read,
  and a route is as expected or one of the calls that are left makes it so
  (`HealInv`).
* `CompensationIsComplete`: `RestoreInv` says route by route that it is as it was
  found, or is in `previous_routes`, or will be by the calls that are left.
* `RollbackJobIsTruthful`: `TruthInv` follows `RollbackWorkflow.run` and both
  restore paths: where the default route leads, which version is active and
  which runtimes exist at each control point, with at most one failure or one
  redelivery so far. An error after the commit of `activate_version` is such a
  failure: the restore is skipped, and the target is in service.

`GatewayBindingProofs` proves, for any tokens, policies (at least one object,
`BindingAssumption`), contents and number of requests, `ReconciliationHeals`,
`RevocationReachesGateway` and `GatewayFollowsRows`. `BindingInv` says of every
object that the gateway has the document of its row, or of the one transaction
that has told it and not yet committed; that transaction holds the row, so no
other is ahead of it. A request that holds nothing writes nothing: an update
that asked for what it had read, or the removal of what is already gone. The
first breaks the agreement, so the invariant is stated object by object for
those without such an update, and tokens have none.

`RuntimeProofs` proves of `Sessions`, for any set of transports, limits,
timeouts and length of the stream, `SessionTypes` and `AnswersTellTheTruth`.
`SessionTruthful` speaks of the answer; what makes it true was collected before.
So `SessionInv` says at every moment which events the collector holds: for SSE
the complete blocks of the lines read so far, in order, with the lines since the
last blank one as the pending event (`SseCollected`), for the other transports
what was read, one event per message (`MessagesCollected`), and never more than
the limit (`WithinLimit`). A line either extends the pending block, closes it,
or is dropped; the lemmas on `Blocks` say what the complete blocks are after
each. The reasons for the end follow from the guards: a timer that expired, an
end that was read.

`StageContentsProofs` proves all eight properties of the data path, for any set
of jobs and websites: sources of any number of items of any name, with any
document shape, name and probe, any pages and lost requests, and any answers of
the LLM. What it assumes are types and finiteness: a source is a finite sequence
of items that have a verb (`JobsAssumption`), a website has finitely many links
per page and its `Allow` headers are taken without the methods that the code
drops when it reads them (`Website`), the limits of the enhancer are positive
and a call's cost is bounded (`EnhancementAssumption`), the seeds and common
sub-resources are finite sets of paths (`DiscoveryAssumption`), a parameter list
is a sequence of names other than the path parameter's (`ParamListsAssumption`).
The argument:

* `CostsAreBounded`: a batch calls the LLM only after it has read the usage, and
  with the semaphore at most `Concurrency` calls are in progress; so usage plus
  the most that the calls in progress can cost stays below the bound.
* The inductive invariant of the others is `ControlInv /\ StageInv`. `ControlInv`
  ties the stage to the protocol that was detected. `StageInv` follows the
  service: `ServiceKept` says that at each stage it is, operation by operation,
  what the extractor made, up to what later stages may change (`SameCore`: never
  the id, method, contract, risk, template or body); `References` and `Checked`
  what holds of it once derived and validated; `Flagged` and `Running` that
  manifest and runtime were made of this very service; `Tried` that the smoke
  call and the audit were chosen from that runtime.
* `DetectionIsSound` compares the eleven confidences for every shape, name and
  set of words; the detector's first maximum is characterised by lemmas.
* `MethodsStayReachable`: each merging pass keeps, for every observed path and
  method, an endpoint whose template covers the path. That covering is
  transitive and that the chosen subsumer exists (`Subsumers` has an element
  with the most template segments) are lemmas of their own.
* `ToolsAreCallable` and `ValidationIsHarmless` go through the extractors one by
  one: what contract, method and risk each gives an operation, and what the
  pre-deploy checks, the flags and the executors make of each contract.
* `ArgumentsAreSentOnce` and `ErrorsAreReported` go through the payloads and the
  envelopes of each protocol. The positions of a JSON-RPC call are a
  concatenation over the parameter list; `FlattenSeqPlaces` says that an element
  is where its index points as long as all before it have one position each.

An extractor's operations are a concatenation over the items of the source, and
batches, suffixed ids and templates are sequences as well. The library's
induction theorems cannot be used, so the lemmas about them take the least
number for which a claim fails (`LeastNumber`, from the well-foundedness of the
natural numbers) and derive a contradiction from the step before.

The proof of `ArgumentsAreSentOnce` changed the property. That the sample of every
tool the smoke test may pick can be sent does not hold of a `GET` with a raw
request body, which the OpenAPI extractor accepts (`openapi.py:651`): the sample
of its payload has no content and the runtime refuses to send it. The instance
of `contents` had no such operation; it has one now, and the property names the
exception.

Apart from `TypeCorrect`, `RegistryTypes`, `SessionTypes`, `OutcomeIsFinal` and
`OpenBreakersStay`, every theorem states a property that a run checks as well. The mutants of
`PROJECT.json` violate it there, which shows that its premises are met in
reachable states.

Only model-checked: the liveness properties (`AcceptedEnds`, `StreamCloses`,
`RequestsEnd`, `CallsEnd`, `SessionsEnd`), because fairness is out of the
prover's reach. Every invariant and every other action property of a run is
proved.

## 5. Where code and documentation differ

The models follow the code. What it does against what a doc, a comment or a
test of the repository says, or against what its callers expect:

* **Status diagram.** Two deliveries that pass the duplicate test take a finished
  job back to `running` (`compile_workflow.py:165`), although
  `docs/architecture.md:329` has no way back.
* **Route rollback.** A route attempt that failed after it took effect is
  captured as the previous state, and the rollback restores it
  (`production.py:1188`; `docs/architecture.md:349`).
* **Refused jobs.** When `apply_async` raises after the broker took the message,
  or the commit after it fails, the row is deleted and 503 answered, but the
  worker inserts the row again and runs the job (`compilations.py:308`).
* **Retry without `from_stage`** of a job that was itself resumed is accepted and
  can never run (`compilations.py:233`; `docs/api-reference.md:176` promises 409).
* **Resuming a rolled back job** at its failed stage succeeds without the
  deployment that the rollback deleted (`compile_workflow.py:246`): the
  checkpoint still says that deploy is done. It is the exception of
  `SucceededServes`.
* **Retry from the last checkpoint.** `docs/troubleshooting.md:369` says so of a
  retry without `from_stage`; the code starts at detect again, or at the stage
  the original was resumed at (`compilations.py:201`).
* **Terminal event.** The stream closes on the terminal status, which is
  committed before the terminal event (`compilations.py:526`). A duplicate
  execution that reopens the status with `mark_job_running` and then dies leaves
  the stream polling.
* **Breakers never recover.** `before_request` refuses every call of an open
  breaker, so no request can succeed (`circuit_breaker.py:21`);
  `docs/troubleshooting.md:116` says that one successful request resets it. The
  run `recovery` checks that promise and TLC violates it: the finding of
  `PROJECT.json`.
* **Version numbers.** Two jobs of one service can pick one number, and the
  loser's rollback deletes the winner's resources (`production.py:1507`); so it
  is with two service ids of one label (`generic_mode.py:275`).
* **Rollback job.** A redelivered rollback that fails to deploy deletes the
  runtime of the active version; an error before the executor's `try` leaves the
  job running (`executor.py:89`). An error after the commit of
  `activate_version` (`repository.py:571`) makes the job fail with the target in
  service.
* **Audit.** A tool with numeric path parameters that was called and failed is
  reported as skipped (`audit.py:98`).
* **Smoke test.** Any ToolError, also one of the runtime itself, comes back as
  an MCP error and passes as `upstream_error` (`production.py`,
  `build_streamable_http_tool_invoker`).
* **Broker tools.** Nothing connects an `EventBridgeClient`: every broker call
  fails, or gets the stub's placeholder with status ok. The webhook buffer has no
  caller that fills it.
* **SSE idle timeout.** Its default of 15 s exceeds the HTTP client's read timeout
  of 10 s, so a silent stream ends as a counted timeout rather than as
  `idle_timeout`. The overall timeout and a gRPC error drop what was collected.
* **Cancelled calls.** A cancelled command is not killed; the thread of a
  cancelled gRPC call runs on to its deadline.
* **Calls without a limit.** The gRPC reflection has no deadline
  (`grpc_stream.py:63`, `grpc_unary.py:49`), the SQL executor no timeout
  (`sql.py:90`), and the timeout of httpx is that of one read: a token endpoint
  that sends its answer bit by bit holds the OAuth lock, and every call that
  needs a token waits.
* **Requests.** A query parameter of a write without a declared body goes into
  the JSON body (`proxy_http.py:109`); positional JSON-RPC arguments shift when
  one is left out or a payload list is empty or has several elements, a named
  payload object replaces arguments of its names and vanishes when it is empty,
  and `"error": null` counts as an error (`proxy_enterprise.py`); an empty list
  in a query is signed and not sent; a multipart upload without files is sent url-encoded;
  an argument that has the name of the API key parameter is overwritten; the
  runtime refuses the validator's sample of a `GET` with a raw body; error
  envelopes of an unexpected content type with a 2xx status pass as results.
* **Extraction.** A path that ends in `$metadata` takes a recognised document to
  the OData extractor; a text that only mentions the marks of a protocol (`rpc`,
  `openapi`, a WSDL or EDMX tag) can go to its extractor, which then fails; an OpenAPI operation with callbacks is listed and cannot
  be called; AsyncAPI descriptors are always refused before deployment; the
  client-stream opt-in of gRPC never compiles; a declared CLI risk `dangerous`
  without `writes_state` can be the smoke operation; a confidence of the LLM
  outside 0..1 fails validation; `_SIBLING_COALESCE_THRESHOLD` has no effect.

## 6. Not modelled, and plan

Not modelled: JWT validation, policy evaluation, IR composition and diff (pure
functions of one request without state between calls), truncation and
sanitising of answers, the consuming loops of broker clients that are never
connected, the parsing of documents and schemas, prompt and template texts, the
SQL statements of the native SQL executor, the web UI, command line, proof
runner and mocks.

Next: policy evaluation and IR composition as operators against reference
definitions.
