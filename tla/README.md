# Batch inference: TLA+ model, checks and proofs

The repository (`src/`) is a batch inference service. A client uploads a JSONL
file and creates a batch; a scheduler splits the file into requests; GPU worker
pods of two pools (*spot*, which may be interrupted, and *dedicated*) serve the
requests; whoever finishes the last one writes the batch's output file. All
coordination goes through one Postgres database: there are no messages and no
locks held between two round trips. What can go wrong is therefore the
interleaving of loads and saves of several pods, and that is the core of the
model. Three smaller models stand beside it: the idle time of the pull loops, the
portal between browser and gateway, and the client-side validation of its forms.

## 1. Inventory

| component | source | state it keeps | operations |
|---|---|---|---|
| Database, EF contexts | `Shared/Models.cs` | tables `batches`, `requests`, `files`; per scope a `DbContext` with its identity map | queries, `SaveChangesAsync`, raw `UPDATE`s |
| Worker pull loop and repository | `GpuWorker/WorkerPullLoop.cs`, `RequestRepository.cs` | the request being served | dequeue, claim, complete, fail, requeue |
| Simulated inference | `GpuWorker/Worker.cs` | none | succeed; on spot, be interrupted |
| Finalization (two copies) | `GpuWorker/RequestRepository.cs:173-243`, `SchedulerService/BatchSchedulerWorker.cs:331-410` | anyFailed, the lines, an open file | load, count, count failed, read, write, save |
| Scheduler tick | `SchedulerService/BatchSchedulerWorker.cs` | list of queued batches, identity map of the tick | ingest, reject, escalate |
| Scheduling rules | `SchedulerService/SchedulingLogic.cs` | none | pool from the deadline, worker counts |
| Deduplication | `SchedulerService/DeduplicationService.cs` | none | hash, newest completed request of that hash |
| Gateway writers | `ApiGateway/Program.cs`, `Services/` | none between requests | upload, create, cancel, retry |
| Gateway readers, metrics | `ApiGateway/Program.cs`, `BatchMetricsUpdater.cs` | gauges | status, lists, counts |
| Idle backoff | `GpuWorker/BackoffStrategy.cs`, `WorkerPullLoop.cs` | next delay, started or not | next, reset |
| Portal pages and client | `BatchPortal/Pages/`, `Services/BatchApiClient.cs` | the TempData cookie | create, cancel, retry, details, list |
| Portal scripts and toasts | `BatchPortal/wwwroot/js/site.js`, the scripts of the pages | the refresh interval, the toast shown | toggle, refresh, show, hide |
| Form validation | `wwwroot/lib/jquery-validation-unobtrusive/`, and what it drives of `jquery-validation` | parsed rules, the validator, remote checks under way | parse, attach, check, submit, remote answer, reset |
| Worker scaler | `SchedulerService/WorkerScaler.cs` | none | compare (nothing calls it) |
| Health, metrics, hosts, migrations, deployment | rest | flags, counters | start-up, configuration |

**How they interact.** Gateway, scheduler and workers only share the database
and one storage directory. The gateway inserts batches (`queued`). The
scheduler's tick loads at most ten of them, inserts their requests and sets the
batch `running`, all with one context per tick; it then escalates requests of
batches near their deadline with a second context. A worker selects one queued
request of its pool, commits, and claims it with a conditional `UPDATE`; it
reports the outcome by loading the row and saving it. The worker after each
outcome, and the scheduler after each ingestion, try to finalize the batch.

**What is hard.** Every save writes back columns of a copy loaded some round
trips ago, and nothing carries a concurrency token; the two finalizers of one
batch write one file; a queued batch can be cancelled while the scheduler is
splitting it; an escalation can change the pool of a request that is being
served; a crash may come between any two round trips.

**What makes each component correct.** Database: a save of an older copy never
undoes what it did not mean to change. Worker: one worker per claimed request,
from its own pool; completed means there is an output; an interruption requeues.
Finalizer: an output file only when nothing is left, always in the end, whole
on disk. Backoff: the delay follows the idle time, and no queued request waits for
longer than one maximal delay. Portal: no message that is not true, and a page
that refreshes itself catches up. Form validation: a form that is checked is
sent with accepted values only, and every click on submit is decided. Scheduler: each file is split once, near deadlines are escalated,
copied outputs are sound. Gateway: cancelling takes nothing away from a worker
and lasts; only failed requests are retried.

## 2. Modules

| module | what it holds |
|---|---|
| `Store` | constants, tables, storage directory, process state, EF's identity map and column-wise save |
| `Finalizer` (extends `Store`) | the seven round trips of finalization, for workers and for the scheduler |
| `Worker` (extends `Finalizer`) | pull loop, repository, inference, faults, crash and restart |
| `SchedulerService` (extends `Finalizer`) | the tick: ingestion, rejection, deduplication, escalation, abandoned ticks |
| `Gateway` (extends `Store`) | upload, create, cancel, retry, clients that hang up |
| `BatchSystem` | the composition: `Init`, `Next`, `Spec`, `FairSpec`, `TypeOK` |
| `BatchProperties` | what the system promises |
| `WorkQueue` | the abstract queue: what `IRequestRepository` promises, every operation atomic |
| `Readers` (extends `BatchSystem`) | status and output endpoints, metrics updater, the portal's list, query by query |
| `BatchInvariants` | the inductive invariants |
| `BatchTypes_proofs`, `BatchSafety_proofs`, `BatchClaims_proofs`, `BatchResults_proofs`, `Readers_proofs` | theorems and proofs, each module resting on those before it |
| `Backoff`, `Backoff_proofs` | the pull loops with time; theorems and proofs |
| `Adapters` | markup of an input to the rules of its form, pure operators |
| `Validation` (extends `Adapters`), `Validation_proofs` | one form: parsing, checking, remote checks, submit, reset; theorems and proofs |
| `Portal`, `Portal_proofs` | tabs, pages, the TempData cookie, calls to the gateway, auto-refresh, toasts; theorems and proofs |
| `MCBatchSystem`, `MCReaders`, `MCBackoff`, `MCValidation`, `MCPortal` | instances for TLC |

**State and code.** `batches`, `requests`, `outRows` are the tables, a row that
does not exist being `absent`. `disk` is `output-{batchId}.jsonl`, `inputs` the
uploaded file. Each process `a` (worker, scheduler, gateway handler) has a
control point `pc[a]`, the batch `cur[a]` and the request `job[a]` it works on,
and the identity map of its context: `bctx[a]`, `rctx[a]`, each tracked row *as
loaded*. One awaited database or file round trip is one action; between two of
them anything may happen. Control points are named after the call that comes
next (`claim`, `mcLoad`, `mcSave`, `finCount`, ...).

**EF Core** (external, in `Store`). A tracked query returns the instance the
context already tracks (`BatchSeenBy`, `RequestSeenBy`), never a fresh copy.
`SaveChangesAsync` writes the columns whose value differs from the loaded copy
and leaves the others alone (`Column`, `MergeBatch`, `MergeRequest`). Two
consequences carry most of the properties: an escalation that saves an old copy
changes nothing but the pool, and the scheduler, which inserted the requests,
reads them back from its context without what workers did since.

**Abstractions.** `StartedAt`, `CompletedAt`, `ErrorMessage`, names and payload
text are left out, and so is the request status `DeadLettered`, which nothing
sets (`src/README.md:285`): an output is the request whose inference produced it, a line
of the output file is that or the status the serialized error would give.
`CreatedAt` is the order of creation (`at`) and the line number. Which of several
duplicates has the newest `CompletedAt` depends on the clocks of several pods, so
any of them may be chosen. A deadline is the flag `due`, set by the environment
at any moment; that is all `DetermineGpuPool` sees of time. There is one request
per non-blank line, a constant, and hashes do not collide (`HashOf`). The row
lock of the dequeue lasts from its `SELECT` to its commit. A fault is raised
before the call it hits has any effect; one raised after a commit is the fault
at the next control point, which the model also has. The scheduler is one pod,
as in `k8s/scheduler`. `WORKER_ID` is the same for all replicas of a deployment
(`IdOf`), so no property relies on it being unique. The check for deduplicated
requests in `Worker.cs:57-66` cannot be reached: `DequeueAsync` never returns one.

**The abstract queue.** `WorkQueue` has no loads, copies or saves: a request is
waiting, held, abandoned, done, failed or withdrawn, has one holder at most, and
only its holder finishes it, fails it or gives it back. `BatchProperties` maps
the system to it: a worker holds a request from its claim to the save of its
outcome or of its error while the row says `Running` (`Holds`, `HolderOf`); the
phase is the row's status, `Running` without a holder being abandoned
(`PhaseOf`). `ImplementsQueue` then says that every step of the system is one
operation of the queue or none. One operation is there because the code does it:
`Spoil`, an answered request that fails afterwards (`completed_fails` below).

**Readers.** A reader's step is one query. There is one reader: readers write
nothing, so two of them never matter to each other or to the system. The gauge
has the interval between its count and its update; the list its total and one
count per status in the code's order. The other figures of the portal are single
queries. The lock a reader holds on the output file makes a finalizer's open
fail, which is a fault at `finOpen`.

**Backoff.** A loop is at `dequeue`, `locked` (its `SELECT ... SKIP LOCKED` has
returned, its transaction has not committed), `claim`, `serve` or `delay`. A
request is `new`, `queued` or `taken`: its outcome does not matter here. A round
trip takes no time, because the shortest delay is 250 ms; `Tick` is the passing
of one unit, when every loop is in `Task.Delay` or serves. `slept` and `age` are
histories for the properties; the cap of `slept` keeps it finite and loses
nothing, because it is only compared under the same cap.

**Portal.** One gateway call is one step (`Gateway` has its round trips), refused
when the batch is not in the right state, or failing, or carried out with its
reply lost. `call[t]` is the request a tab has in flight and how far the handler
behind it is; a navigation (`Request`), the auto-refresh included, drops it, and
the gateway's part may still be carried out. The message of a handler is put in
one cookie for all tabs (`jar`), which each request carries as it was when it was
sent and each response updates (`JarAfter`). Loading the list or the details page
may throw, which gives the error page (`LoadFails`). A batch stands with one request
that can fail; progress bars, lists of requests and paging are left out. The rest of
the system is the portal's environment, and does what `cancel_undone` shows: the
scheduler sets a batch cancelled meanwhile running again, once (`Starts`), and a
finalizer saves its status over a cancellation (`Completes`).

**Form validation.** A value is `empty`, `good`, `bad` (a local rule rejects it)
or `taken` (only the server does). `form` is the record of the validator
(`submitted`, `invalid`, `errorMap`, `pending`, `pendingRequest`,
`formSubmitted`, the cache `previousValue` of each remote input) with what the
page shows (`box` for `data-valmsg-for`, `summary`). Every handler is a function
from form to form: `Form`, `Element`, `Submitted`, `StopRequest`, `Cleared`.
Scripts hide and show inputs (`hidden`), which `form()` and `resetForm()` then
leave alone (`Elements`); an input without rules is still checked when it is left
or typed in, and joins the map `invalid`. Rules are checked in their order (`Place`,
`Reached`): one without a method throws (`Throws`), which ends the check (`Tried`)
and, in the submit handler, lets the form go. A button of class `cancel` or with
`formnovalidate` sends it without a check (`Bypass`). Both end in the outcome
`unchecked`, as a form without a validator does; `sent` is a form that was checked.
Leaving the input that an `equalTo` rule names checks the repeating one (`Repeat`).
Each
event is one action, as JavaScript runs them; an ajax answer is an event of its
own (`Answer`), which may come after edits, after a newer question that aborted
it, after a reset, or not at all (`Lose`). The forms of the portal's present
pages use little of this: only the Create page's priority carries
`data-val-required`, no page has a remote rule or adds inputs. The module states
what the library the pages load promises to any form.

## 3. Properties and runs

Bounds are the sets of each `.cfg` and `Limit`, the number of times each kind of
environment event may happen (upload, lost input, cancel, retry, hang-up, crash,
fault, abandoned tick, deadline). Nothing else needs a bound: every variable is
finite, since `outRows` and `at` grow with finalizations and creations only.
`TakeLimit` is the code's 10. Deadlock is not checked, because a system whose
batches are all finished and whose clients are done rightly has nothing to do.

Two workers, one per pool, are enough for a race on one request (after an
escalation or a requeue they compete for it) and for two finalizers of one batch;
the scheduler is the third finalizer. Two requests are the least for which "the
last one" differs from "mine". Three requests in two batches are needed to copy
a line from one batch to the other while a line of its own is still to do.

| run | instance | checks | shows |
|---|---|---|---|
| `duplicates` | 2 batches sharing a line, of different priorities, a dedicated worker only, a deadline, an abandoned tick; fair | `DuplicateSound`, `IngestedOnce`, `CompletedHasOutput`, `DeadlineEscalates`, `DuplicatesFinalize` | copied outputs are sound, files are split once; escalation happens while nobody serves spot; the scheduler finalizes a batch without work |
| `cancels` | 1 batch, a cancellation and a deadline at any moment; fair | `DedicatedWork`, `LastOneFinalizes`, `CancelledStays`, `FinalizedWhenDone`, `ImplementsQueue`, `EveryBatchFinishes`, `EveryBatchFinalizes` | stale saves take no request from its worker; cancelling is final for requests; a batch with nothing left to run is in somebody's hands, and it ends, with an output exactly when all is done unless it was cancelled |
| `rough` | 1 batch, one crash, fault, retry, hang-up, lost input file | `TypeOK`, `ClaimExclusive`, `CompletedHasOutput`, `FinalizedMeansDone`, `ImplementsQueue` | claims are exclusive, a retried request is again served once, no batch is finalized with work left, still an atomic queue |
| `readers` | 1 batch and a reader, a lost input file | `StatusConsistent`, `OutputServed`, `ListShowsOpen`, `ProcessedNeverDrops` | what is shown is old but consistent; the output endpoint serves a whole file or fails |
| `backoff` | 2 workers, 2 requests, delays 1, 2, 4, 5, a fault; fair | `BackoffTypeOK`, `DelayMatchesIdle`, `WaitBounded`, `QueuedIsTaken` | the delay is the idle time; no request waits longer than a maximal delay while a worker sleeps; each is taken |
| `remote_form` | 4 inputs: one checked by the server, one that has to repeat it, one whose rule has no method, one that a script adds; the first three may be hidden; a bypassing button, 3 edits, 1 lost answer; fair | `ValidationTypeOK`, `SentIsValid`, `CountInStep`, `RefusalTold`, `ErrorIsLive`, `ClickSettles` | a checked form is sent with accepted values; the count of pending checks is exact; a refusal is listed, no error in sight is left behind, a waiting click is decided |
| `portal` | 2 tabs, 1 batch that may be set running again, 5 clicks, 2 faults; fair | `PortalTypeOK`, `ToastsAreTrue`, `RefreshCatchesUp` | no toast says what did not happen, on whatever tab it ends up; a page that refreshes itself catches up |

In `cancels` and `rough` the two workers compete for one request after an
escalation or a requeue between their pools: both select it, and the claim
decides. In `readers`, the sum of the list's counts is no property: while it is
taken, a second finalizer can change `completed` to `failed` (or back), and the
batch is counted in neither; `ListShowsOpen` is what remains true.

Bounds of the smaller models. `backoff`: two workers are what one of them may
miss a request for, because the other has it locked; a maximal delay that is no
power of two times the first one makes the cap matter; `FaultLimit` bounds the
round trips that fail. `remote_form`: `EditLimit` 3 lets a value be asked about,
changed and changed back while the first answer is under way; `LostLimit` 1
leaves one answer out; hiding and showing an input count as edits, so that one can be
hidden while its answer is under way and shown again. A rule without a method is on
an input of its own, above one and below others, so that there are fields on both
sides of the exception. `portal`: `ClickLimit` 5 is a creation (two clicks), a
visit of the second tab, and two cancellations, or a cancellation and a retry, that
meet; refreshes are not counted. `FaultLimit` 2 lets a reply be lost and a page
fail. Deadlock is not checked in `remote_form`, whose form leaves the page
when it is sent, and in `portal`, whose user stops clicking.

**Fairness.** `FairSpec` is weak fairness of each worker's next step, of the
scheduler's and of each handler that has begun: `WorkerPullLoop.RunAsync` and
`BatchSchedulerWorker.ExecuteAsync` loop until the host stops, each `await`
returns, and Kubernetes restarts a pod that went down. Clients, deadlines,
faults and crashes are never forced. Weak fairness suffices because a worker's
step stays enabled until it is taken or another worker takes the request.

`Backoff` has weak fairness of each loop and of time, for the same reasons.
`Validation` has weak fairness of each answer, written with the condition that
enables it (`Due`): a request is answered unless it is lost, and `ClickSettles`
excepts a lost one. `Portal` has weak fairness of each
interval (it keeps firing) and strong fairness of each tab's page: a new
navigation may overtake a page that needs more than five seconds again and again,
but not for ever.

## 4. Where the code does not do what is said of it

Each has a run that TLC must find violated (`expect: violation`).

| run | property | what happens |
|---|---|---|
| `cancel_undone` | `CancelIsFinal` | the scheduler (`BatchSchedulerWorker.cs:201`) or a finalizer (`RequestRepository.cs:239`) saves a status computed from an older copy over `cancelled` |
| `interruption_fails` | `InterruptionRequeues` | `MarkFailedAsync` (`RequestRepository.cs:135`) decides on the row's pool; an escalation while the spot worker serves it makes the interruption a terminal failure |
| `completed_fails` | `CompletedStays` | two finalizers open one path with `FileShare.None`; the exception of the second reaches the pull loop's `catch`, which fails a completed request |
| `output_stale` | `OutputComplete` | the scheduler reads the lines from the context that inserted them and writes errors for requests workers completed meanwhile |
| `retry_race` | `FinalizedWhenDone` | a retry between the count and the save: the batch is finalized with a queued request |

Other limits the model has, without a run of their own, because no property of
the code is to be had there:

- nothing looks for `Running` requests whose worker is gone (crash, SIGTERM,
  exception in `MarkFailedAsync`): they and their batch stay as they are;
- a tick abandoned between the save of a batch of duplicates and its
  finalization leaves the batch `running` for ever (`BatchSchedulerWorker.cs:205-211`);
- two retries of one request at once: the second takes it back from the worker
  that claimed it in between, and two workers serve it (`Program.cs:331`);
- cancelling updates the queued requests before it saves the batch; requests
  inserted or requeued afterwards are still served (`Program.cs:364-373`), and
  a client that hangs up between the two leaves a batch with nothing to run.

- the strategy is reset by a successful claim (`WorkerPullLoop.cs:66`), where
  `src/README.md:489` says "after a successful dequeue": a worker that lost a
  claim keeps its long delay;
- the interval of the details page navigates whatever is in flight
  (`Details.cshtml:638`): a cancel or retry it drops may be carried out and is
  never confirmed, where `src/README.md:803` has a toast confirm it; after a lost
  reply the Create page says "Unable to create batch" although there is one, and
  `RetryRequestAsync` reports a refusal;
- `GetOutputPreviewAsync` (`BatchApiClient.cs:54`) sends no `X-User-Id`, which
  the endpoint requires: there is no preview (`src/README.md:741`);
- the list's auto-refresh compares with "Queued" and "Running"
  (`Pages/Batches/Index.cshtml:321`) and is never turned on by itself
  (`src/README.md:773`);
- the Create page's file input shows the lines of whichever file was read last
  (`Create.cshtml:150`), also of a replaced one, and hides its error line as soon
  as it has been shown (`Create.cshtml:158`);
- `jquery.validate.unobtrusive.js`: `addSingleVal` asks for attribute "val" by
  default and then reads another one (`:335`), `addMinMax` ignores attribute names
  of the caller's when it reads (`:309`), an input parsed after the form's
  validator exists is not enforced (`:161`), one parsed with `skipAttach`, as the
  comment at `:183` advises, not either when nothing attaches afterwards;
- the comment at `jquery.validate.unobtrusive.js:367` has the `extension` attribute
  fall back on "the 'accept' method", which the loaded `jquery.validate.js` does not
  have either; nor has it `creditcard` (`:373`) or the `extension` that
  `fileextensions` sets (`:427`). A check that reaches such a rule throws
  (`jquery.validate.js:798`): the fields below are not checked, and the submit
  handler is left before it can hold the form back. If the check is the one that
  the last answer of the server starts, the click that waited is neither refused
  nor sent (`interrupted`);
- inputs that are not visible are not checked (`jquery.validate.js:656`), whatever
  rules they have, and a reset leaves their cached verdict and their class alone;
- a remote request that fails has no handler (`jquery.validate.js:1588`): its
  field stays pending and the click waits until the field is asked about again.

So `ClaimExclusive` is claimed for one retry at a time, `FinalizedWhenDone`,
`FinalizedMeansDone` and `StatusConsistent` without retries, `OutputServed`
without a lost writer, `ListShowsOpen` without cancellations, `LastOneFinalizes`
without crashes, abandoned ticks and hang-ups, `EveryBatchFinalizes` without crashes,
`DuplicatesFinalize` without an abandoned tick, `EveryBatchFinishes` without
hang-ups, and `SentIsValid` for the visible inputs of a form that was checked.
`ToastsAreTrue` lets a refused cancel follow a cancellation that the scheduler has
undone since: the toast then stands on the page of a batch that is open again.
`RefreshCatchesUp` is satisfied when the error page replaces the details page, which
has no interval and stays until the user goes elsewhere.

## 5. Proofs

`StoreAssumption` types the constants (any finite set of batches, any sets of
requests, pods and handlers, any limits, hence any number of faults, crashes,
cancellations and retries at once; SQL null is none of them); `RowAssumption`
says SQL null is no row and no text. TLC evaluates both in every run.

**`TypeCorrect`: `Spec => []TypeOK`.** Types alone are not inductive: a save
merges the row with the copy in the context, which has to be a row and not
`None`. `TypeInv` adds what each process holds at each control point: a busy
worker has a request and its batch, at `mcSave` and `mfSave` the loaded row, past
`finLoad` the loaded batch; the scheduler tracks its current batch and all those
on its list; a handler has what it loaded. The proof is per process: `OnlyMoves`
says a step touches the context of its own process alone, so only that process's
part (`Own`) has to be shown again; one lemma per component, one case per action.

**`IngestOnce`, `CompletedOutput`, `DedicatedServesDedicated`.** `SafeInv` is
`IngestInv /\ OutputInv /\ PoolInv`.
- `IngestedOnce` is not inductive: the scheduler's list is old. `IngestInv` says
  that a batch nobody ingested has no requests, that this is so for every batch
  on the list and the current one, *whatever their rows say now* (they may have
  been cancelled), and that the current one has left the list. It survives
  `SaveIngested` of another batch because the list holds each batch once.
- `CompletedHasOutput`: the stored status and output may come from different
  saves. `OutputInv` adds that an output once stored is never lost, so a save that
  found it in its copy may skip the column, and that entities about to be
  inserted are sound.
- `DedicatedWork`: `PoolInv` extends it to every control point from the dequeue
  on; it holds because no save ever writes `spot`.

All three rest on one argument. `KeepsRows` states four facts of a row (it stays
in the table, keeps its output, keeps the dedicated pool, is completed only with
an output) and `KeepsBatches` one of a batch (it does not become queued). Every
step of a worker, a handler, a client or the escalation keeps them, however old
the copy it saves (`WorkerMoves`, `FinMoves`); the only exception, the insertion
by the scheduler, meets absent rows only, by `IngestInv`. `OthersSafe` then gives
the invariant for the processes that did not move.

**`ExclusiveClaims`, `CancellationsStand`: `Spec /\ []OneRetry => ...`.** A save
of an old copy is not harmless for the status of a row, so `KeepsRows` does not
help. `ClaimInv` says instead that the copy is not old: from its claim on a
worker *owns* its row (`Owner`), until it has requeued or failed it or has left
the finalizer; the row of an owner is running (completed, in the finalizer), its
copy has the row's status (`OwnedRow`), and a row has one owner (`OwnerOnly`).
`WorkerStays` gives a worker's step (it changes its own row only, as owner or by
claiming a queued one), `ScheduledRows` the scheduler's (no status and no worker
of a row in the table changes). Cancelling changes queued rows, which have no
owner. The retry is the delicate one: it writes `Queued` over whatever the row
has become, and the row is still `Failed` (`RetryHeld`) only if no other retry
of the same request is in flight. That is the hypothesis `OneRetry`; without it
the theorems are false (section 4). `CancelledStays` follows from the same
invariant step by step (`CancelSteps`).

**`QueueImplemented`: `Spec /\ []OneRetry => ImplementsQueue` (`BatchClaims_proofs`).** The whole system
is a refinement of `WorkQueue`. `OwnerOnly` makes `HolderOf`, a `CHOOSE`, the one
worker that holds the request (`Holders`), so a step can be judged one request at
a time: `QueueStutters`, `QueueClaims`, `QueueReleases`, `QueueGivesBack`,
`QueueRequeues` and `QueuePromotes` say what has to happen to which entry for a
step to be an operation of the queue. `WorkerImplements` then goes through the
worker's steps (a load never changes the queue; a save does what its copy says
because `OwnedRow` makes the copy's status the row's), `GatewayImplements` and
`SchedulerImplements` through the others: a cancellation withdraws all waiting
requests of its batch at once, an ingestion enters a whole batch of absent rows
(`ListIsAbsent`) with the pool and the statuses the scheduler prepared
(`InsertedSound`), an escalation, however old its copies, only promotes.

**`DuplicatesSound` (`BatchResults_proofs`).** `AnswerInv`: every output is one
for the request's own input; a request answered from an earlier one is completed
and its original has an output; *no worker and no retry ever holds such a
request*; and the entities the scheduler has prepared are already so, since it
looked their originals up some steps before it inserts them. The saves of all
other processes satisfy `KeepsAnswers` (an output may only become the row's own,
and an answered row keeps its status), because they touch queued, failed or held
rows only. No hypothesis is needed.

**`DoneWhenFinalized`, `FinalizesWhenDone`.** A finalizer counts without a lock
and saves several round trips later. `DoneInv` says why that is enough: the
requests of a batch are all in the table or none is (`WholeBatches`), so a count
of zero means that all are in a final state (`NothingRemains`); a final state is
never left (`FinalStays`), so this holds until the save, for every finalizer past
its count and for every batch that has an output file (`CountedBy`, `OutputsBy`).
`FinalStays` needs `ClaimInv`, for a worker's late save could otherwise requeue a
finished request, and needs that no retry is in flight: the theorems are
conditional on `spent["retry"] = 0`, as the properties are, and `retry_race`
shows that without it they are false.

**`LastFinalizes`: `Spec => []LastOneFinalizes`.** The safety half of
`EveryBatchFinalizes`, for all constants: a running batch with nothing left to run
and no output file is being finalized, or about to be cancelled. A finalizer can
leave a batch in four ways, and each has to be shown harmless. It counts something
left: then the batch is not settled, and whoever settles it later starts a count of
its own after its save, or is a cancellation (`FinishedBy`). Its copy of the batch already has an output
file: then the row has one too. It finds the file open: then the process that holds
it open is another finalizer of the same batch. It saves: then the row gets its
output file because the copy had none, `SaveChangesAsync` writing changed columns
only. `CopiesInv` states what these need of the copies of batches in all contexts,
`FinishesBatch` goes through the four, and `KeepsFinalizing` through everything else:
a worker that meets a fault marks its request failed and comes back. A crash, an
abandoned tick and a hang-up are excluded by the property; faults are not.

**Readers (`Readers_proofs`).** A reader changes nothing (`ReadersRefine`), so all
the invariants above hold under readers. A property of a reader is then a fact that
is true at its first query and outlives what the system does before its last:
- `GaugeNeverDrops`: the count of processed batches only grows (`ProcessedGrows`),
  so `GaugeInv`, gauge <= count taken <= count now, is inductive.
- `ConsistentStatus` (no retry): `StatusInv` says that a running or completed batch
  has all its requests in the table, and that a completed or failed one is `Past`:
  all its requests are final, or it has none and is not on the scheduler's list
  (a rejected batch), so that none will come. `PresentStays` and `PastStays` carry
  this from the load of the batch to the counts (`SeenInv`), whatever the batch's
  own status has become.
- `WholeFilesServed` (no crash, fault or abandoned tick): `FilesInv`. A row with an
  `OutputFileId` has a file; a closed file has all lines; a partial one is open.
  `FinFrom` says where a finalizer comes from, `DiskMoves` that only finalizers
  touch the files. With a writer lost the last part is false: a partial file then
  stays under the path of a batch that may have an output row.
- `OpenListed` (no cancellation): `CountsInv` says that the counts shown so far
  cover the old batches still queued, then still open. The sets of such batches only
  shrink (`OldShrinks`): a batch created meanwhile is younger than the total, and a
  batch becomes running only when it was queued, which needs that nobody closes a
  batch on the scheduler's list (`ListOpen`) but a client (`NoneCancelled`).
TLC checked these invariants on three instances first (a retry and a lost file, a
cancellation, two batches).

**`DelaysMatchIdleTime`, `WaitsAreBounded`, `BackoffTypes` (`Backoff_proofs`).** For any sets of
workers and requests and any delays with `0 < Initial <= MaxDelay`
(`BackoffAssumption`). The first rests on one fact of arithmetic (`Doubling`):
doubling the capped sum of slept time and first delay, and capping again, gives the
capped sum after that delay. The second needs to know why a request can be queued
while a worker sleeps. `WaitInv` says: either a loop that is awake has it in hand
(so no time passes before that loop claims, loses or drops it), or its age plus
what is left of each sleeper's delay is within the budget, `(faults + 1) *
MaxDelay`. A loop that begins to sleep found nothing unlocked, so what is queued
then is in hand; a loop that drops a request fails, which pays for one more delay.

**`OnlyValidIsSent`, `CountIsExact`, `ValidationTypes`, `RefusalsTold`,
`ErrorsAreLive` (`Validation_proofs`).** For any form, any
markup (`RepeatAssumption`: an input repeated is there from the start and by one
other only), any number of edits, lost answers, late and hidden inputs. `RemoteInv` says of each
field: while it is not pending nothing of it is under way; its cached verdict is
then the server's verdict on the cached question; and a question under way is the
cached one, unless a reset has emptied the cache since. A form is sent when a check
finds no error and leaves nothing pending. A field that asks the server is then
not asked again, so its cached question is the present one, and not wrong, so the
cached verdict is an acceptance. That the count is exact is needed for "leaves
nothing pending": it is the number of pending fields because an answer always finds
its field pending. `Agree` keeps the handlers apart from what only shows messages.
The proof of `SentIsValid` also needs the exception: a check that throws is not
one that finds nothing (`Thrown`), so every visible field was checked, and each of its
rules was reached and has a method, because it passed.
The three theorems of what is shown rest on `PageInv`: the fields that are submitted,
pending or bound have rules (those that are invalid need not); a field in the error list is `Live` (submitted,
invalid or pending) and not in the list of successes; a box that shows an error is
one of a live field, or of one that has been hidden (`concealed`: a check of the form
or a reset passes over it while its box stays as it is); a field without an element for its message shows none; and a
refused click leaves a summary that lists something. `SameShownKeeps` gives it for the handlers that show nothing,
and one lemma for each of those that do.

**`PortalTypes`, `ToastsTrue` (`Portal_proofs`).** For any tabs, batches and
limits. A message travels from the gateway's answer into the cookie, from there
into every request of every tab, and into a page: `PortalInv` says of each of
these places that what stands there is true *of the batch it is about* (`Said`),
that pages and requests name batches that exist, and that two requests never
create one batch. The gateway only ever makes more of this true (`Keeps`:
batches go on existing, what has happened has happened; that a batch is closed
is *not* among it, for the scheduler may open it again), so old copies of the cookie do no harm; `Moves` carries it to the
tabs that did not step, `TabSteps` to the one that did. `ResultIsSaid` is the
heart: the message a handler writes is true when it is written, a refusal to
cancel included, which is only ever given for a batch that is not open, and such a
batch was cancelled or finalized before.

**Only model-checked.** Every invariant and action property of a passing run is
stated by a theorem. What remains are the liveness properties (`EveryBatchFinishes`,
`EveryBatchFinalizes`, `DeadlineEscalates`, `DuplicatesFinalize`, `QueuedIsTaken`,
`ClickSettles`, `RefreshCatchesUp`): they need fairness and `ENABLED`, which are out
of the prover's reach.

## 6. Not modelled, and the plan

Not modelled because nothing but text, counters or configuration is in them:
presentation helpers, page markup, metrics counters, hosts, migrations,
deployment. The worker scaler compares two numbers and nothing calls it. The
file input of the Create page is one reader callback, described in section 4.
jQuery Validate's own ways to declare rules, its groups and its focus handling
are left out: the unobtrusive library uses none of them. Planned, in this order:

1. the other readers: dashboard counts, paging, derived flags of the portal's
   mapper, each computed from one query;
2. the gateway's parsing of pool, priority and completion window.
