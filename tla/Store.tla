------------------------------- MODULE Store -------------------------------
(***************************************************************************)
(* What every process of the batch system shares: the Postgres tables      *)
(* "batches" and "requests", the "batch-output" rows of table "files", the *)
(* storage directory, and the way a process works on them.                 *)
(*                                                                         *)
(* Every process is a sequence of awaited database round trips; one round  *)
(* trip is one atomic step.  Between a load and the SaveChangesAsync that  *)
(* follows it the process only holds a copy: the DbContext.  bctx and rctx *)
(* are the contexts' identity maps, holding each tracked row AS LOADED.    *)
(* SaveChangesAsync writes the columns whose value was changed from that   *)
(* copy and no other column; no entity has a concurrency token, so it      *)
(* never notices that the row has moved on (MergeBatch, MergeRequest).     *)
(***************************************************************************)
EXTENDS Integers, FiniteSets

CONSTANTS
    Batch,      \* batches that may be created
    Request,    \* one per non-blank line of the batches' input files
    Worker,     \* GPU worker pods
    Handler,    \* HTTP requests the gateway may be serving at once
    Scheduler,  \* the one SchedulerService pod
    None,       \* SQL null
    BatchOf,    \* the batch whose input file holds the line
    LineOf,     \* its line number
    HashOf,     \* its input hash
    PriorityOf, \* priority of a batch
    PoolOf,     \* GPU_POOL of a worker pod
    IdOf,       \* WORKER_ID of a worker pod: replicas of a deployment share it
    TakeLimit,  \* batches the scheduler takes per tick (10 in the code)
    Limit       \* how many of each environment event a behaviour may have

Spot == "spot"
Dedicated == "dedicated"
Pools == {Spot, Dedicated}

Actor == Worker \cup {Scheduler} \cup Handler
Finalizing == Worker \cup {Scheduler}

EventKind == {"upload", "lost", "cancel", "retry", "hangup",
              "crash", "fault", "abort", "deadline"}

ASSUME StoreAssumption ==
    /\ IsFiniteSet(Batch)
    /\ BatchOf \in [Request -> Batch]
    /\ LineOf \in [Request -> Nat]
    /\ DOMAIN HashOf = Request
    /\ PriorityOf \in [Batch -> Int]
    /\ PoolOf \in [Worker -> Pools]
    /\ DOMAIN IdOf = Worker
    /\ TakeLimit \in Nat
    /\ Limit \in [EventKind -> Nat]
    /\ Worker \cap Handler = {}
    /\ Scheduler \notin Worker \cup Handler
    /\ None \notin Batch \cup Request \cup Worker

VARIABLES
    batches,    \* table "batches"
    requests,   \* table "requests"
    inputs,     \* a batch's input file: its bytes on disk, its row in "files"
    outRows,    \* "batch-output" rows in table "files", per batch
    disk,       \* output-{batchId}.jsonl in the storage directory
    due,        \* the batch is within the escalation threshold of its deadline
    pc,         \* where each process is
    cur,        \* the batch it works on
    job,        \* the request it works on
    bctx, rctx, \* identity maps of its DbContext
    spent       \* environment events so far, bounded by Limit

dbVars == <<batches, requests, outRows>>
procVars == <<pc, cur, job, bctx, rctx>>
storeVars == <<batches, requests, inputs, outRows, disk, due,
               pc, cur, job, bctx, rctx, spent>>

----------------------------------------------------------------------------
(* Rows.  A request that no SaveChangesAsync has inserted yet is "absent". *)

BatchStatus == {"absent", "queued", "running", "completed", "failed", "cancelled"}
\* DeadLettered is left out: nothing sets it.
RequestStatus == {"absent", "Queued", "Running", "Completed", "Failed", "Cancelled"}

\* out is the OutputFileId: 0 for null, k for the k-th output row of the batch;
\* at stands for CreatedAt.
BatchRow == [status : BatchStatus, pool : Pools, out : Nat, at : Nat]

\* output is the request whose inference produced the OutputPayload; orig is
\* OriginalRequestId, and IsDeduplicated is orig # None (both are set together).
WorkerIds == {IdOf[w] : w \in Worker}
RequestRow == [status : RequestStatus, pool : Pools, worker : WorkerIds \cup {None},
               output : Request \cup {None}, orig : Request \cup {None}, at : Nat]

\* SQL null is no row and no text.
ASSUME RowAssumption == None \notin BatchRow \cup RequestRow \cup RequestStatus

NoBatch == [status |-> "absent", pool |-> Spot, out |-> 0, at |-> 0]
NoRequest == [status |-> "absent", pool |-> Spot, worker |-> None,
              output |-> None, orig |-> None, at |-> 0]

RequestsOf(b) == {r \in Request : BatchOf[r] = b}

\* Counted by the finalizers as still to be done.  (Variant: only the queued.)
OpenVariant(row) == row.status = "Queued"
Open(row) == row.status \in {"Queued", "Running"}
\* (Variant: only the completed requests are done.)
RemainingVariant(b) == {r \in RequestsOf(b) : requests[r].status # "Completed"}
Remaining(b) == {r \in RequestsOf(b) : Open(requests[r])}

\* One line of the output file: the payload, or the serialized error and status.
Line(row) == IF row.output # None THEN row.output ELSE row.status
Lines == Request \cup RequestStatus

OutputFile == [state : {"missing", "partial", "written"},
               lines : [Request -> Lines \cup {None}]]
NoLines == [r \in Request |-> None]

----------------------------------------------------------------------------
(* DbContext *)

NoBatchesTracked == [b \in Batch |-> None]
NoRequestsTracked == [r \in Request |-> None]

\* A query returns the instance the context already tracks, not a fresh copy.
BatchSeenBy(a, b) == IF bctx[a][b] = None THEN batches[b] ELSE bctx[a][b]
RequestSeenBy(a, r) == IF rctx[a][r] = None THEN requests[r] ELSE rctx[a][r]

Column(row, old, new) == IF new # old THEN new ELSE row

MergeBatch(row, old, new) ==
    [status |-> Column(row.status, old.status, new.status),
     pool   |-> Column(row.pool, old.pool, new.pool),
     out    |-> Column(row.out, old.out, new.out),
     at     |-> row.at]

\* (Variant: every column is written, as DbContext.Update would.)
MergeRequestVariant(row, old, new) == new
MergeRequest(row, old, new) ==
    [status |-> Column(row.status, old.status, new.status),
     pool   |-> Column(row.pool, old.pool, new.pool),
     worker |-> Column(row.worker, old.worker, new.worker),
     output |-> Column(row.output, old.output, new.output),
     orig   |-> row.orig,
     at     |-> row.at]

----------------------------------------------------------------------------
(* Processes *)

\* Process a goes to label l holding nothing: its context is disposed of.
Release(a, l) ==
    /\ pc' = [pc EXCEPT ![a] = l]
    /\ cur' = [cur EXCEPT ![a] = None]
    /\ job' = [job EXCEPT ![a] = None]
    /\ bctx' = [bctx EXCEPT ![a] = NoBatchesTracked]
    /\ rctx' = [rctx EXCEPT ![a] = NoRequestsTracked]

Spend(kind) ==
    /\ spent[kind] < Limit[kind]
    /\ spent' = [spent EXCEPT ![kind] = @ + 1]

StoreInit ==
    /\ batches = [b \in Batch |-> NoBatch]
    /\ requests = [r \in Request |-> NoRequest]
    /\ inputs = [b \in Batch |-> "none"]
    /\ outRows = [b \in Batch |-> 0]
    /\ disk = [b \in Batch |-> [state |-> "missing", lines |-> NoLines]]
    /\ due = [b \in Batch |-> FALSE]
    /\ pc = [a \in Actor |-> "idle"]
    /\ cur = [a \in Actor |-> None]
    /\ job = [a \in Actor |-> None]
    /\ bctx = [a \in Actor |-> NoBatchesTracked]
    /\ rctx = [a \in Actor |-> NoRequestsTracked]
    /\ spent = [k \in EventKind |-> 0]

FinalizerLabels == {"finLoad", "finCount", "finFailed", "finRead",
                    "finOpen", "finWrite", "finSave"}
WorkerLabels == {"idle", "locked", "claim", "process", "mcLoad", "mcSave",
                 "mfLoad", "mfSave", "down"} \cup FinalizerLabels
SchedulerLabels == {"idle", "next", "reject", "lines", "escSave"} \cup FinalizerLabels
HandlerLabels == {"idle", "cancelRequests", "cancelSave", "retrySave"}

StoreTypeOK ==
    /\ batches \in [Batch -> BatchRow]
    /\ requests \in [Request -> RequestRow]
    /\ inputs \in [Batch -> {"none", "onDisk", "registered", "lost"}]
    /\ outRows \in [Batch -> Nat]
    /\ disk \in [Batch -> OutputFile]
    /\ due \in [Batch -> BOOLEAN]
    /\ pc \in [Actor -> WorkerLabels \cup SchedulerLabels \cup HandlerLabels]
    /\ cur \in [Actor -> Batch \cup {None}]
    /\ job \in [Actor -> Request \cup {None}]
    /\ bctx \in [Actor -> [Batch -> BatchRow \cup {None}]]
    /\ rctx \in [Actor -> [Request -> RequestRow \cup {None}]]
    /\ spent \in [EventKind -> Nat]
============================================================================
