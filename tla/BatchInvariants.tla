-------------------------- MODULE BatchInvariants --------------------------
(***************************************************************************)
(* The inductive invariants behind the theorems of the _proofs modules:    *)
(* what a process holds at each of its control points, and what the rows   *)
(* of a batch look like before it is ingested.                             *)
(***************************************************************************)
EXTENDS BatchProperties

Labels == WorkerLabels \cup SchedulerLabels \cup HandlerLabels

Busy(w) == pc[w] \notin {"idle", "down"}

\* A worker that left idle keeps its request until its context is gone; the
\* copies it is about to save have been loaded.
WorkerHolds(w) ==
    /\ Busy(w) => job[w] \in Request /\ cur[w] = BatchOf[job[w]]
    /\ pc[w] \in {"mcSave", "mfSave"} => rctx[w][job[w]] # None
    /\ pc[w] \in FinalizerLabels \ {"finLoad"} => bctx[w][cur[w]] # None

\* The scheduler tracks the batch it works on and those still on its list.
SchedulerHolds ==
    /\ pc[Scheduler] \in {"reject", "lines"} \cup FinalizerLabels =>
          cur[Scheduler] \in Batch /\ bctx[Scheduler][cur[Scheduler]] # None
    /\ pc[Scheduler] \notin {"idle", "escSave"} =>
          \A b \in todo : bctx[Scheduler][b] # None

HandlerHolds(h) ==
    /\ pc[h] \in {"cancelRequests", "cancelSave"} =>
          cur[h] \in Batch /\ bctx[h][cur[h]] # None
    /\ pc[h] = "retrySave" => job[h] \in Request /\ rctx[h][job[h]] # None

TypeInv ==
    /\ TypeOK
    /\ \A w \in Worker : WorkerHolds(w)
    /\ SchedulerHolds
    /\ \A h \in Handler : HandlerHolds(h)

----------------------------------------------------------------------------
(* A batch is split into requests once *)

Absent(b) == \A r \in RequestsOf(b) : requests[r].status = "absent"

\* A batch nobody has ingested has no requests in the table.
QueuedIsAbsent ==
    \A b \in Batch : batches[b].status \in {"absent", "queued"} => Absent(b)

\* The batches still on the scheduler's list, and the one it is about to
\* ingest, were queued when it loaded them and have not been ingested since:
\* nobody but the scheduler ingests.
ListIsAbsent ==
    /\ pc[Scheduler] \notin {"idle", "escSave"} =>
          \A b \in todo : Absent(b) /\ bctx[Scheduler][b].status = "queued"
    /\ pc[Scheduler] \in {"reject", "lines"} =>
          /\ Absent(cur[Scheduler])
          /\ bctx[Scheduler][cur[Scheduler]].status = "queued"
    /\ pc[Scheduler] \in {"reject", "lines"} \cup FinalizerLabels => cur[Scheduler] \notin todo

\* The requests processes work on are in the table, and stay there.
JobsPresent ==
    /\ \A w \in Worker : Busy(w) => requests[job[w]].status # "absent"
    /\ \A h \in Handler : pc[h] = "retrySave" => requests[job[h]].status # "absent"

IngestInv ==
    /\ QueuedIsAbsent
    /\ ListIsAbsent
    /\ JobsPresent

----------------------------------------------------------------------------
(* A completed request has its output *)

\* An output, once stored, is not lost, so that a save that finds one in its
\* loaded copy may leave the column alone.
OutputKept ==
    \A w \in Worker :
        pc[w] = "mcSave" /\ rctx[w][job[w]].output # None => requests[job[w]].output # None

\* The entities the scheduler is about to insert; it has none between batches.
InsertedSound ==
    /\ pc[Scheduler] \in {"idle", "next"} => \A r \in Request : rctx[Scheduler][r] = None
    /\ pc[Scheduler] = "lines" =>
          \A r \in Request : rctx[Scheduler][r] # None =>
              /\ rctx[Scheduler][r].status \in {"Queued", "Completed"}
              /\ rctx[Scheduler][r].status = "Completed" => rctx[Scheduler][r].output # None
              /\ rctx[Scheduler][r].pool = poolNow

OutputInv ==
    /\ CompletedHasOutput
    /\ OutputKept
    /\ InsertedSound

----------------------------------------------------------------------------
(* Dedicated workers run dedicated requests *)

PoolInv ==
    \A w \in Worker : Busy(w) /\ PoolOf[w] = Dedicated => requests[job[w]].pool = Dedicated
----------------------------------------------------------------------------
(* One worker decides the outcome of a request *)

\* The last step of a retry finds the request as the retry loaded it when no
\* other retry of the request is in flight.
OneRetry ==
    \A h, k \in Handler :
        pc[h] = "retrySave" /\ pc[k] = "retrySave" /\ job[h] = job[k] => h = k

\* The worker whose saves may still change the outcome of its request: from its
\* claim until it has failed or requeued it, or has left the finalizer.
Owner(w) ==
    \/ Serving(w)
    \/ pc[w] \in {"mfLoad", "mfSave"}
    \/ pc[w] \in FinalizerLabels /\ err[w] = "none"

\* Which errors a worker can be handling.
ErrorHeld(w) ==
    /\ pc[w] \in {"mfLoad", "mfSave"} => err[w] # "none"
    /\ pc[w] \notin {"mfLoad", "mfSave"} \cup FinalizerLabels => err[w] = "none"
    /\ err[w] = "interruption" => PoolOf[w] = Spot

\* What the row of its request, and its copy of it, say.
OwnedRow(w) ==
    /\ Serving(w) \/ Interrupted(w) =>
          requests[job[w]].status = "Running" /\ requests[job[w]].worker = IdOf[w]
    /\ pc[w] \in {"mfLoad", "mfSave"} => requests[job[w]].status \in {"Running", "Completed"}
    /\ pc[w] \in FinalizerLabels /\ err[w] = "none" => requests[job[w]].status = "Completed"
    /\ pc[w] = "mcSave" => rctx[w][job[w]].status = "Running"
    /\ pc[w] = "mfSave" => rctx[w][job[w]].status = requests[job[w]].status

OwnerOnly ==
    \A v, w \in Worker : Owner(v) /\ Owner(w) /\ job[v] = job[w] => v = w

\* A retry about to be saved finds the request failed.
RetryHeld == \A h \in Handler : pc[h] = "retrySave" => requests[job[h]].status = "Failed"

ClaimInv ==
    /\ \A w \in Worker : ErrorHeld(w) /\ OwnedRow(w)
    /\ OwnerOnly
    /\ RetryHeld
----------------------------------------------------------------------------
(* What a finished request and a finished batch say *)

\* An output is one for the request's own input; a row that is not in the table
\* has none and stands for no other.
SameInput ==
    \A r \in Request :
        /\ requests[r].output # None => HashOf[requests[r].output] = HashOf[r]
        /\ requests[r].status = "absent" => requests[r].output = None /\ requests[r].orig = None

\* A request answered from an earlier one is completed, and no process is about
\* to change it.
AnsweredStays ==
    /\ \A r \in Request : requests[r].orig # None =>
          requests[r].status = "Completed" /\ requests[requests[r].orig].output # None
    /\ \A w \in Worker : Busy(w) => requests[job[w]].orig = None
    /\ \A h \in Handler : pc[h] = "retrySave" => requests[job[h]].orig = None

\* So are the entities the scheduler has prepared.
PreparedSound ==
    pc[Scheduler] = "lines" =>
        \A r \in Request : rctx[Scheduler][r] # None =>
            /\ rctx[Scheduler][r].output # None => HashOf[rctx[Scheduler][r].output] = HashOf[r]
            /\ rctx[Scheduler][r].orig # None =>
                  /\ rctx[Scheduler][r].orig \in Request /\ rctx[Scheduler][r].status = "Completed"
                  /\ requests[rctx[Scheduler][r].orig].output # None

AnswerInv == SameInput /\ AnsweredStays /\ PreparedSound

\* A finalizer past its count.
Counted(a) == pc[a] \in FinalizerLabels \ {"finLoad", "finCount"}

\* The requests of a batch are all in the table or none is, and those of a batch
\* that is being finalized are.
WholeBatches ==
    /\ \A r, s \in Request : BatchOf[r] = BatchOf[s] /\ requests[r].status = "absent"
                                 => requests[s].status = "absent"
    /\ pc[Scheduler] \in FinalizerLabels =>
          \A r \in RequestsOf(cur[Scheduler]) : requests[r].status # "absent"

\* Nothing is left to run in a batch once that has been counted, as long as no
\* request is retried.
NothingLeft ==
    /\ \A h \in Handler : pc[h] # "retrySave"
    /\ \A a \in Finalizing : Counted(a) => Settled(cur[a])
    /\ \A b \in Batch : batches[b].out # 0 => Settled(b)

DoneInv ==
    /\ WholeBatches
    /\ spent["retry"] = 0 => ClaimInv /\ NothingLeft
----------------------------------------------------------------------------
(* The last one finalizes *)

\* A copy is one of a batch in the table, and a copy with an output file one of
\* a batch that has it; a finalizer goes on with a copy that has none, and a
\* cancellation with one of an open batch, so that their saves write what they
\* decided.
CopiesInv ==
    /\ \A b \in Batch : batches[b].status = "absent" => batches[b].out = 0
    /\ \A a \in Actor, b \in Batch :
          bctx[a][b] # None => /\ batches[b].status # "absent"
                               /\ bctx[a][b].out # 0 => batches[b].out # 0
    /\ \A a \in Finalizing :
          pc[a] \in FinalizerLabels \ {"finLoad"} => bctx[a][cur[a]].out = 0
    /\ \A h \in Handler :
          pc[h] \in {"cancelRequests", "cancelSave"} =>
              bctx[h][cur[h]].status \in {"queued", "running"}
============================================================================
