-------------------------- MODULE SchedulerService --------------------------
(***************************************************************************)
(* The scheduler pod: one tick of BatchSchedulerWorker ingests the queued  *)
(* batches it loaded, one after the other with one DbContext, then         *)
(* escalates the queued requests whose batch nears its deadline.           *)
(***************************************************************************)
EXTENDS Finalizer

VARIABLES
    todo,       \* batches of this tick's list not yet processed
    poolNow     \* initialPool of the batch being ingested

schedVars == <<todo, poolNow>>

SchedulerInit ==
    /\ todo = {}
    /\ poolNow = Spot

SchedulerTypeOK ==
    /\ todo \in SUBSET Batch
    /\ poolNow \in Pools

\* SchedulingLogic.DetermineGpuPool
\* (Variant: the deadline test is inverted.)
DetermineGpuPoolVariant(isDue, pool) == IF ~isDue /\ pool = Spot THEN Dedicated ELSE pool
DetermineGpuPool(isDue, pool) == IF isDue /\ pool = Spot THEN Dedicated ELSE pool

----------------------------------------------------------------------------
(* ProcessQueuedBatchesAsync *)

\* (Variant: batches that are being run are taken again.)
QueuedBatchesVariant == {b \in Batch : batches[b].status \in {"queued", "running"}}
QueuedBatches == {b \in Batch : batches[b].status = "queued"}

\* The oldest TakeLimit queued batches.
OldestQueued(T) ==
    /\ T \subseteq QueuedBatches
    /\ Cardinality(T) <= TakeLimit
    /\ \A b \in QueuedBatches \ T :
          /\ Cardinality(T) = TakeLimit
          /\ \A c \in T : batches[c].at <= batches[b].at

LoadQueued ==
    /\ At(Scheduler, "idle")
    /\ \E T \in SUBSET Batch :
          /\ OldestQueued(T)
          /\ todo' = T
          /\ bctx' = [bctx EXCEPT ![Scheduler] =
                         [b \in Batch |-> IF b \in T THEN batches[b] ELSE None]]
    /\ pc' = [pc EXCEPT ![Scheduler] = "next"]
    /\ UNCHANGED <<dbVars, inputs, disk, due, spent, cur, job, rctx, finVars, poolNow>>

\* Next batch of the list: look its input file up and fix its initial pool.
NextBatch ==
    /\ At(Scheduler, "next")
    /\ \E b \in todo :
          /\ \A c \in todo : bctx[Scheduler][b].at <= bctx[Scheduler][c].at
          /\ todo' = todo \ {b}
          /\ cur' = [cur EXCEPT ![Scheduler] = b]
          /\ pc' = [pc EXCEPT ![Scheduler] =
                       IF inputs[b] = "registered" THEN "lines" ELSE "reject"]
          /\ poolNow' = DetermineGpuPool(due[b], bctx[Scheduler][b].pool)
    /\ UNCHANGED <<dbVars, inputs, disk, due, spent, job, bctx, rctx, finVars>>

\* The input file is not there: the batch fails.
SaveRejected ==
    LET b == cur[Scheduler]
        old == bctx[Scheduler][b]
    IN  /\ At(Scheduler, "reject")
        /\ batches' = [batches EXCEPT ![b] =
                          MergeBatch(@, old, [old EXCEPT !.status = "failed"])]
        /\ Return(Scheduler)
        /\ UNCHANGED <<requests, outRows, inputs, disk, due, spent, schedVars>>

----------------------------------------------------------------------------
(* ProcessSingleBatchAsync *)

\* FindDuplicateAsync runs on its own context and sees committed rows only.
\* Which of several candidates has the newest CompletedAt depends on the
\* clocks of the pods that completed them: any may be returned.
\* (Variant: the hash is not compared.)
DuplicatesVariant(r) ==
    {d \in Request : requests[d].status = "Completed" /\ requests[d].output # None}

Duplicates(r) ==
    {d \in Request : /\ HashOf[d] = HashOf[r]
                     /\ requests[d].status = "Completed"
                     /\ requests[d].output # None}

\* Number of the ingestion, standing for CreatedAt of its requests.
Ingestion == Cardinality({b \in Batch : \E r \in RequestsOf(b) : requests[r].status # "absent"})

QueuedLine == [status |-> "Queued", pool |-> poolNow, worker |-> None,
               output |-> None, orig |-> None, at |-> Ingestion]

\* (Variant: the status stays Queued.)
DuplicateLineVariant(d) == [QueuedLine EXCEPT !.orig = d, !.output = requests[d].output]
DuplicateLine(d) == [QueuedLine EXCEPT !.status = "Completed", !.orig = d,
                                       !.output = requests[d].output]

\* The lines of the file that have no entity yet.
LinesLeft == {r \in RequestsOf(cur[Scheduler]) : rctx[Scheduler][r] = None}

AddLine(r, row) == rctx' = [rctx EXCEPT ![Scheduler][r] = row]

ReadLine ==
    /\ At(Scheduler, "lines")
    /\ \E r \in LinesLeft :
          /\ \A s \in LinesLeft : LineOf[r] <= LineOf[s]
          /\ \/ Duplicates(r) = {} /\ AddLine(r, QueuedLine)
             \/ \E d \in Duplicates(r) : AddLine(r, DuplicateLine(d))
    /\ UNCHANGED <<dbVars, inputs, disk, due, spent, pc, cur, job, bctx, finVars, schedVars>>

\* One SaveChangesAsync inserts every request and moves the batch to running.
SaveIngested ==
    LET b == cur[Scheduler]
        old == bctx[Scheduler][b]
        new == [old EXCEPT !.status = "running", !.pool = poolNow]
    IN  /\ At(Scheduler, "lines")
        /\ LinesLeft = {}
        /\ requests' = [r \in Request |-> IF BatchOf[r] = b THEN rctx[Scheduler][r]
                                                            ELSE requests[r]]
        /\ batches' = [batches EXCEPT ![b] = MergeBatch(@, old, new)]
        /\ bctx' = [bctx EXCEPT ![Scheduler][b] = new]
        /\ pc' = [pc EXCEPT ![Scheduler] = "finLoad"]
        /\ UNCHANGED <<outRows, inputs, disk, due, spent, cur, job, rctx, finVars, schedVars>>

----------------------------------------------------------------------------
(* EscalatePendingRequestsAsync, on a context of its own *)

\* Queued requests DetermineGpuPool moves; the others stay as they are loaded.
ToEscalate == {r \in Request : /\ requests[r].status = "Queued"
                               /\ DetermineGpuPool(due[BatchOf[r]], requests[r].pool)
                                     # requests[r].pool}

EscalateLoad ==
    /\ At(Scheduler, "next")
    /\ todo = {}
    /\ bctx' = [bctx EXCEPT ![Scheduler] =
                   [b \in Batch |-> IF b \in {BatchOf[r] : r \in ToEscalate}
                                    THEN batches[b] ELSE None]]
    /\ rctx' = [rctx EXCEPT ![Scheduler] =
                   [r \in Request |-> IF r \in ToEscalate THEN requests[r] ELSE None]]
    /\ pc' = [pc EXCEPT ![Scheduler] = IF ToEscalate = {} THEN "idle" ELSE "escSave"]
    /\ UNCHANGED <<dbVars, inputs, disk, due, spent, cur, job, finVars, schedVars>>

OnDedicated(row) == [row EXCEPT !.pool = Dedicated]

EscalateSave ==
    LET B == bctx[Scheduler]
        R == rctx[Scheduler]
    IN  /\ At(Scheduler, "escSave")
        /\ requests' = [r \in Request |->
                          IF R[r] = None THEN requests[r]
                          ELSE MergeRequest(requests[r], R[r], OnDedicated(R[r]))]
        /\ batches' = [b \in Batch |->
                          IF B[b] = None THEN batches[b]
                          ELSE MergeBatch(batches[b], B[b], OnDedicated(B[b]))]
        /\ Release(Scheduler, "idle")
        /\ UNCHANGED <<outRows, inputs, disk, due, spent, finVars, schedVars>>

----------------------------------------------------------------------------
(* An exception abandons the tick; a crash of the pod does the same to the  *)
(* tables, and the pod starts again with a new tick.                        *)
SchedulerAbort ==
    /\ ~At(Scheduler, "idle")
    /\ Spend("abort")
    /\ Release(Scheduler, "idle")
    /\ anyFailed' = [anyFailed EXCEPT ![Scheduler] = FALSE]
    /\ lines' = [lines EXCEPT ![Scheduler] = NoLines]
    /\ UNCHANGED <<dbVars, inputs, disk, due, err, schedVars>>

SchedulerStep ==
    \/ LoadQueued
    \/ NextBatch
    \/ SaveRejected
    \/ ReadLine
    \/ SaveIngested
    \/ FinStep(Scheduler) /\ UNCHANGED schedVars
    \/ EscalateLoad
    \/ EscalateSave
============================================================================
