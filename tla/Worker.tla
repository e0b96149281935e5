------------------------------- MODULE Worker -------------------------------
(***************************************************************************)
(* A GPU worker pod: WorkerPullLoop, RequestRepository and the simulated   *)
(* inference of GpuWorkerService.                                          *)
(***************************************************************************)
EXTENDS Finalizer

(* DequeueAsync: one transaction that selects the first queued request of   *)
(* the pool FOR UPDATE SKIP LOCKED and commits.  The commit releases the    *)
(* row lock, so all it does is make concurrent dequeuers choose other rows. *)
LockedRows == {job[w] : w \in {v \in Worker : At(v, "locked")}}

\* (Variant: the pool is not compared.)
CandidatesVariant(pool) ==
    {r \in Request : requests[r].status = "Queued" /\ requests[r].orig = None} \ LockedRows

Candidates(pool) ==
    {r \in Request : /\ requests[r].status = "Queued"
                     /\ requests[r].pool = pool
                     /\ requests[r].orig = None} \ LockedRows

\* ORDER BY Priority DESC, CreatedAt ASC.  Lines of one file are created in
\* order, files in the order in which they are ingested.
Before(r, s) ==
    LET p(x) == PriorityOf[BatchOf[x]]
    IN  \/ p(r) > p(s)
        \/ p(r) = p(s) /\ requests[r].at < requests[s].at
        \/ p(r) = p(s) /\ requests[r].at = requests[s].at /\ LineOf[r] < LineOf[s]

DequeueSelect(w) ==
    /\ At(w, "idle")
    /\ \E r \in Candidates(PoolOf[w]) :
          /\ \A s \in Candidates(PoolOf[w]) \ {r} : ~Before(s, r)
          /\ job' = [job EXCEPT ![w] = r]
          /\ cur' = [cur EXCEPT ![w] = BatchOf[r]]
    /\ pc' = [pc EXCEPT ![w] = "locked"]
    /\ UNCHANGED <<dbVars, inputs, disk, due, spent, bctx, rctx, finVars>>

DequeueCommit(w) ==
    /\ At(w, "locked")
    /\ pc' = [pc EXCEPT ![w] = "claim"]
    /\ UNCHANGED <<dbVars, inputs, disk, due, spent, cur, job, bctx, rctx, finVars>>

----------------------------------------------------------------------------
(* MarkRunningAsync: UPDATE ... WHERE Id = request AND Status = 'Queued'.   *)
(* (Variant: WHERE Id = request.)                                           *)
ClaimableVariant(r) == requests[r].status # "absent"
Claimable(r) == requests[r].status = "Queued"

MarkRunning(w) ==
    /\ At(w, "claim")
    /\ Claimable(job[w])
    /\ requests' = [requests EXCEPT ![job[w]].status = "Running",
                                    ![job[w]].worker = IdOf[w]]
    /\ pc' = [pc EXCEPT ![w] = "process"]
    /\ UNCHANGED <<batches, outRows, inputs, disk, due, spent, cur, job, bctx, rctx, finVars>>

\* No row was updated: another worker, or a cancellation, came first.
MarkRunningLost(w) ==
    /\ At(w, "claim")
    /\ ~Claimable(job[w])
    /\ Release(w, "idle")
    /\ UNCHANGED <<dbVars, inputs, disk, due, spent, finVars>>

----------------------------------------------------------------------------
(* Inference.  Only a spot worker can be interrupted.                       *)
Process(w) ==
    /\ At(w, "process")
    /\ pc' = [pc EXCEPT ![w] = "mcLoad"]
    /\ UNCHANGED <<dbVars, inputs, disk, due, spent, cur, job, bctx, rctx, finVars>>

SpotInterruption(w) ==
    /\ At(w, "process")
    /\ PoolOf[w] = Spot
    /\ err' = [err EXCEPT ![w] = "interruption"]
    /\ pc' = [pc EXCEPT ![w] = "mfLoad"]
    /\ UNCHANGED <<dbVars, inputs, disk, due, spent, cur, job, bctx, rctx, anyFailed, lines>>

----------------------------------------------------------------------------
(* MarkCompletedAsync and MarkFailedAsync: load the row, change the copy,   *)
(* save.  After the save the context tracks the row as saved.               *)
LoadJob(w, from, to) ==
    /\ At(w, from)
    /\ rctx' = [rctx EXCEPT ![w][job[w]] = requests[job[w]]]
    /\ pc' = [pc EXCEPT ![w] = to]
    /\ UNCHANGED <<dbVars, inputs, disk, due, spent, cur, job, bctx, finVars>>

SaveJob(w, new) ==
    requests' = [requests EXCEPT ![job[w]] = MergeRequest(@, rctx[w][job[w]], new)]

MarkCompletedLoad(w) == LoadJob(w, "mcLoad", "mcSave")

\* (Variant: the payload is not copied to the loaded entity.)
CompletedRowVariant(row, r) == [row EXCEPT !.status = "Completed"]
CompletedRow(row, r) == [row EXCEPT !.status = "Completed", !.output = r]

MarkCompletedSave(w) ==
    LET new == CompletedRow(rctx[w][job[w]], job[w])
    IN  /\ At(w, "mcSave")
        /\ SaveJob(w, new)
        /\ rctx' = [rctx EXCEPT ![w][job[w]] = new]
        /\ pc' = [pc EXCEPT ![w] = "finLoad"]
        /\ UNCHANGED <<batches, outRows, inputs, disk, due, spent, cur, job, bctx, finVars>>

MarkFailedLoad(w) == LoadJob(w, "mfLoad", "mfSave")

\* Decided on the pool of the row as loaded, not on the worker's own pool.
IsSpotInterruption(w) == rctx[w][job[w]].pool = Spot /\ err[w] = "interruption"

\* (Variant: the pool is kept.)
RequeuedRowVariant(row) == [row EXCEPT !.status = "Queued", !.worker = None]
RequeuedRow(row) == [row EXCEPT !.status = "Queued", !.pool = Dedicated, !.worker = None]

MarkFailedRequeue(w) ==
    /\ At(w, "mfSave")
    /\ IsSpotInterruption(w)
    /\ SaveJob(w, RequeuedRow(rctx[w][job[w]]))
    /\ Return(w)
    /\ UNCHANGED <<batches, outRows, inputs, disk, due, spent>>

FailedRow(row) == [row EXCEPT !.status = "Failed"]

MarkFailedSave(w) ==
    LET new == FailedRow(rctx[w][job[w]])
    IN  /\ At(w, "mfSave")
        /\ ~IsSpotInterruption(w)
        /\ SaveJob(w, new)
        /\ rctx' = [rctx EXCEPT ![w][job[w]] = new]
        /\ pc' = [pc EXCEPT ![w] = "finLoad"]
        /\ UNCHANGED <<batches, outRows, inputs, disk, due, spent, cur, job, bctx, finVars>>

----------------------------------------------------------------------------
(* Faults.  A database or file error inside MarkCompletedAsync is caught by *)
(* the pull loop; one inside MarkFailedAsync stops the host, which is the   *)
(* same as a crash there.  (An error reported after mcSave has committed is *)
(* a fault at finLoad.)  A crash, a SIGTERM or a host stop loses the pod's  *)
(* memory and leaves its rows as they are; Kubernetes starts it again.      *)
WorkerFault(w) ==
    /\ pc[w] \in {"mcLoad", "mcSave"} \cup FinalizerLabels
    /\ err[w] = "none"
    /\ Spend("fault")
    /\ Throw(w)
    /\ UNCHANGED <<dbVars, inputs, disk, due>>

WorkerCrash(w) ==
    /\ pc[w] \notin {"idle", "down"}
    /\ Spend("crash")
    /\ Release(w, "down")
    /\ anyFailed' = [anyFailed EXCEPT ![w] = FALSE]
    /\ lines' = [lines EXCEPT ![w] = NoLines]
    /\ err' = [err EXCEPT ![w] = "none"]
    /\ UNCHANGED <<dbVars, inputs, disk, due>>

WorkerRestart(w) ==
    /\ At(w, "down")
    /\ pc' = [pc EXCEPT ![w] = "idle"]
    /\ UNCHANGED <<dbVars, inputs, disk, due, spent, cur, job, bctx, rctx, finVars>>

WorkerStep(w) ==
    \/ DequeueSelect(w)
    \/ DequeueCommit(w)
    \/ MarkRunning(w)
    \/ MarkRunningLost(w)
    \/ Process(w)
    \/ SpotInterruption(w)
    \/ MarkCompletedLoad(w)
    \/ MarkCompletedSave(w)
    \/ MarkFailedLoad(w)
    \/ MarkFailedRequeue(w)
    \/ MarkFailedSave(w)
    \/ FinStep(w)
    \/ WorkerRestart(w)
============================================================================
