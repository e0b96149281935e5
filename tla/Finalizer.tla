----------------------------- MODULE Finalizer -----------------------------
(***************************************************************************)
(* Finalization of a batch: TryFinalizeBatchAsync of the worker and        *)
(* TryFinalizeBatchIfAllCompletedAsync of the scheduler, the same sequence *)
(* of round trips run on two different DbContexts.  A worker's context     *)
(* tracks only the request it has just saved; the scheduler's tracks the   *)
(* batch since the beginning of the tick and every request it inserted, so *)
(* its queries return those old instances.                                 *)
(***************************************************************************)
EXTENDS Store

VARIABLES
    anyFailed,  \* result of the "failed" count
    lines,      \* the lines about to be written
    err         \* worker: message of the exception MarkFailedAsync handles

finVars == <<anyFailed, lines, err>>

FinalizerInit ==
    /\ anyFailed = [a \in Finalizing |-> FALSE]
    /\ lines = [a \in Finalizing |-> NoLines]
    /\ err = [a \in Finalizing |-> "none"]

FinalizerTypeOK ==
    /\ anyFailed \in [Finalizing -> BOOLEAN]
    /\ lines \in [Finalizing -> [Request -> Lines \cup {None}]]
    /\ err \in [Finalizing -> {"none", "interruption", "error"}]

----------------------------------------------------------------------------
(* The call ends.  A worker is back in its pull loop with its context gone; *)
(* the scheduler goes to the next batch of the tick with the same context.  *)
Return(a) ==
    /\ anyFailed' = [anyFailed EXCEPT ![a] = FALSE]
    /\ lines' = [lines EXCEPT ![a] = NoLines]
    /\ err' = [err EXCEPT ![a] = "none"]
    /\ IF a = Scheduler
       THEN /\ pc' = [pc EXCEPT ![a] = "next"]
            /\ cur' = [cur EXCEPT ![a] = None]
            /\ rctx' = [rctx EXCEPT ![a] = NoRequestsTracked]
            /\ UNCHANGED <<bctx, job>>
       ELSE Release(a, "idle")

(* An exception leaves the call.  In a worker that was completing a request *)
(* the pull loop's catch block marks the request failed; in a worker that   *)
(* was already failing it nothing catches and the host stops.  In the       *)
(* scheduler the rest of the tick is abandoned.                             *)
Throw(a) ==
    /\ anyFailed' = [anyFailed EXCEPT ![a] = FALSE]
    /\ lines' = [lines EXCEPT ![a] = NoLines]
    /\ IF a \in Worker /\ err[a] = "none"
       THEN /\ err' = [err EXCEPT ![a] = "error"]
            /\ pc' = [pc EXCEPT ![a] = "mfLoad"]
            /\ bctx' = [bctx EXCEPT ![a] = NoBatchesTracked]
            /\ rctx' = [rctx EXCEPT ![a] = NoRequestsTracked]
            /\ UNCHANGED <<cur, job>>
       ELSE /\ err' = [err EXCEPT ![a] = "none"]
            /\ Release(a, IF a = Scheduler THEN "idle" ELSE "down")

At(a, l) == pc[a] = l

\* Load the batch; nothing to do when it already has an output file.
FinLoad(a) ==
    /\ At(a, "finLoad")
    /\ IF BatchSeenBy(a, cur[a]).out # 0
       THEN Return(a)
       ELSE /\ bctx' = [bctx EXCEPT ![a][cur[a]] = BatchSeenBy(a, cur[a])]
            /\ pc' = [pc EXCEPT ![a] = "finCount"]
            /\ UNCHANGED <<cur, job, rctx, finVars>>
    /\ UNCHANGED <<dbVars, inputs, disk, due, spent>>

\* Count the requests still queued or running; leave when there are any.
FinCount(a) ==
    /\ At(a, "finCount")
    /\ IF Remaining(cur[a]) # {}
       THEN Return(a)
       ELSE /\ pc' = [pc EXCEPT ![a] = "finFailed"]
            /\ UNCHANGED <<cur, job, bctx, rctx, finVars>>
    /\ UNCHANGED <<dbVars, inputs, disk, due, spent>>

FinFailed(a) ==
    /\ At(a, "finFailed")
    /\ anyFailed' = [anyFailed EXCEPT ![a] =
                        \E r \in RequestsOf(cur[a]) : requests[r].status = "Failed"]
    /\ pc' = [pc EXCEPT ![a] = "finRead"]
    /\ UNCHANGED <<dbVars, inputs, disk, due, spent, cur, job, bctx, rctx, lines, err>>

\* Read the batch's requests, as the context sees them, and render the lines.
FinRead(a) ==
    /\ At(a, "finRead")
    /\ lines' = [lines EXCEPT ![a] =
                    [r \in Request |-> IF BatchOf[r] = cur[a]
                                       THEN Line(RequestSeenBy(a, r)) ELSE None]]
    /\ pc' = [pc EXCEPT ![a] = "finOpen"]
    /\ UNCHANGED <<dbVars, inputs, disk, due, spent, cur, job, bctx, rctx, anyFailed, err>>

\* FileMode.Create with FileShare.None: truncates the file, or throws
\* IOException while another finalizer of the batch has it open.
Opened(b) == \E a \in Finalizing : At(a, "finWrite") /\ cur[a] = b

FinOpen(a) ==
    /\ At(a, "finOpen")
    /\ ~Opened(cur[a])
    /\ disk' = [disk EXCEPT ![cur[a]] = [state |-> "partial", lines |-> NoLines]]
    /\ pc' = [pc EXCEPT ![a] = "finWrite"]
    /\ UNCHANGED <<dbVars, inputs, due, spent, cur, job, bctx, rctx, finVars>>

FinOpenFails(a) ==
    /\ At(a, "finOpen")
    /\ Opened(cur[a])
    /\ Throw(a)
    /\ UNCHANGED <<dbVars, inputs, disk, due, spent>>

\* Write the lines and close the file.  (Variant: not closed before the save.)
WrittenVariant(a) == [state |-> "partial", lines |-> NoLines]
Written(a) == [state |-> "written", lines |-> lines[a]]

FinWrite(a) ==
    /\ At(a, "finWrite")
    /\ disk' = [disk EXCEPT ![cur[a]] = Written(a)]
    /\ pc' = [pc EXCEPT ![a] = "finSave"]
    /\ UNCHANGED <<dbVars, inputs, due, spent, cur, job, bctx, rctx, finVars>>

\* Insert the output file's row and save the batch, in one transaction.
\* (Variant: the final status is forgotten.)
FinalBatchVariant(a) == [bctx[a][cur[a]] EXCEPT !.out = outRows[cur[a]] + 1]
FinalBatch(a) ==
    [bctx[a][cur[a]] EXCEPT !.out = outRows[cur[a]] + 1,
                            !.status = IF anyFailed[a] THEN "failed" ELSE "completed"]

FinSave(a) ==
    /\ At(a, "finSave")
    /\ outRows' = [outRows EXCEPT ![cur[a]] = @ + 1]
    /\ batches' = [batches EXCEPT ![cur[a]] = MergeBatch(@, bctx[a][cur[a]], FinalBatch(a))]
    /\ Return(a)
    /\ UNCHANGED <<requests, inputs, disk, due, spent>>

FinStep(a) ==
    \/ FinLoad(a)
    \/ FinCount(a)
    \/ FinFailed(a)
    \/ FinRead(a)
    \/ FinOpen(a)
    \/ FinOpenFails(a)
    \/ FinWrite(a)
    \/ FinSave(a)
============================================================================
