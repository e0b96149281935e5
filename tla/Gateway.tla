------------------------------ MODULE Gateway ------------------------------
(***************************************************************************)
(* The ApiGateway handlers that change state.  cancel and retry are served *)
(* by one of the Handler slots, since their round trips interleave with    *)
(* everything else, other cancels and retries included.                    *)
(***************************************************************************)
EXTENDS Store

----------------------------------------------------------------------------
(* POST /v1/files: FileService writes the bytes, then inserts the row.      *)
UploadWrite(b) ==
    /\ inputs[b] = "none"
    /\ Spend("upload")
    /\ inputs' = [inputs EXCEPT ![b] = "onDisk"]
    /\ UNCHANGED <<dbVars, disk, due, procVars>>

UploadRegister(b) ==
    /\ inputs[b] = "onDisk"
    /\ inputs' = [inputs EXCEPT ![b] = "registered"]
    /\ UNCHANGED <<dbVars, disk, due, procVars, spent>>

\* POST /v1/batches: the client names a registered file and a pool (GetGpuPool).
CreateBatch(b) ==
    /\ batches[b].status = "absent"
    /\ inputs[b] = "registered"
    /\ \E pool \in Pools :
          batches' = [batches EXCEPT ![b] =
              [status |-> "queued", pool |-> pool, out |-> 0,
               at |-> Cardinality({c \in Batch : batches[c].status # "absent"})]]
    /\ UNCHANGED <<requests, outRows, inputs, disk, due, procVars, spent>>

\* The uploaded bytes are gone when the scheduler looks (a storage directory
\* that is not on a shared or persistent volume).  A scheduler that has the
\* file open reads it all, and after the split nobody reads it again.
LoseInput(b) ==
    /\ inputs[b] = "registered"
    /\ ~(pc[Scheduler] = "lines" /\ cur[Scheduler] = b)
    /\ \A r \in RequestsOf(b) : requests[r].status = "absent"
    /\ Spend("lost")
    /\ inputs' = [inputs EXCEPT ![b] = "lost"]
    /\ UNCHANGED <<dbVars, disk, due, procVars>>

----------------------------------------------------------------------------
(* POST /v1/batches/{id}/cancel: load the batch, UPDATE the queued requests *)
(* (committed on its own), then save the batch.                             *)
CancelLoad(h, b) ==
    /\ pc[h] = "idle"
    /\ batches[b].status \in {"queued", "running"}
    /\ Spend("cancel")
    /\ bctx' = [bctx EXCEPT ![h][b] = batches[b]]
    /\ cur' = [cur EXCEPT ![h] = b]
    /\ pc' = [pc EXCEPT ![h] = "cancelRequests"]
    /\ UNCHANGED <<dbVars, inputs, disk, due, job, rctx>>

\* (Variant: requests in any open state are cancelled.)
CancelledRowsVariant(b) ==
    [r \in Request |-> IF BatchOf[r] = b /\ Open(requests[r])
                       THEN [requests[r] EXCEPT !.status = "Cancelled"]
                       ELSE requests[r]]

CancelledRows(b) ==
    [r \in Request |-> IF BatchOf[r] = b /\ requests[r].status = "Queued"
                       THEN [requests[r] EXCEPT !.status = "Cancelled"]
                       ELSE requests[r]]

CancelRequests(h) ==
    /\ pc[h] = "cancelRequests"
    /\ requests' = CancelledRows(cur[h])
    /\ pc' = [pc EXCEPT ![h] = "cancelSave"]
    /\ UNCHANGED <<batches, outRows, inputs, disk, due, cur, job, bctx, rctx, spent>>

CancelSave(h) ==
    LET b == cur[h]
        old == bctx[h][b]
    IN  /\ pc[h] = "cancelSave"
        /\ batches' = [batches EXCEPT ![b] =
                          MergeBatch(@, old, [old EXCEPT !.status = "cancelled"])]
        /\ Release(h, "idle")
        /\ UNCHANGED <<requests, outRows, inputs, disk, due, spent>>

----------------------------------------------------------------------------
(* POST /v1/requests/{id}/retry: load the request, requeue it if it failed. *)
\* (Variant: whatever is not completed may be retried.)
RetriableVariant(row) == row.status \notin {"absent", "Completed"}
Retriable(row) == row.status = "Failed"

RetryLoad(h, r) ==
    /\ pc[h] = "idle"
    /\ Retriable(requests[r])
    /\ Spend("retry")
    /\ rctx' = [rctx EXCEPT ![h][r] = requests[r]]
    /\ job' = [job EXCEPT ![h] = r]
    /\ pc' = [pc EXCEPT ![h] = "retrySave"]
    /\ UNCHANGED <<dbVars, inputs, disk, due, cur, bctx>>

\* (Variant: a batch's status instead of a request's.)
RetriedRowVariant(row) == [row EXCEPT !.status = "queued", !.worker = None]
RetriedRow(row) == [row EXCEPT !.status = "Queued", !.worker = None]

RetrySave(h) ==
    LET r == job[h]
    IN  /\ pc[h] = "retrySave"
        /\ requests' = [requests EXCEPT ![r] =
                           MergeRequest(@, rctx[h][r], RetriedRow(rctx[h][r]))]
        /\ Release(h, "idle")
        /\ UNCHANGED <<batches, outRows, inputs, disk, due, spent>>

----------------------------------------------------------------------------
(* The client hangs up (the handlers pass the request's abort token to      *)
(* every round trip) or the pod stops: the handler's remaining round trips  *)
(* do not happen.                                                           *)
HangUp(h) ==
    /\ pc[h] # "idle"
    /\ Spend("hangup")
    /\ Release(h, "idle")
    /\ UNCHANGED <<dbVars, inputs, disk, due>>

HandlerStep(h) ==
    \/ CancelRequests(h)
    \/ CancelSave(h)
    \/ RetrySave(h)

ClientStep ==
    \/ \E b \in Batch : UploadWrite(b) \/ UploadRegister(b) \/ CreateBatch(b) \/ LoseInput(b)
    \/ \E h \in Handler : \/ \E b \in Batch : CancelLoad(h, b)
                          \/ \E r \in Request : RetryLoad(h, r)
============================================================================
