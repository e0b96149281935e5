------------------------- MODULE BatchClaims_proofs -------------------------
(***************************************************************************)
(* A request is served by the one worker that claimed it, for all pods,    *)
(* batches and schedules in which no request is retried twice at once.     *)
(*                                                                         *)
(* Between its claim and the end of its handling a worker owns its row: no *)
(* other process changes the row's status or its worker.  It is its only   *)
(* owner since a claim needs the row queued, which an owned row never is   *)
(* (ClaimInv).  The save of a retry is the one that could break this: it   *)
(* writes a status decided on an older copy, which is harmless while the   *)
(* row is still failed, and a second retry in flight is the only process   *)
(* that can requeue a failed row in between.                               *)
(***************************************************************************)
EXTENDS BatchSafety_proofs

\* Rows that have an owner, or may have one, keep what makes them owned.
KeepsOwned ==
    \A r \in Request :
        requests[r].status \in {"Running", "Completed"} =>
            /\ requests'[r].status = requests[r].status
            /\ requests'[r].worker = requests[r].worker

LEMMA InitialClaims == Init => ClaimInv
BY StoreAssumption
   DEF Init, StoreInit, FinalizerInit, ClaimInv, ErrorHeld, OwnedRow, OwnerOnly, Owner, Serving, Interrupted,
       RetryHeld, Actor, Finalizing, FinalizerLabels

\* A step that moves no worker and spares the owned rows.
LEMMA OthersClaim ==
    ASSUME TypeInv, ClaimInv, KeepsOwned, RetryHeld',
           \A w \in Worker : pc'[w] = pc[w] /\ job'[w] = job[w] /\ rctx'[w] = rctx[w] /\ err'[w] = err[w]
    PROVE  ClaimInv'
<1>1. ASSUME NEW w \in Worker PROVE ErrorHeld(w)' /\ OwnedRow(w)'
  <2>1. ErrorHeld(w) /\ OwnedRow(w)
    BY DEF ClaimInv
  <2>2. Busy(w) => job[w] \in Request
    BY DEF TypeInv, WorkerHolds
  <2>3. ErrorHeld(w)'
    BY <2>1 DEF ErrorHeld
  <2>4. CASE Busy(w) /\ requests[job[w]].status \in {"Running", "Completed"}
    <3>1. requests'[job[w]].status = requests[job[w]].status /\ requests'[job[w]].worker = requests[job[w]].worker
      BY <2>2, <2>4 DEF KeepsOwned
    <3> QED
      BY <2>1, <2>3, <3>1 DEF OwnedRow, Serving, Interrupted
  <2>5. CASE ~(Busy(w) /\ requests[job[w]].status \in {"Running", "Completed"})
    BY <2>1, <2>3, <2>5 DEF OwnedRow, Serving, Interrupted, Busy, FinalizerLabels
  <2> QED
    BY <2>4, <2>5
<1>2. OwnerOnly'
  BY DEF OwnerOnly, Owner, Serving, ClaimInv
<1> QED
  BY <1>1, <1>2 DEF ClaimInv

\* What worker w's step leaves of the rows, and where it leaves w.
WorkerStays(w) ==
    /\ \A r \in Request : requests'[r] # requests[r] =>
          /\ r = job[w]
          /\ requests[r].status # "Failed" /\ requests'[r].status # "Cancelled"
          /\ Owner(w) \/ requests[r].status = "Queued"
    /\ Owner(w)' => job'[w] = job[w] /\ (Owner(w) \/ requests[job[w]].status = "Queued")
    /\ ErrorHeld(w)' /\ OwnedRow(w)'

LEMMA WorkerOwns ==
    ASSUME TypeInv, ClaimInv, NEW w \in Worker, WorkerStep(w) \/ WorkerFault(w) \/ WorkerCrash(w)
    PROVE  WorkerStays(w) /\ \A v \in Worker \ {w} : err'[v] = err[v]
<1> USE StoreAssumption DEF finVars, dbVars
<1>1. w \in Actor /\ w \in Finalizing /\ w # Scheduler
  BY DEF Finalizing, Actor
<1>2. /\ DbTypes /\ ProcTypes /\ FinalizerTypeOK /\ WorkerHolds(w)
      /\ ErrorHeld(w) /\ OwnedRow(w)
  BY TypeParts DEF TypeInv, ClaimInv
<1>3. \A v \in Worker \ {w} : err'[v] = err[v]
  <2>1. err' = err \/ \E e : err' = [err EXCEPT ![w] = e]
    BY <1>1 DEF WorkerStep, WorkerFault, WorkerCrash, DequeueSelect, DequeueCommit, MarkRunning, MarkRunningLost,
                Process, SpotInterruption, MarkCompletedLoad, MarkCompletedSave, MarkFailedLoad, LoadJob,
                MarkFailedRequeue, MarkFailedSave, WorkerRestart, Return, Throw, FinStep, FinLoad, FinCount,
                FinFailed, FinRead, FinOpen, FinOpenFails, FinWrite, FinSave
  <2> QED
    BY <1>2, <2>1 DEF FinalizerTypeOK, Finalizing
<1> SUFFICES WorkerStays(w)
  BY <1>3
\* The worker has left its request, or moves on without touching the row.
<1>4. ASSUME pc'[w] \in {"idle", "down"}, err'[w] = "none"
      PROVE  ~Owner(w)' /\ ErrorHeld(w)' /\ OwnedRow(w)'
  BY <1>4 DEF Owner, Serving, Interrupted, ErrorHeld, OwnedRow, FinalizerLabels
<1>5. ASSUME UNCHANGED <<requests, job, rctx, err>>, NEW l \in Labels, pc' = [pc EXCEPT ![w] = l],
             \/ pc[w] \in FinalizerLabels /\ l \in FinalizerLabels
             \/ pc[w] \in {"locked", "claim"} /\ l \in {"locked", "claim"}
             \/ pc[w] = "down" /\ l = "idle"
             \/ pc[w] = "process" /\ l = "mcLoad"
      PROVE  WorkerStays(w)
  <2>1. pc'[w] = l
    BY <1>1, <1>2, <1>5 DEF ProcTypes
  <2> QED
    BY <1>2, <1>5, <2>1
       DEF WorkerStays, Owner, Serving, Interrupted, ErrorHeld, OwnedRow, FinalizerLabels
<1>6. CASE MarkRunningLost(w) \/ WorkerCrash(w) \/ (Return(w) /\ UNCHANGED requests)
  <2>1. pc'[w] \in {"idle", "down"} /\ requests' = requests
    BY <1>1, <1>2, <1>6 DEF MarkRunningLost, WorkerCrash, Return, Release, ProcTypes
  <2>2. err'[w] = "none"
    BY <1>1, <1>2, <1>6 DEF MarkRunningLost, WorkerCrash, Return, FinalizerTypeOK, At, ErrorHeld, FinalizerLabels
  <2> QED
    BY <1>4, <2>1, <2>2 DEF WorkerStays
<1>7. ASSUME Throw(w), UNCHANGED requests, pc[w] \in {"mcLoad", "mcSave"} \cup FinalizerLabels
      PROVE  WorkerStays(w)
  <2>1. CASE err[w] = "none"
    <3>1. pc'[w] = "mfLoad" /\ err'[w] = "error" /\ job' = job
      BY <1>1, <1>2, <1>7, <2>1 DEF Throw, ProcTypes, FinalizerTypeOK
    <3>2. Owner(w) /\ requests[job[w]].status \in {"Running", "Completed"}
      BY <1>2, <1>7, <2>1 DEF Owner, Serving, OwnedRow
    <3> QED
      BY <1>7, <3>1, <3>2
         DEF WorkerStays, Owner, Serving, Interrupted, ErrorHeld, OwnedRow, FinalizerLabels
  <2>2. CASE err[w] # "none"
    <3>1. pc'[w] = "down" /\ err'[w] = "none"
      BY <1>1, <1>2, <1>7, <2>2 DEF Throw, Release, ProcTypes, FinalizerTypeOK
    <3> QED
      BY <1>4, <1>7, <3>1 DEF WorkerStays
  <2> QED
    BY <2>1, <2>2
<1>8. CASE WorkerFault(w)
  BY <1>7, <1>8 DEF WorkerFault
<1>9. CASE FinStep(w)
  <2>1. pc[w] \in FinalizerLabels /\ requests' = requests
    BY <1>1, <1>9, FinMoves
  <2>2. CASE Return(w)
    BY <1>6, <2>1, <2>2
  <2>3. CASE Throw(w)
    BY <1>7, <2>1, <2>3
  <2>4. CASE ~(Return(w) \/ Throw(w))
    <3>1. \E l \in FinalizerLabels : pc' = [pc EXCEPT ![w] = l] /\ UNCHANGED <<job, rctx, err>>
      BY <1>9, <2>4 DEF FinStep, FinLoad, FinCount, FinFailed, FinRead, FinOpen, FinOpenFails, FinWrite, FinSave,
                        FinalizerLabels
    <3> QED
      BY <1>5, <2>1, <3>1 DEF Labels, WorkerLabels
  <2> QED
    BY <2>2, <2>3, <2>4
<1>10. CASE DequeueSelect(w)
  <2>1. pc'[w] = "locked" /\ requests' = requests /\ err' = err /\ pc[w] = "idle"
    BY <1>1, <1>2, <1>10 DEF DequeueSelect, At, ProcTypes
  <2> QED
    BY <1>2, <2>1 DEF WorkerStays, Owner, Serving, Interrupted, ErrorHeld, OwnedRow, FinalizerLabels
<1>11. CASE DequeueCommit(w) \/ Process(w) \/ WorkerRestart(w)
  BY <1>5, <1>11 DEF DequeueCommit, Process, WorkerRestart, At, Labels, WorkerLabels
<1>12. CASE MarkRunning(w)
  <2>1. job[w] \in Request /\ requests[job[w]] \in RequestRow /\ requests[job[w]].status = "Queued"
    BY <1>2, <1>12 DEF MarkRunning, Claimable, At, Busy, WorkerHolds, DbTypes
  <2>2. /\ requests'[job[w]].status = "Running" /\ requests'[job[w]].worker = IdOf[w]
        /\ \A r \in Request \ {job[w]} : requests'[r] = requests[r]
        /\ pc'[w] = "process" /\ job' = job /\ err' = err /\ err[w] = "none"
    BY <1>1, <1>2, <1>12, <2>1
       DEF MarkRunning, At, ProcTypes, DbTypes, RequestRow, ErrorHeld, FinalizerLabels
  <2> QED
    BY <2>1, <2>2 DEF WorkerStays, Owner, Serving, Interrupted, ErrorHeld, OwnedRow, FinalizerLabels
<1>13. CASE SpotInterruption(w)
  <2>1. /\ pc[w] = "process" /\ pc'[w] = "mfLoad" /\ err'[w] = "interruption" /\ PoolOf[w] = Spot
        /\ job' = job /\ requests' = requests
    BY <1>1, <1>2, <1>13 DEF SpotInterruption, At, ProcTypes, FinalizerTypeOK
  <2>2. Owner(w) /\ requests[job[w]].status = "Running" /\ requests[job[w]].worker = IdOf[w]
    BY <1>2, <2>1 DEF Owner, Serving, OwnedRow
  <2>3. ErrorHeld(w)' /\ OwnedRow(w)'
    BY <2>1, <2>2 DEF Serving, Interrupted, ErrorHeld, OwnedRow, FinalizerLabels
  <2> QED
    BY <2>1, <2>2, <2>3 DEF WorkerStays
<1>14. CASE MarkCompletedLoad(w) \/ MarkFailedLoad(w)
  <2>1. /\ \/ pc[w] = "mcLoad" /\ pc'[w] = "mcSave"
           \/ pc[w] = "mfLoad" /\ pc'[w] = "mfSave"
        /\ UNCHANGED <<requests, job, err>>
    BY <1>1, <1>2, <1>14 DEF MarkCompletedLoad, MarkFailedLoad, LoadJob, At, ProcTypes
  <2>2. job[w] \in Request
    BY <1>2, <2>1 DEF WorkerHolds, Busy
  <2>3. rctx'[w][job[w]] = requests[job[w]]
    BY <1>1, <1>2, <1>14, <2>2 DEF MarkCompletedLoad, MarkFailedLoad, LoadJob, ProcTypes
  <2> QED
    BY <1>2, <2>1, <2>3 DEF WorkerStays, Owner, Serving, Interrupted, ErrorHeld, OwnedRow, FinalizerLabels
\* A save of the status: the copy's is the row's, so the new one is written.
<1>15. ASSUME NEW new \in RequestRow, SaveJob(w, new), pc[w] \in {"mcSave", "mfSave"},
              new.status # rctx[w][job[w]].status
       PROVE  /\ requests'[job[w]].status = new.status
              /\ \A r \in Request \ {job[w]} : requests'[r] = requests[r]
              /\ Owner(w) /\ requests[job[w]].status # "Failed" /\ job[w] \in Request
  <2>1. job[w] \in Request /\ Owner(w)
    BY <1>2, <1>15 DEF WorkerHolds, Busy, Owner, Serving
  <2>2. requests' = [requests EXCEPT ![job[w]] = MergeRequest(@, rctx[w][job[w]], new)]
    BY <1>15 DEF SaveJob
  <2>3. requests[job[w]].status \in {"Running", "Completed"}
    BY <1>2, <1>15 DEF OwnedRow, Serving
  <2> QED
    BY <1>2, <1>15, <2>1, <2>2, <2>3 DEF MergeRequest, Column, DbTypes
<1>16. ASSUME pc[w] \in {"mcSave", "mfSave"}
       PROVE  /\ job[w] \in Request /\ rctx[w][job[w]] \in RequestRow
              /\ rctx[w][job[w]].status \in {"Running", "Completed"}
  BY <1>1, <1>2, <1>16 DEF WorkerHolds, Busy, ProcTypes, OwnedRow
<1>17. CASE MarkCompletedSave(w)
  <2> DEFINE new == CompletedRow(rctx[w][job[w]], job[w])
  <2>1. pc[w] = "mcSave" /\ rctx[w][job[w]].status = "Running" /\ err[w] = "none"
    BY <1>2, <1>17 DEF MarkCompletedSave, At, OwnedRow, ErrorHeld, FinalizerLabels
  <2>2. new \in RequestRow /\ new.status = "Completed"
    BY <1>16, <2>1 DEF CompletedRow, RequestRow, RequestStatus
  <2>3. SaveJob(w, new) /\ pc'[w] = "finLoad" /\ job' = job /\ err' = err
    BY <1>1, <1>2, <1>17 DEF MarkCompletedSave, ProcTypes
  <2> HIDE DEF new
  <2>4. /\ requests'[job[w]].status = "Completed" /\ Owner(w) /\ requests[job[w]].status # "Failed"
        /\ \A r \in Request \ {job[w]} : requests'[r] = requests[r]
    BY <1>15, <2>1, <2>2, <2>3
  <2> QED
    BY <2>1, <2>3, <2>4 DEF WorkerStays, Owner, Serving, Interrupted, ErrorHeld, OwnedRow, FinalizerLabels
<1>18. CASE MarkFailedSave(w)
  <2> DEFINE new == FailedRow(rctx[w][job[w]])
  <2>1. pc[w] = "mfSave" /\ err[w] # "none"
    BY <1>2, <1>18 DEF MarkFailedSave, At, ErrorHeld
  <2>2. new \in RequestRow /\ new.status = "Failed" /\ new.status # rctx[w][job[w]].status
    BY <1>16, <2>1 DEF FailedRow, RequestRow, RequestStatus
  <2>3. SaveJob(w, new) /\ pc'[w] = "finLoad" /\ job' = job /\ err' = err
    BY <1>1, <1>2, <1>18 DEF MarkFailedSave, ProcTypes
  <2> HIDE DEF new
  <2>4. /\ requests'[job[w]].status = "Failed" /\ Owner(w) /\ requests[job[w]].status # "Failed"
        /\ \A r \in Request \ {job[w]} : requests'[r] = requests[r]
    BY <1>15, <2>1, <2>2, <2>3
  <2> QED
    BY <1>2, <2>1, <2>3, <2>4 DEF WorkerStays, Owner, Serving, Interrupted, ErrorHeld, OwnedRow, FinalizerLabels
<1>19. CASE MarkFailedRequeue(w)
  <2> DEFINE new == RequeuedRow(rctx[w][job[w]])
  <2>1. pc[w] = "mfSave"
    BY <1>19 DEF MarkFailedRequeue, At
  <2>2. new \in RequestRow /\ new.status = "Queued" /\ new.status # rctx[w][job[w]].status
    BY <1>16, <2>1 DEF RequeuedRow, RequestRow, RequestStatus, Pools
  <2>3. SaveJob(w, new) /\ pc'[w] = "idle" /\ err'[w] = "none"
    BY <1>1, <1>2, <1>19 DEF MarkFailedRequeue, Return, Release, ProcTypes, FinalizerTypeOK
  <2> HIDE DEF new
  <2>4. /\ requests'[job[w]].status = "Queued" /\ Owner(w) /\ requests[job[w]].status # "Failed"
        /\ \A r \in Request \ {job[w]} : requests'[r] = requests[r]
    BY <1>15, <2>1, <2>2, <2>3
  <2> QED
    BY <1>4, <2>3, <2>4 DEF WorkerStays
<1>20. CASE WorkerStep(w)
  BY ONLY <1>6, <1>9, <1>10, <1>11, <1>12, <1>13, <1>14, <1>17, <1>18, <1>19, <1>20 DEF WorkerStep
<1> QED
  BY <1>6, <1>8, <1>20

LEMMA WorkerClaim ==
    ASSUME TypeInv, SafeInv, ClaimInv, NEW w \in Worker,
           WorkerStep(w) \/ WorkerFault(w) \/ WorkerCrash(w)
    PROVE  ClaimInv'
<1> USE StoreAssumption
<1>1. /\ \A x \in Actor \ {w} : pc'[x] = pc[x] /\ job'[x] = job[x] /\ rctx'[x] = rctx[x]
      /\ \A v \in Worker \ {w} : err'[v] = err[v]
      /\ WorkerStays(w)
  BY WorkerMoves, WorkerOwns
<1>2. ASSUME NEW v \in Worker \ {w}
      PROVE  /\ pc'[v] = pc[v] /\ job'[v] = job[v] /\ rctx'[v] = rctx[v] /\ err'[v] = err[v]
             /\ Owner(v)' <=> Owner(v)
  BY <1>1 DEF Actor, Owner, Serving
\* Another owner's row is neither queued nor the row of an owner that moves.
<1>3. ASSUME NEW v \in Worker \ {w}, Owner(v)
      PROVE  /\ requests[job[v]].status \in {"Running", "Completed"}
             /\ requests'[job[v]] = requests[job[v]]
             /\ ~(Owner(w)' /\ job'[w] = job[v])
  <2>1. requests[job[v]].status \in {"Running", "Completed"}
    BY <1>3 DEF ClaimInv, OwnedRow, Owner
  <2>2. job[v] \in Request
    BY <1>3 DEF Owner, Serving, TypeInv, WorkerHolds, Busy, FinalizerLabels
  <2>3. ~(Owner(w) /\ job[v] = job[w])
    BY <1>3 DEF ClaimInv, OwnerOnly
  <2> QED
    BY <1>1, <2>1, <2>2, <2>3 DEF WorkerStays
<1>4. ASSUME NEW v \in Worker PROVE ErrorHeld(v)' /\ OwnedRow(v)'
  <2>1. CASE v = w
    BY <1>1, <2>1 DEF WorkerStays
  <2>2. CASE v # w /\ Owner(v)
    <3>1. requests'[job'[v]] = requests[job[v]] /\ ErrorHeld(v) /\ OwnedRow(v)
      BY <1>2, <1>3, <2>2 DEF ClaimInv
    <3> QED
      BY <1>2, <2>2, <3>1 DEF ErrorHeld, OwnedRow, Serving, Interrupted
  <2>3. CASE v # w /\ ~Owner(v)
    <3>1. ErrorHeld(v)
      BY DEF ClaimInv
    <3> QED
      BY <1>2, <2>3, <3>1 DEF ErrorHeld, OwnedRow, Owner, Serving, Interrupted
  <2> QED
    BY <2>1, <2>2, <2>3
<1>5. OwnerOnly'
  <2> SUFFICES ASSUME NEW u \in Worker, NEW v \in Worker, Owner(u)', Owner(v)', job'[u] = job'[v]
               PROVE  u = v
    BY DEF OwnerOnly
  <2> QED
    BY <1>2, <1>3 DEF ClaimInv, OwnerOnly
<1>6. RetryHeld'
  <2> SUFFICES ASSUME NEW h \in Handler, pc'[h] = "retrySave" PROVE requests'[job'[h]].status = "Failed"
    BY DEF RetryHeld
  <2>1. pc[h] = "retrySave" /\ job'[h] = job[h]
    BY <1>1 DEF Actor
  <2>2. job[h] \in Request /\ requests[job[h]].status = "Failed"
    BY <2>1 DEF TypeInv, HandlerHolds, ClaimInv, RetryHeld
  <2> QED
    BY <1>1, <2>1, <2>2 DEF WorkerStays
<1> QED
  BY <1>4, <1>5, <1>6 DEF ClaimInv

\* The gateway: only a retry and a cancellation save requests.
LEMMA GatewayClaim ==
    ASSUME TypeInv, ClaimInv, OneRetry, UNCHANGED finVars,
           \/ \E h \in Handler : HandlerStep(h) \/ HangUp(h)
           \/ ClientStep
           \/ \E b \in Batch : DeadlineNears(b)
    PROVE  ClaimInv'
<1> USE StoreAssumption DEF finVars, dbVars
<1>1. DbTypes /\ ProcTypes /\ \A h \in Handler : HandlerHolds(h)
  BY TypeParts DEF TypeInv
<1>2. CASE \E b \in Batch : \/ UploadWrite(b) \/ UploadRegister(b) \/ CreateBatch(b)
                            \/ LoseInput(b) \/ DeadlineNears(b)
  <2>1. UNCHANGED <<requests, procVars>>
    BY <1>2 DEF UploadWrite, UploadRegister, CreateBatch, LoseInput, DeadlineNears
  <2> QED
    BY <2>1, OthersClaim DEF procVars, KeepsOwned, ClaimInv, RetryHeld
\* A step of handler h alone that spares the owned rows.
<1>3. ASSUME NEW h \in Handler, KeepsOwned, RetryHeld',
             \A x \in Actor \ {h} : pc'[x] = pc[x] /\ job'[x] = job[x] /\ rctx'[x] = rctx[x]
      PROVE  ClaimInv'
  BY <1>3, OthersClaim DEF Actor
<1>4. ASSUME NEW h \in Handler,
             \A x \in Actor \ {h} : pc'[x] = pc[x] /\ job'[x] = job[x] /\ rctx'[x] = rctx[x],
             pc'[h] # "retrySave" \/ requests[job'[h]].status = "Failed", UNCHANGED requests
      PROVE  ClaimInv'
  <2>1. RetryHeld'
    BY <1>4 DEF RetryHeld, ClaimInv, Actor
  <2> QED
    BY <1>3, <1>4, <2>1 DEF KeepsOwned
<1>5. ASSUME NEW h \in Handler, NEW b \in Batch, CancelLoad(h, b) PROVE ClaimInv'
  BY <1>1, <1>4, <1>5 DEF CancelLoad, ProcTypes, Actor
<1>6. ASSUME NEW h \in Handler, NEW r \in Request, RetryLoad(h, r) PROVE ClaimInv'
  BY <1>1, <1>4, <1>6 DEF RetryLoad, Retriable, ProcTypes, Actor
<1>7. ASSUME NEW h \in Handler, CancelRequests(h) PROVE ClaimInv'
  <2>1. \A r \in Request : requests[r].status # "Queued" => requests'[r] = requests[r]
    BY <1>7 DEF CancelRequests, CancelledRows
  <2>2. /\ pc'[h] = "cancelSave" /\ UNCHANGED <<job, rctx>>
        /\ \A x \in Actor \ {h} : pc'[x] = pc[x]
    BY <1>1, <1>7 DEF CancelRequests, ProcTypes, Actor
  <2>3. RetryHeld'
    BY <1>1, <2>1, <2>2 DEF RetryHeld, ClaimInv, Actor, HandlerHolds
  <2> QED
    BY <1>1, <1>3, <1>7, <2>1, <2>2, <2>3 DEF KeepsOwned, CancelRequests
<1>8. ASSUME NEW h \in Handler, CancelSave(h) \/ HangUp(h) PROVE ClaimInv'
  <2>1. Release(h, "idle") /\ requests' = requests
    BY <1>8 DEF CancelSave, HangUp
  <2> QED
    BY <1>1, <1>4, <2>1 DEF Release, ProcTypes, Actor
<1>9. ASSUME NEW h \in Handler, RetrySave(h) PROVE ClaimInv'
  <2>1. Release(h, "idle") /\ pc[h] = "retrySave"
    BY <1>9 DEF RetrySave
  <2>2. /\ pc'[h] = "idle"
        /\ \A x \in Actor \ {h} : pc'[x] = pc[x] /\ job'[x] = job[x] /\ rctx'[x] = rctx[x]
    BY <1>1, <2>1 DEF Release, ProcTypes, Actor
  <2>3. requests[job[h]].status = "Failed" /\ job[h] \in Request
    BY <1>1, <2>1 DEF ClaimInv, RetryHeld, HandlerHolds
  <2>4. \A r \in Request \ {job[h]} : requests'[r] = requests[r]
    BY <1>1, <1>9 DEF RetrySave, DbTypes
  <2>5. RetryHeld'
    <3> SUFFICES ASSUME NEW k \in Handler, pc'[k] = "retrySave"
                 PROVE  requests'[job'[k]].status = "Failed"
      BY DEF RetryHeld
    <3>1. k # h /\ pc[k] = "retrySave" /\ job'[k] = job[k]
      BY <2>2 DEF Actor
    <3>2. job[k] \in Request \ {job[h]} /\ requests[job[k]].status = "Failed"
      BY <1>1, <2>1, <3>1 DEF OneRetry, ClaimInv, RetryHeld, HandlerHolds
    <3> QED
      BY <2>4, <3>1, <3>2
  <2> QED
    BY <1>3, <2>2, <2>3, <2>4, <2>5 DEF KeepsOwned
<1> QED
  BY <1>2, <1>5, <1>6, <1>7, <1>8, <1>9 DEF HandlerStep, ClientStep

\* The scheduler inserts absent rows and moves rows between the pools: neither
\* changes the status or the worker of a row that is in the table.
LEMMA ScheduledRows ==
    ASSUME TypeInv, SafeInv, SchedulerStep \/ SchedulerAbort, NEW r \in Request,
           requests[r].status # "absent"
    PROVE  requests'[r].status = requests[r].status /\ requests'[r].worker = requests[r].worker
<1> USE StoreAssumption DEF dbVars
<1>1. Scheduler \in Actor /\ Scheduler \in Finalizing
  BY DEF Finalizing, Actor
<1>2. DbTypes /\ ProcTypes
  BY TypeParts
<1>3. CASE SaveIngested
  BY <1>3 DEF SaveIngested, At, SafeInv, IngestInv, ListIsAbsent, Absent, RequestsOf
<1>4. CASE EscalateSave
  <2> DEFINE R == rctx[Scheduler]
  <2>1. R \in [Request -> RequestRow \cup {None}]
    BY <1>1, <1>2 DEF ProcTypes
  <2>2. requests'[r] = IF R[r] = None THEN requests[r]
                       ELSE MergeRequest(requests[r], R[r], OnDedicated(R[r]))
    BY <1>4 DEF EscalateSave
  <2>3. \A row \in RequestRow : OnDedicated(row).status = row.status /\ OnDedicated(row).worker = row.worker
    BY DEF OnDedicated, RequestRow
  <2> HIDE DEF R
  <2> QED
    BY <2>1, <2>2, <2>3 DEF MergeRequest, Column
<1>5. CASE FinStep(Scheduler)
  BY <1>1, <1>5, FinMoves
<1>6. CASE ~(SaveIngested \/ EscalateSave \/ FinStep(Scheduler))
  BY <1>6 DEF SchedulerStep, SchedulerAbort, LoadQueued, NextBatch, SaveRejected, ReadLine, EscalateLoad
<1> QED
  BY <1>3, <1>4, <1>5, <1>6

\* No other process moves in a step of the scheduler.
LEMMA SchedulerMoves ==
    ASSUME TypeInv, SchedulerStep \/ SchedulerAbort
    PROVE  \A x \in Actor \ {Scheduler} : pc'[x] = pc[x] /\ job'[x] = job[x] /\ rctx'[x] = rctx[x]
<1> USE StoreAssumption DEF schedVars, finVars, dbVars
<1>1. Scheduler \in Actor /\ Scheduler \in Finalizing
  BY DEF Finalizing, Actor
<1>2. ProcTypes
  BY TypeParts
<1>3. CASE FinStep(Scheduler)
  BY <1>1, <1>3, FinMoves
<1>4. CASE ~FinStep(Scheduler)
  <2>1. /\ pc' = pc \/ \E l \in Labels : pc' = [pc EXCEPT ![Scheduler] = l]
        /\ job' = job \/ job' = [job EXCEPT ![Scheduler] = None]
        /\ rctx' = rctx \/ \E R : rctx' = [rctx EXCEPT ![Scheduler] = R]
    <3>1. CASE Release(Scheduler, "idle")
      BY <3>1 DEF Release, Labels, WorkerLabels
    <3>2. CASE Return(Scheduler)
      BY <3>2 DEF Return, Labels, SchedulerLabels
    <3>3. CASE LoadQueued \/ NextBatch \/ ReadLine \/ SaveIngested \/ EscalateLoad
      BY <3>3 DEF LoadQueued, NextBatch, ReadLine, AddLine, SaveIngested, EscalateLoad, Labels, SchedulerLabels,
                  FinalizerLabels
    <3> QED
      BY <1>4, <3>1, <3>2, <3>3 DEF SchedulerStep, SchedulerAbort, SaveRejected, EscalateSave
  <2> QED
    BY <1>1, <1>2, <2>1 DEF ProcTypes
<1> QED
  BY <1>3, <1>4

LEMMA SchedulerClaim ==
    ASSUME TypeInv, SafeInv, ClaimInv, SchedulerStep \/ SchedulerAbort
    PROVE  ClaimInv'
<1> USE StoreAssumption DEF schedVars, finVars, dbVars
<1>1. Scheduler \in Actor /\ Scheduler \in Finalizing /\ Scheduler \notin Worker \cup Handler
  BY DEF Finalizing, Actor
<1>2. /\ DbTypes /\ ProcTypes /\ FinalizerTypeOK /\ SchedulerHolds
      /\ \A h \in Handler : HandlerHolds(h)
  BY TypeParts DEF TypeInv
<1>3. \A w \in Worker : err'[w] = err[w]
  <2>1. err' = err \/ err' = [err EXCEPT ![Scheduler] = "none"]
    BY <1>1 DEF SchedulerStep, SchedulerAbort, LoadQueued, NextBatch, SaveRejected, ReadLine, SaveIngested,
                EscalateLoad, EscalateSave, Return, Throw, FinStep, FinLoad, FinCount,
                FinFailed, FinRead, FinOpen, FinOpenFails, FinWrite, FinSave
  <2> QED
    BY <1>1, <1>2, <2>1 DEF FinalizerTypeOK, Finalizing
<1>4. \A x \in Actor \ {Scheduler} : pc'[x] = pc[x] /\ job'[x] = job[x] /\ rctx'[x] = rctx[x]
  BY SchedulerMoves
<1>5. \A r \in Request : requests[r].status # "absent" =>
         requests'[r].status = requests[r].status /\ requests'[r].worker = requests[r].worker
  BY ScheduledRows
<1>6. RetryHeld'
  BY <1>1, <1>2, <1>4, <1>5 DEF RetryHeld, ClaimInv, Actor, HandlerHolds
<1> QED
  BY <1>1, <1>3, <1>4, <1>5, <1>6, OthersClaim DEF KeepsOwned, Actor

LEMMA ClaimStep == TypeInv /\ SafeInv /\ ClaimInv /\ OneRetry /\ [Next]_vars => ClaimInv'
<1> SUFFICES ASSUME TypeInv, SafeInv, ClaimInv, OneRetry, [Next]_vars PROVE ClaimInv'
  OBVIOUS
<1>1. CASE UNCHANGED vars
  BY <1>1, OthersClaim DEF vars, storeVars, finVars, KeepsOwned, ClaimInv, RetryHeld
<1>2. CASE \E w \in Worker : (WorkerStep(w) \/ WorkerFault(w) \/ WorkerCrash(w)) /\ UNCHANGED schedVars
  BY <1>2, WorkerClaim
<1>3. CASE SchedulerStep \/ SchedulerAbort
  BY <1>3, SchedulerClaim
<1>4. CASE /\ UNCHANGED <<finVars, schedVars>>
           /\ \/ \E h \in Handler : HandlerStep(h) \/ HangUp(h)
              \/ ClientStep
              \/ \E b \in Batch : DeadlineNears(b)
  BY <1>4, GatewayClaim
<1> QED
  BY <1>1, <1>2, <1>3, <1>4 DEF Next

THEOREM ClaimInvariant == Spec /\ []OneRetry => []ClaimInv
<1>1. Init => ClaimInv
  BY InitialClaims
<1>2. TypeInv /\ SafeInv /\ ClaimInv /\ OneRetry /\ [Next]_vars => ClaimInv'
  BY ClaimStep
<1> QED
  BY <1>1, <1>2, TypeInvariant, SafetyInvariant, PTL DEF Spec

\* A request is served by the one worker that claimed it, and by nobody else,
\* in every behaviour in which no request is retried twice at once: faults,
\* crashes, interruptions, cancellations and escalations included.
THEOREM ExclusiveClaims == Spec /\ []OneRetry => []ClaimExclusive
<1>1. ClaimInv => ClaimExclusive
  <2> SUFFICES ASSUME ClaimInv, NEW w \in Worker, Serving(w) \/ Interrupted(w)
               PROVE  /\ requests[job[w]].status = "Running"
                      /\ requests[job[w]].worker = IdOf[w]
                      /\ \A v \in Worker : Serving(v) /\ job[v] = job[w] => v = w
    BY DEF ClaimExclusive
  <2> QED
    BY DEF ClaimInv, OwnedRow, OwnerOnly, Owner, Interrupted
<1> QED
  BY <1>1, ClaimInvariant, PTL

\* What a step may do to a running and to a cancelled row.
CancelStep ==
    \A r \in Request :
        /\ requests[r].status = "Running" => requests'[r].status # "Cancelled"
        /\ requests[r].status = "Cancelled" => requests'[r].status = "Cancelled"

LEMMA CancelSteps == TypeInv /\ SafeInv /\ ClaimInv /\ [Next]_vars => CancelStep
<1> SUFFICES ASSUME TypeInv, SafeInv, ClaimInv, [Next]_vars, NEW r \in Request
             PROVE  /\ requests[r].status = "Running" => requests'[r].status # "Cancelled"
                    /\ requests[r].status = "Cancelled" => requests'[r].status = "Cancelled"
  BY DEF CancelStep
<1> USE StoreAssumption DEF dbVars
<1>1. CASE requests'[r] = requests[r]
  BY <1>1
<1>2. ASSUME NEW w \in Worker, WorkerStep(w) \/ WorkerFault(w) \/ WorkerCrash(w), requests'[r] # requests[r]
      PROVE  requests'[r].status # "Cancelled" /\ requests[r].status # "Cancelled"
  <2>1. /\ r = job[w] /\ requests'[r].status # "Cancelled"
        /\ Owner(w) \/ requests[r].status = "Queued"
    BY <1>2, WorkerOwns DEF WorkerStays
  <2> QED
    BY <2>1 DEF ClaimInv, OwnedRow, Owner
<1>3. CASE SchedulerStep \/ SchedulerAbort
  BY <1>3, ScheduledRows
<1>4. ASSUME NEW h \in Handler, CancelRequests(h) PROVE requests[r].status # "Queued" => requests'[r] = requests[r]
  BY <1>4 DEF CancelRequests, CancelledRows
<1>5. ASSUME NEW h \in Handler, RetrySave(h) PROVE requests'[r] # requests[r] => requests[r].status = "Failed"
  BY <1>5, TypeParts DEF RetrySave, ClaimInv, RetryHeld, DbTypes
<1>6. ASSUME NEW h \in Handler, CancelSave(h) \/ HangUp(h) PROVE requests' = requests
  BY <1>6 DEF CancelSave, HangUp
<1>7. CASE ClientStep \/ (\E b \in Batch : DeadlineNears(b)) \/ UNCHANGED vars
  BY <1>1, <1>7 DEF ClientStep, UploadWrite, UploadRegister, CreateBatch, LoseInput, CancelLoad, RetryLoad,
                    DeadlineNears, vars, storeVars
<1>8. CASE requests[r].status = "Failed"
  BY <1>8
<1> QED
  BY <1>1, <1>2, <1>3, <1>4, <1>5, <1>6, <1>7, <1>8 DEF Next, HandlerStep

\* A running request is never cancelled under its worker and a cancelled one
\* stays cancelled, whatever was loaded before the cancellation and is saved
\* after it, as long as no request is retried twice at once.
THEOREM CancellationsStand == Spec /\ []OneRetry => CancelledStays
<1>1. TypeInv /\ SafeInv /\ ClaimInv /\ [Next]_vars => [CancelStep]_vars
  BY CancelSteps
<1> QED
  BY <1>1, ClaimInvariant, TypeInvariant, SafetyInvariant, PTL DEF Spec, CancelledStays, CancelStep
----------------------------------------------------------------------------
(***************************************************************************)
(* The batch system implements WorkQueue in every behaviour in which no    *)
(* request is retried twice at once: each step, whatever copy of a row it  *)
(* loads or saves, is one atomic operation of the queue or none.           *)
(* Who holds a request is read off the workers' control points.  That this *)
(* is one worker, and that the rest of a step's effect is on its own       *)
(* request, is ClaimInv; the lemmas below say what each component's steps  *)
(* do to the queue, one entry at a time.                                   *)
(***************************************************************************)

InDedicated(r) == requests[r].status # "absent" /\ requests[r].pool = Dedicated

SamePhase(r) == PhaseOf(r)' = PhaseOf(r)
SameHolder(r) == HolderOf(r)' = HolderOf(r)
SamePool(r) == InDedicated(r)' <=> InDedicated(r)
SameEntry(r) == SamePhase(r) /\ SameHolder(r) /\ SamePool(r)

\* Request r, and no other, has left its holder for phase p.
Left(r, p) == HolderOf(r) # None /\ HolderOf(r)' = None /\ PhaseOf(r)' = p

----------------------------------------------------------------------------
(* Steps of the queue, one entry at a time *)

LEMMA QueueStutters ==
    ASSUME \A r \in Request : SameEntry(r)
    PROVE  UNCHANGED Queue!queueVars
BY DEF SameEntry, SamePhase, SameHolder, SamePool, InDedicated, Queue!queueVars

LEMMA QueuePromotes ==
    ASSUME \A r \in Request : SamePhase(r) /\ SameHolder(r) /\ (InDedicated(r) => InDedicated(r)')
    PROVE  Queue!Next
<1> DEFINE D == {r \in Request : requests'[r].status # "absent" /\ requests'[r].pool = Dedicated}
<1>1. D \in SUBSET Request
  OBVIOUS
<1>2. {r \in Request : requests[r].status # "absent" /\ requests[r].pool = Dedicated} \cup D = D
  BY DEF InDedicated
<1>3. Queue!Promote
  BY <1>1, <1>2 DEF Queue!Promote, SamePhase, SameHolder
<1> QED
  BY <1>3 DEF Queue!Next

LEMMA QueueReleases ==
    ASSUME NEW q \in Request, \A r \in Request \ {q} : SameEntry(r), SamePool(q),
           NEW p \in {"done", "failed", "abandoned"}, Left(q, p)
    PROVE  Queue!Next
<1>1. Queue!Release(q, p)
  <2>1. [r \in Request |-> PhaseOf(r)]'
           = [r \in Request |-> IF r \in {q} THEN p ELSE [s \in Request |-> PhaseOf(s)][r]]
    BY DEF SameEntry, SamePhase, Left
  <2>2. [r \in Request |-> HolderOf(r)]' = [[r \in Request |-> HolderOf(r)] EXCEPT ![q] = None]
    <3>1. \A r \in Request : HolderOf(r)' = IF r = q THEN None ELSE HolderOf(r)
      BY DEF SameEntry, SameHolder, Left
    <3> QED
      BY <3>1
  <2> QED
    BY <2>1, <2>2 DEF Queue!Release, Queue!To, Left
<1>2. UNCHANGED {r \in Request : requests[r].status # "absent" /\ requests[r].pool = Dedicated}
  BY DEF SameEntry, SamePool, InDedicated
<1> QED
  BY <1>1, <1>2 DEF Queue!Next, Queue!Finish, Queue!Fail, Queue!Abandon

LEMMA QueueGivesBack ==
    ASSUME NEW q \in Request, \A r \in Request \ {q} : SameEntry(r), Left(q, "waiting"),
           HolderOf(q) \in Worker, PoolOf[HolderOf(q)] = Spot, InDedicated(q)'
    PROVE  Queue!Next
<1>1. Queue!Release(q, "waiting")
  <2>1. [r \in Request |-> PhaseOf(r)]'
           = [r \in Request |-> IF r \in {q} THEN "waiting" ELSE [s \in Request |-> PhaseOf(s)][r]]
    BY DEF SameEntry, SamePhase, Left
  <2>2. [r \in Request |-> HolderOf(r)]' = [[r \in Request |-> HolderOf(r)] EXCEPT ![q] = None]
    <3>1. \A r \in Request : HolderOf(r)' = IF r = q THEN None ELSE HolderOf(r)
      BY DEF SameEntry, SameHolder, Left
    <3> QED
      BY <3>1
  <2> QED
    BY <2>1, <2>2 DEF Queue!Release, Queue!To, Left
<1>2. {r \in Request : requests[r].status # "absent" /\ requests[r].pool = Dedicated}'
        = {r \in Request : requests[r].status # "absent" /\ requests[r].pool = Dedicated} \cup {q}
  BY DEF SameEntry, SamePool, InDedicated
<1>3. HolderOf(q) \notin {w \in Worker : PoolOf[w] = Dedicated}
  BY DEF Spot, Dedicated
<1> QED
  BY <1>1, <1>2, <1>3 DEF Queue!Next, Queue!GiveBack

LEMMA QueueClaims ==
    ASSUME NEW q \in Request, \A r \in Request \ {q} : SameEntry(r), SamePool(q), NEW w \in Worker,
           PhaseOf(q) = "waiting", PhaseOf(q)' = "held", HolderOf(q)' = w,
           \A r \in Request : HolderOf(r) # w,
           PoolOf[w] = Dedicated => InDedicated(q)
    PROVE  Queue!Next
<1>1. Queue!Claim(w, q)
  BY DEF Queue!Claim, Queue!To, SameEntry, SamePhase, SameHolder, SamePool, InDedicated
<1> QED
  BY <1>1 DEF Queue!Next

LEMMA QueueRequeues ==
    ASSUME NEW q \in Request, \A r \in Request \ {q} : SameEntry(r), SamePool(q), SameHolder(q),
           \/ PhaseOf(q) = "failed" /\ PhaseOf(q)' = "waiting"
           \/ PhaseOf(q) = "done" /\ PhaseOf(q)' = "failed"
    PROVE  Queue!Next
<1>1. UNCHANGED {r \in Request : requests[r].status # "absent" /\ requests[r].pool = Dedicated}
  BY DEF SameEntry, SamePool, InDedicated
<1>2. Queue!Retry(q) \/ Queue!Spoil(q)
  BY <1>1 DEF Queue!Retry, Queue!Spoil, Queue!To, SameEntry, SamePhase, SameHolder
<1> QED
  BY <1>2 DEF Queue!Next

----------------------------------------------------------------------------
(* Holders *)

HolderIs(r) ==
    /\ \A w \in Worker : Holds(w, r) => HolderOf(r) = w
    /\ (\A w \in Worker : ~Holds(w, r)) => HolderOf(r) = None
    /\ HolderOf(r) # None => HolderOf(r) \in Worker /\ Holds(HolderOf(r), r)

LEMMA Holders == ClaimInv => \A r \in Request : HolderIs(r)
<1> SUFFICES ASSUME ClaimInv, NEW r \in Request PROVE HolderIs(r)
  OBVIOUS
<1>1. ASSUME NEW v \in Worker, NEW w \in Worker, Holds(v, r), Holds(w, r) PROVE v = w
  BY <1>1 DEF Holds, ClaimInv, OwnerOnly, Owner
<1>2. CASE \E w \in Worker : Holds(w, r)
  <2>1. HolderOf(r) = CHOOSE w \in Worker : Holds(w, r)
    BY <1>2 DEF HolderOf
  <2>2. HolderOf(r) \in Worker /\ Holds(HolderOf(r), r)
    BY <1>2, <2>1
  <2> QED
    BY <1>1, <1>2, <2>2 DEF HolderIs
<1>3. CASE \A w \in Worker : ~Holds(w, r)
  BY <1>3 DEF HolderIs, HolderOf
<1> QED
  BY <1>2, <1>3

LEMMA HoldersNext == ClaimInv' => \A r \in Request : HolderIs(r)'
<1>1. ClaimInv' => (\A r \in Request : HolderIs(r))'
  BY Holders, PTL
<1> QED
  BY <1>1

\* A row whose status and holder stay has the same phase.
LEMMA HolderStays ==
    ASSUME ClaimInv, ClaimInv', NEW r \in Request,
           \A w \in Worker : Holds(w, r)' <=> Holds(w, r)
    PROVE  /\ SameHolder(r)
           /\ requests'[r].status = requests[r].status => SamePhase(r)
<1>1. HolderIs(r) /\ HolderIs(r)'
  BY Holders, HoldersNext
<1>2. SameHolder(r)
  BY <1>1 DEF HolderIs, SameHolder
<1> QED
  BY <1>2 DEF SameHolder, SamePhase, PhaseOf

----------------------------------------------------------------------------
(* Steps of a worker *)

LEMMA WorkerImplements ==
    ASSUME TypeInv, SafeInv, ClaimInv, ClaimInv', NEW w \in Worker,
           WorkerStep(w) \/ WorkerFault(w) \/ WorkerCrash(w)
    PROVE  Queue!Next \/ UNCHANGED Queue!queueVars
<1> USE StoreAssumption DEF finVars, dbVars
<1>1. w \in Actor /\ w \in Finalizing /\ w # Scheduler
  BY DEF Finalizing, Actor
<1>2. /\ DbTypes /\ ProcTypes /\ FinalizerTypeOK /\ WorkerHolds(w)
      /\ ErrorHeld(w) /\ OwnedRow(w)
  BY TypeParts DEF TypeInv, ClaimInv
<1>3. /\ \A v \in Worker \ {w} : pc'[v] = pc[v] /\ job'[v] = job[v]
      /\ WorkerStays(w)
  BY WorkerMoves, WorkerOwns DEF Actor
<1>4. ASSUME NEW v \in Worker \ {w}, NEW r \in Request, requests'[r] = requests[r]
      PROVE  Holds(v, r)' <=> Holds(v, r)
  BY <1>3, <1>4 DEF Holds, Serving
\* Nothing happens to the requests the worker does not work on.
<1>5. ASSUME NEW r \in Request \ {job[w]} PROVE SameEntry(r)
  <2>1. requests'[r] = requests[r]
    BY <1>3 DEF WorkerStays
  <2>2. ~Holds(w, r) /\ ~Holds(w, r)'
    BY <1>3, <2>1 DEF Holds, WorkerStays, Owner, Serving
  <2>3. \A v \in Worker : Holds(v, r)' <=> Holds(v, r)
    BY <1>4, <2>1, <2>2
  <2> QED
    BY <2>1, <2>3, HolderStays DEF SameEntry, SamePool, InDedicated
\* Nothing happens at all when the worker holds its request as before.
<1>6. ASSUME UNCHANGED requests, \A r \in Request : Holds(w, r)' <=> Holds(w, r)
      PROVE  UNCHANGED Queue!queueVars
  <2>1. ASSUME NEW r \in Request PROVE SameEntry(r)
    <3>1. \A v \in Worker : Holds(v, r)' <=> Holds(v, r)
      BY <1>4, <1>6
    <3> QED
      BY <1>6, <3>1, HolderStays DEF SameEntry, SamePool, InDedicated
  <2> QED
    BY <2>1, QueueStutters
<1>7. CASE DequeueSelect(w) \/ WorkerRestart(w)
  <2>1. /\ pc[w] \in {"idle", "down"} /\ pc'[w] \in {"locked", "idle"}
        /\ requests' = requests
    BY <1>1, <1>2, <1>7 DEF DequeueSelect, WorkerRestart, At, ProcTypes
  <2> QED
    BY <1>6, <2>1 DEF Holds, Serving
<1>8. CASE DequeueCommit(w) \/ MarkRunningLost(w)
  <2>1. /\ pc[w] \in {"locked", "claim"} /\ pc'[w] \in {"claim", "idle"}
        /\ requests' = requests
    BY <1>1, <1>2, <1>8 DEF DequeueCommit, MarkRunningLost, Release, At, ProcTypes
  <2> QED
    BY <1>6, <2>1 DEF Holds, Serving
<1>9. CASE Process(w) \/ SpotInterruption(w) \/ MarkCompletedLoad(w) \/ MarkFailedLoad(w)
  <2>1. /\ pc[w] \in {"process", "mcLoad", "mfLoad"} /\ pc'[w] \in {"mcLoad", "mcSave", "mfLoad", "mfSave"}
        /\ UNCHANGED <<requests, job>>
    BY <1>1, <1>2, <1>9
       DEF Process, SpotInterruption, MarkCompletedLoad, MarkFailedLoad, LoadJob, At, ProcTypes
  <2> QED
    BY <1>6, <2>1 DEF Holds, Serving
<1>10. CASE FinStep(w)
  <2>1. pc[w] \in FinalizerLabels /\ requests' = requests
    BY <1>1, <1>10, FinMoves
  <2>2. \/ pc'[w] \in FinalizerLabels \cup {"idle", "down"}
        \/ err[w] = "none" /\ job' = job
    BY <1>1, <1>2, <1>10
       DEF FinStep, FinLoad, FinCount, FinFailed, FinRead, FinOpen, FinOpenFails, FinWrite, FinSave,
           Return, Throw, Release, ProcTypes, FinalizerLabels
  <2>3. err[w] = "none" => requests[job[w]].status = "Completed"
    BY <1>2, <2>1 DEF OwnedRow
  <2> QED
    BY <1>6, <2>1, <2>2, <2>3 DEF Holds, Serving, FinalizerLabels
<1>11. CASE WorkerFault(w)
  <2>1. /\ pc[w] \in {"mcLoad", "mcSave"} \cup FinalizerLabels /\ pc'[w] = "mfLoad" /\ err[w] = "none"
        /\ UNCHANGED <<requests, job>>
    BY <1>1, <1>2, <1>11 DEF WorkerFault, Throw, ProcTypes
  <2>2. pc[w] \in FinalizerLabels => requests[job[w]].status = "Completed"
    BY <1>2, <2>1 DEF OwnedRow
  <2> QED
    BY <1>6, <2>1, <2>2 DEF Holds, Serving, FinalizerLabels
\* The worker's own request: it is the only one that can hold it.
<1>12. ASSUME Busy(w) PROVE job[w] \in Request
  BY <1>2, <1>12 DEF WorkerHolds
<1>13. ASSUME NEW q \in Request, q = job[w], Owner(w), ~Holds(w, q)' PROVE HolderOf(q)' = None
  <2>1. \A v \in Worker \ {w} : ~Holds(v, q)'
    BY <1>3, <1>13 DEF ClaimInv, OwnerOnly, Owner, Holds, Serving
  <2> QED
    BY <1>13, <2>1, HoldersNext DEF HolderIs
<1>14. ASSUME NEW q \in Request, q = job[w], Holds(w, q) PROVE HolderOf(q) = w /\ Owner(w) /\ w # None
  BY <1>14, Holders DEF HolderIs, Holds, Owner, Serving
<1>15. CASE WorkerCrash(w)
  <2>1. pc'[w] = "down" /\ requests' = requests /\ Busy(w)
    BY <1>1, <1>2, <1>15 DEF WorkerCrash, Release, ProcTypes, Busy
  <2>2. PICK q \in Request : q = job[w]
    BY <1>12, <2>1
  <2>3. CASE Holds(w, q)
    <3>1. HolderOf(q) = w /\ w # None /\ HolderOf(q)' = None
      BY <1>13, <1>14, <2>1, <2>2, <2>3 DEF Holds, Serving
    <3>2. PhaseOf(q)' = "abandoned"
      BY <2>1, <2>3, <3>1 DEF PhaseOf, Holds
    <3> QED
      BY <1>5, <2>1, <2>2, <3>1, <3>2, QueueReleases DEF Left, SamePool, InDedicated
  <2>4. CASE ~Holds(w, q)
    BY <1>6, <2>1, <2>2, <2>4 DEF Holds, Serving
  <2> QED
    BY <2>3, <2>4
<1>16. CASE MarkRunning(w)
  <2>1. PICK q \in Request : q = job[w]
    BY <1>12, <1>16 DEF MarkRunning, At, Busy
  <2>2. /\ pc[w] = "claim" /\ pc'[w] = "process" /\ job' = job
        /\ requests[q].status = "Queued" /\ requests'[q].status = "Running"
        /\ requests'[q].pool = requests[q].pool
    BY <1>1, <1>2, <1>16, <2>1 DEF MarkRunning, Claimable, At, ProcTypes, DbTypes, RequestRow
  <2>3. HolderOf(q)' = w
    <3>1. Holds(w, q)'
      BY <2>1, <2>2 DEF Holds, Serving
    <3> QED
      BY <3>1, HoldersNext DEF HolderIs
  <2>4. \A r \in Request : HolderOf(r) # w
    BY <2>2, Holders DEF HolderIs, Holds, Serving
  <2>5. PhaseOf(q) = "waiting" /\ PhaseOf(q)' = "held"
    BY <2>2, <2>3 DEF PhaseOf
  <2>6. PoolOf[w] = Dedicated => InDedicated(q)
    BY <2>1, <2>2 DEF SafeInv, PoolInv, Busy, InDedicated
  <2>7. SamePool(q)
    BY <2>2 DEF SamePool, InDedicated
  <2> QED
    BY <1>5, <2>1, <2>3, <2>4, <2>5, <2>6, <2>7, QueueClaims
\* The saves of an outcome.
<1>17. ASSUME pc[w] \in {"mcSave", "mfSave"}, NEW q \in Request, q = job[w],
              NEW new \in RequestRow, SaveJob(w, new), new.status \notin {rctx[w][q].status, "Running"}
       PROVE  /\ rctx[w][q].status = requests[q].status
              /\ requests'[q].status = new.status
              /\ requests'[q].pool = Column(requests[q].pool, rctx[w][q].pool, new.pool)
              /\ HolderOf(q)' = None
              /\ requests[q].status = "Running" => HolderOf(q) = w /\ w # None
              /\ requests[q].status # "Running" => HolderOf(q) = None
  <2>1. Owner(w) /\ rctx[w][q].status = requests[q].status
    BY <1>2, <1>17 DEF Owner, OwnedRow, Serving
  <2>2. requests' = [requests EXCEPT ![q] = MergeRequest(@, rctx[w][q], new)]
    BY <1>17 DEF SaveJob
  <2>3. /\ requests'[q].status = new.status
        /\ requests'[q].pool = Column(requests[q].pool, rctx[w][q].pool, new.pool)
    BY <1>2, <1>17, <2>1, <2>2 DEF MergeRequest, Column, DbTypes
  <2>4. HolderOf(q)' = None
    BY <1>13, <1>17, <2>1, <2>3 DEF Holds
  <2>5. requests[q].status = "Running" => HolderOf(q) = w /\ w # None
    BY <1>14, <1>17 DEF Holds, Serving
  <2>6. requests[q].status # "Running" => HolderOf(q) = None
    BY Holders DEF HolderIs, Holds
  <2> QED
    BY <2>1, <2>3, <2>4, <2>5, <2>6
<1>18. ASSUME pc[w] \in {"mcSave", "mfSave"} PROVE rctx[w][job[w]] \in RequestRow /\ job[w] \in Request
  BY <1>1, <1>2, <1>18 DEF WorkerHolds, Busy, ProcTypes
<1>19. CASE MarkCompletedSave(w)
  <2> PICK q \in Request : q = job[w]
    BY <1>18, <1>19 DEF MarkCompletedSave, At
  <2> DEFINE old == rctx[w][q]
             new == CompletedRow(old, q)
  <2>1. pc[w] = "mcSave" /\ old.status = "Running" /\ SaveJob(w, new)
    BY <1>2, <1>19 DEF MarkCompletedSave, At, OwnedRow
  <2>2. new \in RequestRow /\ new.status = "Completed" /\ new.pool = old.pool
    BY <1>18, <2>1 DEF CompletedRow, RequestRow, RequestStatus
  <2> HIDE DEF new
  <2>3. /\ requests[q].status = "Running" /\ requests'[q].status = "Completed"
        /\ requests'[q].pool = Column(requests[q].pool, old.pool, new.pool)
        /\ HolderOf(q)' = None /\ HolderOf(q) = w /\ w # None
    BY <1>17, <2>1, <2>2
  <2>4. SamePool(q) /\ Left(q, "done")
    BY <2>2, <2>3 DEF SamePool, InDedicated, Column, Left, PhaseOf
  <2> QED
    BY <1>5, <2>3, <2>4, QueueReleases
<1>20. CASE MarkFailedSave(w)
  <2> PICK q \in Request : q = job[w]
    BY <1>18, <1>20 DEF MarkFailedSave, At
  <2> DEFINE old == rctx[w][q]
             new == FailedRow(old)
  <2>1. pc[w] = "mfSave" /\ old.status \in {"Running", "Completed"} /\ SaveJob(w, new)
    BY <1>2, <1>20 DEF MarkFailedSave, At, OwnedRow
  <2>2. new \in RequestRow /\ new.status = "Failed" /\ new.pool = old.pool
    BY <1>18, <2>1 DEF FailedRow, RequestRow, RequestStatus
  <2> HIDE DEF new
  <2>3. /\ requests[q].status = old.status /\ requests'[q].status = "Failed"
        /\ requests'[q].pool = Column(requests[q].pool, old.pool, new.pool)
        /\ HolderOf(q)' = None
        /\ requests[q].status = "Running" => HolderOf(q) = w /\ w # None
        /\ requests[q].status # "Running" => HolderOf(q) = None
    BY <1>17, <2>1, <2>2
  <2>4. SamePool(q) /\ PhaseOf(q)' = "failed"
    BY <2>1, <2>2, <2>3 DEF SamePool, InDedicated, Column, PhaseOf
  <2>5. CASE requests[q].status = "Running"
    BY <1>5, <2>3, <2>4, <2>5, QueueReleases DEF Left
  <2>6. CASE requests[q].status # "Running"
    <3>1. PhaseOf(q) = "done" /\ SameHolder(q)
      BY <2>1, <2>3, <2>6 DEF PhaseOf, SameHolder
    <3> QED
      BY <1>5, <2>3, <2>4, <3>1, QueueRequeues
  <2> QED
    BY <2>5, <2>6
<1>21. CASE MarkFailedRequeue(w)
  <2> PICK q \in Request : q = job[w]
    BY <1>18, <1>21 DEF MarkFailedRequeue, At
  <2> DEFINE old == rctx[w][q]
             new == RequeuedRow(old)
  <2>1. /\ pc[w] = "mfSave" /\ err[w] = "interruption" /\ old.pool = Spot /\ SaveJob(w, new)
        /\ PoolOf[w] = Spot /\ requests[q].status = "Running" /\ old.status = "Running"
    BY <1>2, <1>21 DEF MarkFailedRequeue, IsSpotInterruption, At, OwnedRow, Interrupted, ErrorHeld
  <2>2. new \in RequestRow /\ new.status = "Queued" /\ new.pool = Dedicated
    BY <1>18, <2>1 DEF RequeuedRow, RequestRow, RequestStatus, Pools
  <2> HIDE DEF new
  <2>3. /\ requests'[q].status = "Queued"
        /\ requests'[q].pool = Column(requests[q].pool, old.pool, new.pool)
        /\ HolderOf(q)' = None /\ HolderOf(q) = w /\ w # None
    BY <1>17, <2>1, <2>2
  <2>4. InDedicated(q)' /\ Left(q, "waiting")
    BY <2>1, <2>2, <2>3 DEF InDedicated, Column, Left, PhaseOf, Spot, Dedicated
  <2> QED
    BY <1>5, <2>1, <2>3, <2>4, QueueGivesBack
<1>22. CASE WorkerStep(w)
  BY ONLY <1>7, <1>8, <1>9, <1>10, <1>16, <1>19, <1>20, <1>21, <1>22 DEF WorkerStep
<1> QED
  BY <1>11, <1>15, <1>22

----------------------------------------------------------------------------
(* Steps of the gateway and of the scheduler *)

\* No worker moves.
WorkersStay == \A w \in Worker : pc'[w] = pc[w] /\ job'[w] = job[w]

\* A row that keeps its status keeps its entry, but for its pool.
LEMMA EntryStays ==
    ASSUME ClaimInv, ClaimInv', WorkersStay, NEW r \in Request,
           requests'[r].status = requests[r].status
    PROVE  SamePhase(r) /\ SameHolder(r)
BY HolderStays DEF WorkersStay, Holds, Serving

\* A row that is not running has no holder.
LEMMA NoHolder ==
    ASSUME ClaimInv, ClaimInv', NEW r \in Request
    PROVE  /\ requests[r].status # "Running" => HolderOf(r) = None
           /\ requests'[r].status # "Running" => HolderOf(r)' = None
BY Holders, HoldersNext DEF HolderIs, Holds

LEMMA GatewayImplements ==
    ASSUME TypeInv, ClaimInv, ClaimInv',
           \/ \E h \in Handler : HandlerStep(h) \/ HangUp(h)
           \/ ClientStep
           \/ \E b \in Batch : DeadlineNears(b)
    PROVE  Queue!Next \/ UNCHANGED Queue!queueVars
<1> USE StoreAssumption DEF dbVars
<1>1. DbTypes /\ ProcTypes /\ \A h \in Handler : HandlerHolds(h)
  BY TypeParts DEF TypeInv
<1>2. ASSUME UNCHANGED requests, WorkersStay PROVE UNCHANGED Queue!queueVars
  BY <1>2, EntryStays, QueueStutters DEF SameEntry, SamePool, InDedicated
<1>3. ASSUME NEW h \in Handler, Release(h, "idle") PROVE WorkersStay
  BY <1>1, <1>3 DEF Release, ProcTypes, WorkersStay, Actor
<1>4. CASE \E b \in Batch : \/ UploadWrite(b) \/ UploadRegister(b) \/ CreateBatch(b)
                            \/ LoseInput(b) \/ DeadlineNears(b)
  BY <1>2, <1>4 DEF UploadWrite, UploadRegister, CreateBatch, LoseInput, DeadlineNears, procVars, WorkersStay
<1>5. ASSUME NEW h \in Handler, NEW b \in Batch, CancelLoad(h, b) PROVE UNCHANGED Queue!queueVars
  BY <1>1, <1>2, <1>5 DEF CancelLoad, WorkersStay, ProcTypes, Actor
<1>6. ASSUME NEW h \in Handler, NEW r \in Request, RetryLoad(h, r) PROVE UNCHANGED Queue!queueVars
  BY <1>1, <1>2, <1>6 DEF RetryLoad, WorkersStay, ProcTypes, Actor
<1>7. ASSUME NEW h \in Handler, CancelSave(h) \/ HangUp(h) PROVE UNCHANGED Queue!queueVars
  BY <1>2, <1>3, <1>7 DEF CancelSave, HangUp
<1>8. ASSUME NEW h \in Handler, CancelRequests(h) PROVE Queue!Next
  <2>1. PICK b \in Batch : b = cur[h]
    BY <1>1, <1>8 DEF CancelRequests, HandlerHolds
  <2>2. WorkersStay
    BY <1>1, <1>8 DEF CancelRequests, WorkersStay, ProcTypes, Actor
  <2> DEFINE cancelled(r) == BatchOf[r] = b /\ requests[r].status = "Queued"
  <2>3. \A r \in Request : requests'[r] = IF cancelled(r) THEN [requests[r] EXCEPT !.status = "Cancelled"]
                                          ELSE requests[r]
    BY <1>8, <2>1 DEF CancelRequests, CancelledRows
  <2>4. ASSUME NEW r \in Request, ~cancelled(r) PROVE SameEntry(r) /\ ~(BatchOf[r] = b /\ PhaseOf(r) = "waiting")
    <3>1. requests'[r] = requests[r]
      BY <2>3, <2>4
    <3>2. SameEntry(r)
      BY <2>2, <3>1, EntryStays DEF SameEntry, SamePool, InDedicated
    <3>3. requests[r].status \in RequestStatus
      BY <1>1 DEF DbTypes, RequestRow
    <3>4. PhaseOf(r) = "waiting" => requests[r].status = "Queued"
      BY <3>3 DEF PhaseOf, RequestStatus
    <3> QED
      BY <2>4, <3>2, <3>4
  <2>5. ASSUME NEW r \in Request, cancelled(r)
        PROVE  PhaseOf(r) = "waiting" /\ PhaseOf(r)' = "withdrawn" /\ SameHolder(r) /\ SamePool(r)
    <3>1. requests'[r] = [requests[r] EXCEPT !.status = "Cancelled"]
      BY <2>3, <2>5
    <3>2. requests[r] \in RequestRow
      BY <1>1 DEF DbTypes
    <3>3. requests'[r].status = "Cancelled" /\ requests'[r].pool = requests[r].pool
      BY <3>1, <3>2 DEF RequestRow
    <3> QED
      BY <2>5, <3>3, NoHolder DEF PhaseOf, SameHolder, SamePool, InDedicated
  <2>6. [r \in Request |-> PhaseOf(r)]'
          = [r \in Request |-> IF r \in {s \in Request : BatchOf[s] = b /\ PhaseOf(s) = "waiting"}
                               THEN "withdrawn" ELSE PhaseOf(r)]
    BY <2>4, <2>5 DEF SameEntry, SamePhase
  <2>7. /\ UNCHANGED [r \in Request |-> HolderOf(r)]
        /\ UNCHANGED {r \in Request : requests[r].status # "absent" /\ requests[r].pool = Dedicated}
    BY <2>4, <2>5 DEF SameEntry, SameHolder, SamePool, InDedicated
  <2>8. Queue!Withdraw(b)
    BY <2>6, <2>7 DEF Queue!Withdraw, Queue!To
  <2> QED
    BY <2>8 DEF Queue!Next
<1>9. ASSUME NEW h \in Handler, RetrySave(h) PROVE Queue!Next \/ UNCHANGED Queue!queueVars
  <2>1. PICK q \in Request : q = job[h]
    BY <1>1, <1>9 DEF RetrySave, HandlerHolds
  <2> DEFINE old == rctx[h][q]
             new == RetriedRow(old)
  <2>2. requests[q].status = "Failed" /\ old \in RequestRow /\ requests[q] \in RequestRow /\ WorkersStay
    BY <1>1, <1>3, <1>9, <2>1
       DEF RetrySave, HandlerHolds, ClaimInv, RetryHeld, ProcTypes, DbTypes, Actor
  <2>3. requests' = [requests EXCEPT ![q] = MergeRequest(@, old, new)]
    BY <1>9, <2>1 DEF RetrySave
  <2>4. new.status = "Queued" /\ new.pool = old.pool
    BY <2>2 DEF RetriedRow, RequestRow
  <2> HIDE DEF old, new
  <2>5. /\ requests'[q].pool = requests[q].pool
        /\ requests'[q].status \in {"Queued", "Failed"}
        /\ \A r \in Request \ {q} : requests'[r] = requests[r]
    BY <1>1, <2>2, <2>3, <2>4 DEF MergeRequest, Column, DbTypes
  <2>6. \A r \in Request \ {q} : SameEntry(r)
    BY <2>2, <2>5, EntryStays DEF SameEntry, SamePool, InDedicated
  <2>7. SameHolder(q) /\ SamePool(q) /\ PhaseOf(q) = "failed"
    BY <2>2, <2>5, NoHolder DEF SameHolder, SamePool, InDedicated, PhaseOf
  <2>8. CASE requests'[q].status = "Queued"
    BY <2>6, <2>7, <2>8, QueueRequeues DEF PhaseOf
  <2>9. CASE requests'[q].status = "Failed"
    <3>1. \A r \in Request : SameEntry(r)
      BY <2>6, <2>7, <2>9 DEF SameEntry, SamePhase, PhaseOf
    <3> QED
      BY <3>1, QueueStutters
  <2> QED
    BY <2>5, <2>8, <2>9
<1> QED
  BY <1>4, <1>5, <1>6, <1>7, <1>8, <1>9 DEF HandlerStep, ClientStep

LEMMA SchedulerImplements ==
    ASSUME TypeInv, SafeInv, ClaimInv, ClaimInv', SchedulerStep \/ SchedulerAbort
    PROVE  Queue!Next \/ UNCHANGED Queue!queueVars
<1> USE StoreAssumption DEF dbVars
<1>1. /\ Scheduler \in Actor /\ Scheduler \in Finalizing /\ Scheduler \notin Worker
      /\ DbTypes /\ ProcTypes /\ SchedulerHolds
  BY TypeParts DEF Finalizing, Actor, TypeInv
<1>2. WorkersStay
  BY <1>1, SchedulerMoves DEF WorkersStay, Actor
<1>3. CASE UNCHANGED requests
  BY <1>2, <1>3, EntryStays, QueueStutters DEF SameEntry, SamePool, InDedicated
<1>4. CASE FinStep(Scheduler)
  BY <1>1, <1>3, <1>4, FinMoves
<1>5. CASE EscalateSave
  <2> DEFINE R == rctx[Scheduler]
  <2>1. R \in [Request -> RequestRow \cup {None}]
    BY <1>1 DEF ProcTypes
  <2>2. \A row \in RequestRow : OnDedicated(row).status = row.status /\ OnDedicated(row).pool = Dedicated
    BY DEF OnDedicated, RequestRow
  <2>3. ASSUME NEW r \in Request
        PROVE  /\ requests'[r].status = requests[r].status
               /\ requests[r].pool = Dedicated => requests'[r].pool = Dedicated
    <3>1. requests'[r] = IF R[r] = None THEN requests[r]
                         ELSE MergeRequest(requests[r], R[r], OnDedicated(R[r]))
      BY <1>5 DEF EscalateSave
    <3> HIDE DEF R
    <3> QED
      BY <2>1, <2>2, <3>1 DEF MergeRequest, Column
  <2>4. \A r \in Request : SamePhase(r) /\ SameHolder(r) /\ (InDedicated(r) => InDedicated(r)')
    BY <1>2, <2>3, EntryStays DEF InDedicated
  <2> QED
    BY <2>4, QueuePromotes
<1>6. CASE SaveIngested
  <2>1. PICK b \in Batch : b = cur[Scheduler]
    BY <1>1, <1>6 DEF SaveIngested, At, SchedulerHolds
  <2> DEFINE R == {r \in Request : BatchOf[r] = b}
             answered == {r \in R : rctx[Scheduler][r].status = "Completed"}
             D == IF poolNow = Dedicated THEN R ELSE {}
  <2>2. ASSUME NEW r \in R
        PROVE  /\ requests[r].status = "absent"
               /\ requests'[r].status = IF r \in answered THEN "Completed" ELSE "Queued"
               /\ requests'[r].pool = poolNow
    <3>1. requests'[r] = rctx[Scheduler][r] /\ rctx[Scheduler][r] # None
      BY <1>6, <2>1 DEF SaveIngested, LinesLeft, RequestsOf
    <3>2. /\ requests[r].status = "absent"
          /\ rctx[Scheduler][r].status \in {"Queued", "Completed"} /\ rctx[Scheduler][r].pool = poolNow
      BY <1>6, <2>1, <3>1
         DEF SaveIngested, At, SafeInv, IngestInv, ListIsAbsent, Absent, RequestsOf, OutputInv, InsertedSound
    <3> QED
      BY <3>1, <3>2
  <2>3. ASSUME NEW r \in Request \ R PROVE requests'[r] = requests[r]
    BY <1>6, <2>1, <2>3 DEF SaveIngested
  <2>4. ASSUME NEW r \in R
        PROVE  /\ PhaseOf(r) = "absent" /\ SameHolder(r) /\ ~InDedicated(r)
               /\ PhaseOf(r)' = IF r \in answered THEN "done" ELSE "waiting"
               /\ InDedicated(r)' <=> poolNow = Dedicated
    BY <2>2, NoHolder DEF PhaseOf, SameHolder, InDedicated
  <2>5. ASSUME NEW r \in Request \ R PROVE SameEntry(r)
    BY <1>2, <2>3, EntryStays DEF SameEntry, SamePool, InDedicated
  <2> HIDE DEF answered
  <2>6. [r \in Request |-> PhaseOf(r)]'
          = [r \in Request |-> IF r \in answered THEN "done"
                               ELSE IF r \in R THEN "waiting" ELSE [s \in Request |-> PhaseOf(s)][r]]
    <3>1. answered \subseteq R
      BY DEF answered
    <3> QED
      BY <2>4, <2>5, <3>1 DEF SameEntry, SamePhase
  <2>7. UNCHANGED [r \in Request |-> HolderOf(r)]
    BY <2>4, <2>5 DEF SameEntry, SameHolder
  <2>8. {r \in Request : requests[r].status # "absent" /\ requests[r].pool = Dedicated}'
          = {r \in Request : requests[r].status # "absent" /\ requests[r].pool = Dedicated} \cup D
    BY <2>4, <2>5 DEF SameEntry, SamePool, InDedicated
  <2>9. Queue!Enter(b)
    <3>1. answered \in SUBSET R /\ D \in {{}, R}
      BY DEF answered
    <3> QED
      BY <2>4, <2>6, <2>7, <2>8, <3>1 DEF Queue!Enter
  <2> QED
    BY <2>9 DEF Queue!Next
<1>7. CASE ~(FinStep(Scheduler) \/ EscalateSave \/ SaveIngested)
  BY <1>3, <1>7 DEF SchedulerStep, SchedulerAbort, LoadQueued, NextBatch, SaveRejected, ReadLine, EscalateLoad
<1> QED
  BY <1>4, <1>5, <1>6, <1>7

----------------------------------------------------------------------------
(* The refinement *)

LEMMA InitialQueue == Init => Queue!Init
<1> SUFFICES ASSUME Init PROVE Queue!Init
  OBVIOUS
<1>1. ASSUME NEW r \in Request PROVE PhaseOf(r) = "absent" /\ HolderOf(r) = None /\ ~InDedicated(r)
  BY DEF Init, StoreInit, NoRequest, PhaseOf, HolderOf, Holds, InDedicated
<1> QED
  BY <1>1 DEF Queue!Init, InDedicated

LEMMA QueueStep ==
    TypeInv /\ SafeInv /\ ClaimInv /\ ClaimInv' /\ [Next]_vars => [Queue!Next]_(Queue!queueVars)
<1> SUFFICES ASSUME TypeInv, SafeInv, ClaimInv, ClaimInv', [Next]_vars
             PROVE  Queue!Next \/ UNCHANGED Queue!queueVars
  OBVIOUS
<1>1. CASE UNCHANGED vars
  <2>1. UNCHANGED requests /\ WorkersStay
    BY <1>1 DEF vars, storeVars, WorkersStay
  <2> QED
    BY <2>1, EntryStays, QueueStutters DEF SameEntry, SamePool, InDedicated
<1>2. CASE \E w \in Worker : (WorkerStep(w) \/ WorkerFault(w) \/ WorkerCrash(w)) /\ UNCHANGED schedVars
  BY <1>2, WorkerImplements
<1>3. CASE SchedulerStep \/ SchedulerAbort
  BY <1>3, SchedulerImplements
<1>4. CASE \/ \E h \in Handler : HandlerStep(h) \/ HangUp(h)
           \/ ClientStep
           \/ \E b \in Batch : DeadlineNears(b)
  BY <1>4, GatewayImplements
<1> QED
  BY <1>1, <1>2, <1>3, <1>4 DEF Next

\* Whatever is loaded before and saved after the steps of other processes, and
\* whichever process fails or stops in between, the requests are those of an
\* atomic queue with one holder each, as long as no request is retried twice at
\* once.
THEOREM QueueImplemented == Spec /\ []OneRetry => ImplementsQueue
<1>1. Init => Queue!Init
  BY InitialQueue
<1>2. TypeInv /\ SafeInv /\ ClaimInv /\ ClaimInv' /\ [Next]_vars => [Queue!Next]_(Queue!queueVars)
  BY QueueStep
<1> QED
  BY <1>1, <1>2, TypeInvariant, SafetyInvariant, ClaimInvariant, PTL DEF Spec, ImplementsQueue, Queue!Spec
============================================================================
