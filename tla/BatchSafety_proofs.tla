------------------------ MODULE BatchSafety_proofs ------------------------
(***************************************************************************)
(* Three safety properties for all pods, batches and schedules, crashes,   *)
(* retries, hang-ups and cancellations included: a file is split into      *)
(* requests once, a completed request has its output, and a dedicated      *)
(* worker only runs what the table assigns to the dedicated pool.          *)
(*                                                                         *)
(* They are proved together.  Saves of stale copies are harmless for them  *)
(* because every save, whoever does it and however old its copy is, keeps  *)
(* four facts of a row (KeepsRows); the exception is the scheduler's       *)
(* insertion, which only meets absent rows (IngestInv).                    *)
(***************************************************************************)
EXTENDS BatchTypes_proofs

SafeInv == IngestInv /\ OutputInv /\ PoolInv

\* What no save but the insertion may change in a row.
KeepsRows ==
    \A r \in Request :
        /\ requests'[r].status = "absent" <=> requests[r].status = "absent"
        /\ requests[r].output # None => requests'[r].output # None
        /\ requests'[r].status = "Completed" => requests'[r].output # None
        /\ requests[r].pool = Dedicated => requests'[r].pool = Dedicated

\* No batch is put back in the scheduler's queue.
KeepsBatches ==
    \A b \in Batch : batches'[b].status \in {"absent", "queued"}
                        => batches[b].status \in {"absent", "queued"}

\* Worker w is idle after the step, or serves what it served before; what it
\* is about to save as completed it had loaded before the step or has loaded now.
KeepsJob(w) ==
    Busy(w)' =>
        /\ Busy(w) /\ job'[w] = job[w]
        /\ pc'[w] = "mcSave" =>
              \/ pc[w] = "mcSave" /\ rctx'[w][job[w]] = rctx[w][job[w]]
              \/ rctx'[w][job[w]] = requests[job[w]]

KeepsHandler(h) ==
    pc'[h] = "retrySave" => pc[h] = "retrySave" /\ job'[h] = job[h]

LEMMA InitialSafety == Init => SafeInv
BY StoreAssumption
   DEF Init, StoreInit, FinalizerInit, SchedulerInit, SafeInv, IngestInv, QueuedIsAbsent, Absent, RequestsOf,
       ListIsAbsent, JobsPresent, Busy, OutputInv, CompletedHasOutput, OutputKept, InsertedSound, PoolInv,
       NoBatch, NoRequest, NoRequestsTracked, Actor, FinalizerLabels

\* Where a finalizer's step can go and what it leaves alone.
LEMMA FinMoves ==
    ASSUME TypeInv, NEW a \in Finalizing, FinStep(a)
    PROVE  /\ requests' = requests
           /\ KeepsBatches
           /\ pc[a] \in FinalizerLabels
           /\ \A x \in Actor \ {a} : /\ pc'[x] = pc[x] /\ job'[x] = job[x] /\ cur'[x] = cur[x]
                                     /\ bctx'[x] = bctx[x] /\ rctx'[x] = rctx[x]
           /\ a \in Worker => KeepsJob(a)
           /\ a = Scheduler =>
                 /\ pc'[a] \in {"idle", "next"} => \A r \in Request : rctx'[a][r] = None
                 /\ \/ pc'[a] = "idle"
                    \/ /\ pc'[a] \in {"next"} \cup (FinalizerLabels \ {"finLoad"})
                       /\ pc'[a] # "next" => cur'[a] = cur[a]
                       /\ \A b \in Batch \ {cur[a]} : bctx'[a][b] = bctx[a][b]
<1> USE StoreAssumption DEF finVars, dbVars
<1>1. a \in Actor /\ (a \in Worker \/ a = Scheduler)
  BY DEF Finalizing, Actor
<1>2. DbTypes /\ ProcTypes
  BY TypeParts
<1>3. pc[a] \in FinalizerLabels /\ requests' = requests
  BY DEF FinStep, FinLoad, FinCount, FinFailed, FinRead, FinOpen, FinOpenFails, FinWrite, FinSave, At,
         FinalizerLabels
<1>4. KeepsBatches
  <2>1. CASE FinSave(a)
    <3>1. cur[a] \in Batch
      BY <1>1, <1>3 DEF TypeInv, WorkerHolds, Busy, SchedulerHolds, FinalizerLabels
    <3>2. batches' = [batches EXCEPT ![cur[a]] = MergeBatch(@, bctx[a][cur[a]], FinalBatch(a))]
      BY <2>1 DEF FinSave
    <3>3. FinalBatch(a).status \in {"completed", "failed"} /\ bctx[a][cur[a]] \in BatchRow
      BY <1>1, <1>2, <1>3, <2>1, <3>1
         DEF FinSave, At, FinalBatch, ProcTypes, BatchRow, TypeInv, WorkerHolds, SchedulerHolds, Busy, FinalizerLabels
    <3> QED
      BY <1>2, <3>1, <3>2, <3>3 DEF KeepsBatches, MergeBatch, Column, DbTypes
  <2>2. CASE ~FinSave(a)
    BY <2>2 DEF FinStep, FinLoad, FinCount, FinFailed, FinRead, FinOpen, FinOpenFails, FinWrite, KeepsBatches
  <2> QED
    BY <2>1, <2>2
<1>5. CASE Return(a) \/ Throw(a)
  <2>1. CASE a = Scheduler
    BY <1>1, <1>2, <1>3, <1>4, <1>5, <2>1
       DEF Return, Throw, Release, ProcTypes, NoRequestsTracked, NoBatchesTracked
  <2>2. CASE a # Scheduler
    BY <1>1, <1>2, <1>3, <1>4, <1>5, <2>2
       DEF Return, Throw, Release, ProcTypes, NoRequestsTracked, NoBatchesTracked, KeepsJob, Busy, FinalizerLabels
  <2> QED
    BY <2>1, <2>2
<1>6. CASE ~(Return(a) \/ Throw(a))
  <2>1. PICK l \in FinalizerLabels \ {"finLoad"} :
           /\ pc' = [pc EXCEPT ![a] = l] /\ UNCHANGED <<cur, job, rctx>>
           /\ bctx' = bctx \/ bctx' = [bctx EXCEPT ![a][cur[a]] = BatchSeenBy(a, cur[a])]
    BY <1>6 DEF FinStep, FinLoad, FinCount, FinFailed, FinRead, FinOpen, FinOpenFails, FinWrite, FinSave,
                FinalizerLabels
  <2>2. /\ \A x \in Actor \ {a} : bctx'[x] = bctx[x]
        /\ \A b \in Batch \ {cur[a]} : bctx'[a][b] = bctx[a][b]
    BY <1>1, <1>2, <2>1 DEF ProcTypes
  <2>3. pc'[a] = l /\ \A x \in Actor \ {a} : pc'[x] = pc[x]
    BY <1>1, <1>2, <2>1 DEF ProcTypes
  <2> QED
    BY <1>1, <1>3, <1>4, <2>1, <2>2, <2>3 DEF KeepsJob, Busy, FinalizerLabels
<1> QED
  BY <1>5, <1>6

\* What a worker's step can change.
LEMMA WorkerMoves ==
    ASSUME TypeInv, SafeInv, NEW w \in Worker, WorkerStep(w) \/ WorkerFault(w) \/ WorkerCrash(w)
    PROVE  /\ KeepsRows /\ KeepsBatches
           /\ \A x \in Actor \ {w} : /\ pc'[x] = pc[x] /\ job'[x] = job[x] /\ cur'[x] = cur[x]
                                     /\ bctx'[x] = bctx[x] /\ rctx'[x] = rctx[x]
           /\ KeepsJob(w) \/ DequeueSelect(w)
<1> USE StoreAssumption DEF finVars, dbVars
<1>1. w \in Actor /\ w \in Finalizing /\ w # Scheduler
  BY DEF Finalizing, Actor
<1>2. DbTypes /\ ProcTypes /\ WorkerHolds(w)
  BY TypeParts DEF TypeInv
<1>3. requests' = requests => KeepsRows
  BY DEF KeepsRows, SafeInv, OutputInv, CompletedHasOutput
<1>4. batches' = batches => KeepsBatches
  BY DEF KeepsBatches
<1>5. CASE FinStep(w)
  BY <1>1, <1>3, <1>5, FinMoves
<1>6. CASE \E l \in Labels : Release(w, l) /\ l \in {"idle", "down"} /\ UNCHANGED dbVars
  BY <1>1, <1>2, <1>3, <1>4, <1>6
     DEF Release, ProcTypes, NoRequestsTracked, NoBatchesTracked, KeepsJob, Busy
<1>7. CASE MarkRunningLost(w) \/ WorkerCrash(w)
  BY <1>6, <1>7 DEF MarkRunningLost, WorkerCrash, Labels, WorkerLabels
<1>8. CASE WorkerFault(w)
  BY <1>1, <1>2, <1>3, <1>4, <1>8
     DEF WorkerFault, Throw, Release, ProcTypes, NoRequestsTracked, NoBatchesTracked, KeepsJob, Busy, FinalizerLabels
<1>9. ASSUME UNCHANGED <<cur, job, bctx, batches>>, KeepsRows,
             NEW l \in Labels \ {"idle", "mcSave"}, pc' = [pc EXCEPT ![w] = l], Busy(w),
             \A x \in Actor \ {w} : rctx'[x] = rctx[x]
      PROVE  /\ KeepsRows /\ KeepsBatches
             /\ \A x \in Actor \ {w} : /\ pc'[x] = pc[x] /\ job'[x] = job[x] /\ cur'[x] = cur[x]
                                       /\ bctx'[x] = bctx[x] /\ rctx'[x] = rctx[x]
             /\ KeepsJob(w)
  BY <1>1, <1>2, <1>4, <1>9 DEF KeepsJob, Busy, ProcTypes
<1>10. CASE DequeueSelect(w)
  BY <1>1, <1>2, <1>3, <1>4, <1>10 DEF DequeueSelect, ProcTypes
<1>11. CASE DequeueCommit(w) \/ Process(w) \/ SpotInterruption(w)
  BY <1>3, <1>9, <1>11
     DEF DequeueCommit, Process, SpotInterruption, At, Busy, Labels, WorkerLabels
<1>12. CASE WorkerRestart(w)
  BY <1>1, <1>2, <1>3, <1>4, <1>12 DEF WorkerRestart, ProcTypes, KeepsJob, Busy
<1>13. CASE MarkRunning(w)
  <2>1. Busy(w) /\ job[w] \in Request
    BY <1>2, <1>13 DEF MarkRunning, At, Busy, WorkerHolds
  <2>2. KeepsRows
    BY <1>2, <1>13, <2>1
       DEF MarkRunning, Claimable, KeepsRows, SafeInv, OutputInv, CompletedHasOutput, DbTypes, RequestRow
  <2> QED
    BY <1>9, <1>13, <2>1, <2>2 DEF MarkRunning, Labels, WorkerLabels
<1>14. CASE MarkCompletedLoad(w)
  BY <1>1, <1>2, <1>3, <1>4, <1>14
     DEF MarkCompletedLoad, LoadJob, At, ProcTypes, KeepsJob, Busy, WorkerHolds
<1>15. CASE MarkFailedLoad(w)
  <2>1. \A x \in Actor \ {w} : rctx'[x] = rctx[x]
    BY <1>1, <1>2, <1>15 DEF MarkFailedLoad, LoadJob, ProcTypes
  <2> QED
    BY <1>3, <1>9, <1>15, <2>1 DEF MarkFailedLoad, LoadJob, At, Busy, Labels, WorkerLabels
<1>16. ASSUME pc[w] \in {"mcSave", "mfSave"}
       PROVE  /\ job[w] \in Request /\ rctx[w][job[w]] \in RequestRow /\ Busy(w)
              /\ requests[job[w]] \in RequestRow /\ requests[job[w]].status # "absent"
  BY <1>1, <1>2, <1>16 DEF WorkerHolds, Busy, ProcTypes, DbTypes, SafeInv, IngestInv, JobsPresent
<1>17. CASE MarkCompletedSave(w)
  <2> DEFINE old == rctx[w][job[w]]
             new == CompletedRow(old, job[w])
  <2>1. /\ requests' = [requests EXCEPT ![job[w]] = MergeRequest(@, old, new)]
        /\ rctx' = [rctx EXCEPT ![w][job[w]] = new] /\ pc[w] = "mcSave"
    BY <1>17 DEF MarkCompletedSave, SaveJob, At
  <2>2. /\ new.status = "Completed" /\ new.output = job[w] /\ new.pool = old.pool /\ job[w] # None
        /\ old.output # None => requests[job[w]].output # None
        /\ requests[job[w]].status = "Completed" => requests[job[w]].output # None
    BY <1>16, <2>1 DEF CompletedRow, RequestRow, SafeInv, OutputInv, OutputKept, CompletedHasOutput
  <2> HIDE DEF new
  <2>3. KeepsRows
    BY <1>2, <1>16, <2>1, <2>2
       DEF KeepsRows, MergeRequest, Column, DbTypes, SafeInv, OutputInv, CompletedHasOutput
  <2>4. \A x \in Actor \ {w} : rctx'[x] = rctx[x]
    BY <1>1, <1>2, <2>1 DEF ProcTypes
  <2> QED
    BY <1>9, <1>16, <1>17, <2>1, <2>3, <2>4
       DEF MarkCompletedSave, Labels, WorkerLabels, FinalizerLabels
<1>18. ASSUME NEW new, SaveJob(w, new), pc[w] = "mfSave",
              new = FailedRow(rctx[w][job[w]]) \/ new = RequeuedRow(rctx[w][job[w]])
       PROVE  KeepsRows
  <2> DEFINE old == rctx[w][job[w]]
  <2>1. requests' = [requests EXCEPT ![job[w]] = MergeRequest(@, old, new)]
    BY <1>18 DEF SaveJob
  <2>2. /\ new.status \in {"Failed", "Queued"} /\ new.output = old.output
        /\ new.pool \in {old.pool, Dedicated}
        /\ requests[job[w]].status = "Completed" => requests[job[w]].output # None
    BY <1>16, <1>18 DEF FailedRow, RequeuedRow, RequestRow, SafeInv, OutputInv, CompletedHasOutput
  <2> QED
    BY <1>2, <1>16, <1>18, <2>1, <2>2
       DEF KeepsRows, MergeRequest, Column, DbTypes, SafeInv, OutputInv, CompletedHasOutput
<1>19. CASE MarkFailedSave(w)
  <2>1. KeepsRows
    BY <1>18, <1>19 DEF MarkFailedSave, At
  <2>2. \A x \in Actor \ {w} : rctx'[x] = rctx[x]
    BY <1>1, <1>2, <1>19 DEF MarkFailedSave, ProcTypes
  <2> QED
    BY <1>9, <1>16, <1>19, <2>1, <2>2
       DEF MarkFailedSave, At, Labels, WorkerLabels, FinalizerLabels
<1>20. CASE MarkFailedRequeue(w)
  <2>1. KeepsRows
    BY <1>18, <1>20 DEF MarkFailedRequeue, At
  <2>2. Release(w, "idle")
    BY <1>1, <1>20 DEF MarkFailedRequeue, Return
  <2> QED
    BY <1>1, <1>2, <1>4, <1>20, <2>1, <2>2
       DEF MarkFailedRequeue, Release, ProcTypes, KeepsJob, Busy
<1> QED
  BY <1>5, <1>7, <1>8, <1>10, <1>11, <1>12, <1>13, <1>14, <1>15, <1>17, <1>19, <1>20 DEF WorkerStep

\* A step of somebody other than the scheduler keeps the invariant.
LEMMA OthersSafe ==
    ASSUME TypeInv, SafeInv, KeepsRows, KeepsBatches,
           \A w \in Worker : KeepsJob(w) \/ DequeueSelect(w),
           \A h \in Handler : KeepsHandler(h) \/ (\E r \in Request : RetryLoad(h, r)),
           pc'[Scheduler] = pc[Scheduler], cur'[Scheduler] = cur[Scheduler],
           bctx'[Scheduler] = bctx[Scheduler], rctx'[Scheduler] = rctx[Scheduler], UNCHANGED schedVars
    PROVE  SafeInv'
<1> USE StoreAssumption DEF schedVars
<1>1. DbTypes /\ ProcTypes /\ \A w \in Worker : WorkerHolds(w)
  BY TypeParts DEF TypeInv
<1>2. \A b \in Batch : Absent(b)' <=> Absent(b)
  BY DEF KeepsRows, Absent, RequestsOf
<1>3. QueuedIsAbsent'
  BY <1>2 DEF QueuedIsAbsent, SafeInv, IngestInv, KeepsBatches
<1>4. ListIsAbsent'
  <2>1. todo \subseteq Batch /\ (pc[Scheduler] \in {"reject", "lines"} => cur[Scheduler] \in Batch)
    BY DEF TypeInv, TypeOK, SchedulerTypeOK, SchedulerHolds
  <2> QED
    BY <1>2, <2>1 DEF ListIsAbsent, SafeInv, IngestInv
<1>5. ASSUME NEW w \in Worker, DequeueSelect(w)
      PROVE  /\ job'[w] \in Request /\ requests' = requests /\ pc'[w] = "locked"
             /\ requests[job'[w]].status = "Queued" /\ requests[job'[w]].pool = PoolOf[w]
  BY <1>1, <1>5 DEF DequeueSelect, Candidates, dbVars, ProcTypes, Actor
<1>6. \A w \in Worker : Busy(w) => job[w] \in Request
  BY <1>1 DEF WorkerHolds
<1>7. JobsPresent'
  <2>1. ASSUME NEW w \in Worker, Busy(w)' PROVE requests'[job'[w]].status # "absent"
    BY <1>5, <1>6, <2>1 DEF KeepsJob, KeepsRows, SafeInv, IngestInv, JobsPresent
  <2>2. ASSUME NEW h \in Handler, pc'[h] = "retrySave" PROVE requests'[job'[h]].status # "absent"
    <3>1. CASE KeepsHandler(h)
      BY <2>2, <3>1 DEF KeepsHandler, KeepsRows, SafeInv, IngestInv, JobsPresent, TypeInv, HandlerHolds
    <3>2. CASE \E r \in Request : RetryLoad(h, r)
      BY <1>1, <2>2, <3>2 DEF RetryLoad, Retriable, dbVars, ProcTypes, Actor
    <3> QED
      BY <3>1, <3>2
  <2> QED
    BY <2>1, <2>2 DEF JobsPresent, Busy
<1>8. CompletedHasOutput'
  BY DEF KeepsRows, CompletedHasOutput
<1>9. OutputKept'
  <2> SUFFICES ASSUME NEW w \in Worker, pc'[w] = "mcSave", rctx'[w][job'[w]].output # None
               PROVE  requests'[job'[w]].output # None
    BY DEF OutputKept
  <2>1. KeepsJob(w) /\ Busy(w)'
    BY <1>5 DEF Busy
  <2> QED
    BY <1>6, <2>1 DEF KeepsJob, KeepsRows, SafeInv, OutputInv, OutputKept
<1>10. InsertedSound'
  BY DEF InsertedSound, SafeInv, OutputInv, RequestsOf
<1>11. PoolInv'
  BY <1>5, <1>6 DEF PoolInv, SafeInv, KeepsJob, KeepsRows, Busy
<1> QED
  BY <1>3, <1>4, <1>7, <1>8, <1>9, <1>10, <1>11 DEF SafeInv, IngestInv, OutputInv

LEMMA WorkerSafe ==
    ASSUME TypeInv, SafeInv, NEW w \in Worker,
           WorkerStep(w) \/ WorkerFault(w) \/ WorkerCrash(w), UNCHANGED schedVars
    PROVE  SafeInv'
<1> USE StoreAssumption
<1>1. /\ \A x \in Actor \ {w} : /\ pc'[x] = pc[x] /\ job'[x] = job[x] /\ cur'[x] = cur[x]
                                /\ bctx'[x] = bctx[x] /\ rctx'[x] = rctx[x]
      /\ KeepsRows /\ KeepsBatches /\ (KeepsJob(w) \/ DequeueSelect(w))
  BY WorkerMoves
<1>2. \A v \in Worker \ {w} : KeepsJob(v)
  BY <1>1 DEF Actor, KeepsJob, Busy
<1>3. \A h \in Handler : KeepsHandler(h)
  BY <1>1 DEF Actor, KeepsHandler
<1> QED
  BY <1>1, <1>2, <1>3, OthersSafe DEF Actor, schedVars

LEMMA GatewaySafe ==
    ASSUME TypeInv, SafeInv, UNCHANGED <<finVars, schedVars>>,
           \/ \E h \in Handler : HandlerStep(h) \/ HangUp(h)
           \/ ClientStep
           \/ \E b \in Batch : DeadlineNears(b)
    PROVE  SafeInv'
<1> USE StoreAssumption DEF schedVars, finVars, dbVars
<1>1. DbTypes /\ ProcTypes /\ \A h \in Handler : HandlerHolds(h)
  BY TypeParts DEF TypeInv
<1>2. requests' = requests => KeepsRows
  BY DEF KeepsRows, SafeInv, OutputInv, CompletedHasOutput
<1>3. batches' = batches => KeepsBatches
  BY DEF KeepsBatches
<1>4. ASSUME UNCHANGED procVars, KeepsRows, KeepsBatches PROVE SafeInv'
  BY <1>4, OthersSafe DEF procVars, KeepsJob, KeepsHandler, Busy
<1>5. CASE \E b \in Batch : \/ UploadWrite(b) \/ UploadRegister(b) \/ CreateBatch(b)
                            \/ LoseInput(b) \/ DeadlineNears(b)
  <2>1. PICK b \in Batch : \/ UploadWrite(b) \/ UploadRegister(b) \/ CreateBatch(b)
                           \/ LoseInput(b) \/ DeadlineNears(b)
    BY <1>5
  <2>2. CASE CreateBatch(b)
    BY <1>1, <1>2, <1>4, <2>2 DEF CreateBatch, KeepsBatches, DbTypes
  <2>3. CASE ~CreateBatch(b)
    BY <1>2, <1>3, <1>4, <2>1, <2>3 DEF UploadWrite, UploadRegister, LoseInput, DeadlineNears
  <2> QED
    BY <2>2, <2>3
<1>6. ASSUME NEW h \in Handler, KeepsRows, KeepsBatches,
             \A x \in Actor \ {h} : /\ pc'[x] = pc[x] /\ job'[x] = job[x] /\ cur'[x] = cur[x]
                                    /\ bctx'[x] = bctx[x] /\ rctx'[x] = rctx[x],
             KeepsHandler(h) \/ \E r \in Request : RetryLoad(h, r)
      PROVE  SafeInv'
  <2>1. \A w \in Worker : KeepsJob(w)
    BY <1>6 DEF Actor, KeepsJob, Busy
  <2>2. \A x \in Handler \ {h} : KeepsHandler(x)
    BY <1>6 DEF Actor, KeepsHandler
  <2> QED
    BY <1>6, <2>1, <2>2, OthersSafe DEF Actor
<1>7. ASSUME NEW h \in Handler, CancelRequests(h) PROVE SafeInv'
  <2>1. KeepsRows
    BY <1>1, <1>7
       DEF CancelRequests, CancelledRows, KeepsRows, DbTypes, RequestRow, SafeInv, OutputInv, CompletedHasOutput
  <2> QED
    BY <1>1, <1>3, <1>6, <1>7, <2>1 DEF CancelRequests, KeepsHandler, ProcTypes, Actor
<1>8. ASSUME NEW h \in Handler, Release(h, "idle"), KeepsRows, KeepsBatches PROVE SafeInv'
  BY <1>1, <1>6, <1>8 DEF Release, ProcTypes, Actor, KeepsHandler
<1>9. ASSUME NEW h \in Handler, CancelSave(h) PROVE SafeInv'
  <2> DEFINE b == cur[h]
             old == bctx[h][b]
             new == [old EXCEPT !.status = "cancelled"]
  <2>1. b \in Batch /\ old \in BatchRow
    BY <1>1, <1>9 DEF CancelSave, HandlerHolds, ProcTypes, Actor
  <2>2. batches' = [batches EXCEPT ![b] = MergeBatch(@, old, new)] /\ new.status = "cancelled"
    BY <1>9, <2>1 DEF CancelSave, BatchRow
  <2> HIDE DEF b, old, new
  <2>3. KeepsBatches
    BY <1>1, <2>1, <2>2 DEF KeepsBatches, MergeBatch, Column, DbTypes
  <2> QED
    BY <1>2, <1>8, <1>9, <2>3 DEF CancelSave
<1>10. ASSUME NEW h \in Handler, RetrySave(h) PROVE SafeInv'
  <2> DEFINE r == job[h]
             old == rctx[h][r]
             new == RetriedRow(old)
  <2>1. r \in Request /\ old \in RequestRow /\ requests[r].status # "absent"
    BY <1>1, <1>10 DEF RetrySave, HandlerHolds, ProcTypes, Actor, SafeInv, IngestInv, JobsPresent
  <2>2. requests' = [requests EXCEPT ![r] = MergeRequest(@, old, new)]
    BY <1>10 DEF RetrySave
  <2>3. new.status = "Queued" /\ new.output = old.output /\ new.pool = old.pool
    BY <2>1 DEF RetriedRow, RequestRow
  <2> HIDE DEF r, old, new
  <2>4. KeepsRows
    BY <1>1, <2>1, <2>2, <2>3
       DEF KeepsRows, MergeRequest, Column, DbTypes, SafeInv, OutputInv, CompletedHasOutput
  <2> QED
    BY <1>3, <1>8, <1>10, <2>4 DEF RetrySave
<1>11. ASSUME NEW h \in Handler, HangUp(h) PROVE SafeInv'
  BY <1>2, <1>3, <1>8, <1>11 DEF HangUp
<1>12. ASSUME NEW h \in Handler, NEW b \in Batch, CancelLoad(h, b) PROVE SafeInv'
  BY <1>1, <1>2, <1>3, <1>6, <1>12 DEF CancelLoad, ProcTypes, Actor, KeepsHandler
<1>13. ASSUME NEW h \in Handler, NEW r \in Request, RetryLoad(h, r) PROVE SafeInv'
  BY <1>1, <1>2, <1>3, <1>6, <1>13 DEF RetryLoad, ProcTypes, Actor
<1> QED
  BY <1>5, <1>7, <1>9, <1>10, <1>11, <1>12, <1>13 DEF HandlerStep, ClientStep

LEMMA SchedulerSafe ==
    ASSUME TypeInv, TypeInv', SafeInv, SchedulerStep \/ SchedulerAbort
    PROVE  SafeInv'
<1> USE StoreAssumption DEF schedVars, finVars, dbVars
<1>1. Scheduler \in Actor /\ Scheduler \in Finalizing /\ Scheduler \notin Worker \cup Handler
  BY DEF Finalizing, Actor
<1>2. /\ DbTypes /\ ProcTypes /\ todo \in SUBSET Batch /\ SchedulerHolds
      /\ \A w \in Worker : WorkerHolds(w)
      /\ \A h \in Handler : HandlerHolds(h)
  BY TypeParts DEF TypeInv, SchedulerTypeOK
<1>3. ASSUME \A x \in Actor \ {Scheduler} : pc'[x] = pc[x] /\ job'[x] = job[x] /\ rctx'[x] = rctx[x],
             \/ KeepsRows
             \/ \A r \in Request : requests[r].status # "absent" => requests'[r] = requests[r]
      PROVE  JobsPresent' /\ OutputKept' /\ PoolInv'
  <2>1. \A w \in Worker : /\ pc'[w] = pc[w] /\ job'[w] = job[w] /\ rctx'[w] = rctx[w]
                          /\ Busy(w) => job[w] \in Request /\ requests[job[w]].status # "absent"
    BY <1>1, <1>2, <1>3 DEF Actor, WorkerHolds, SafeInv, IngestInv, JobsPresent
  <2>2. \A h \in Handler : /\ pc'[h] = pc[h] /\ job'[h] = job[h]
                           /\ pc[h] = "retrySave" => /\ job[h] \in Request
                                                    /\ requests[job[h]].status # "absent"
    BY <1>1, <1>2, <1>3 DEF Actor, HandlerHolds, SafeInv, IngestInv, JobsPresent
  <2>3. ASSUME NEW r \in Request, requests[r].status # "absent"
        PROVE  /\ requests'[r].status # "absent"
               /\ requests[r].output # None => requests'[r].output # None
               /\ requests[r].pool = Dedicated => requests'[r].pool = Dedicated
    BY <1>3, <2>3 DEF KeepsRows
  <2>4. JobsPresent'
    <3>1. ASSUME NEW w \in Worker, Busy(w)' PROVE requests'[job'[w]].status # "absent"
      BY <2>1, <2>3, <3>1 DEF Busy
    <3>2. ASSUME NEW h \in Handler, pc'[h] = "retrySave" PROVE requests'[job'[h]].status # "absent"
      BY <2>2, <2>3, <3>2
    <3> QED
      BY <3>1, <3>2 DEF JobsPresent, Busy
  <2>5. OutputKept'
    <3> SUFFICES ASSUME NEW w \in Worker, pc'[w] = "mcSave", rctx'[w][job'[w]].output # None
                 PROVE  requests'[job'[w]].output # None
      BY DEF OutputKept
    <3>1. Busy(w) /\ requests[job[w]].output # None
      BY <2>1 DEF Busy, OutputKept, SafeInv, OutputInv
    <3> QED
      BY <2>1, <2>3, <3>1
  <2>6. PoolInv'
    <3> SUFFICES ASSUME NEW w \in Worker, Busy(w)', PoolOf[w] = Dedicated
                 PROVE  requests'[job'[w]].pool = Dedicated
      BY DEF PoolInv
    <3>1. Busy(w) /\ requests[job[w]].pool = Dedicated
      BY <2>1 DEF Busy, PoolInv, SafeInv
    <3> QED
      BY <2>1, <2>3, <3>1
  <2> QED
    BY <2>4, <2>5, <2>6
<1>4. ASSUME KeepsRows, KeepsBatches
      PROVE  QueuedIsAbsent' /\ CompletedHasOutput' /\ \A b \in Batch : Absent(b)' <=> Absent(b)
  <2>1. \A b \in Batch : Absent(b)' <=> Absent(b)
    BY <1>4 DEF KeepsRows, Absent, RequestsOf
  <2> QED
    BY <1>4, <2>1 DEF KeepsRows, KeepsBatches, CompletedHasOutput, QueuedIsAbsent, SafeInv, IngestInv
<1>5. requests' = requests => KeepsRows
  BY DEF KeepsRows, SafeInv, OutputInv, CompletedHasOutput
<1>6. batches' = batches => KeepsBatches
  BY DEF KeepsBatches
<1>7. ASSUME KeepsRows, KeepsBatches, ListIsAbsent', InsertedSound',
             \A x \in Actor \ {Scheduler} : pc'[x] = pc[x] /\ job'[x] = job[x] /\ rctx'[x] = rctx[x]
      PROVE  SafeInv'
  BY <1>3, <1>4, <1>7 DEF SafeInv, IngestInv, OutputInv
<1>8. CASE LoadQueued
  <2>1. PICK T \in SUBSET Batch :
           /\ OldestQueued(T) /\ todo' = T
           /\ bctx' = [bctx EXCEPT ![Scheduler] = [b \in Batch |-> IF b \in T THEN batches[b] ELSE None]]
    BY <1>8 DEF LoadQueued
  <2>2. pc'[Scheduler] = "next" /\ requests' = requests
    BY <1>1, <1>2, <1>8 DEF LoadQueued, ProcTypes
  <2>3. \A b \in T : Absent(b) /\ batches[b].status = "queued" /\ bctx'[Scheduler][b] = batches[b]
    BY <1>1, <1>2, <2>1 DEF OldestQueued, QueuedBatches, ProcTypes, SafeInv, IngestInv, QueuedIsAbsent
  <2>4. ListIsAbsent'
    BY <2>1, <2>2, <2>3 DEF ListIsAbsent, Absent, RequestsOf, FinalizerLabels
  <2>5. InsertedSound'
    BY <1>8, <2>2 DEF LoadQueued, At, InsertedSound, SafeInv, OutputInv
  <2> QED
    BY <1>1, <1>2, <1>5, <1>6, <1>7, <1>8, <2>2, <2>4, <2>5 DEF LoadQueued, ProcTypes
<1>9. CASE NextBatch
  <2>1. PICK b \in todo :
           /\ todo' = todo \ {b} /\ cur' = [cur EXCEPT ![Scheduler] = b]
           /\ pc' = [pc EXCEPT ![Scheduler] = IF inputs[b] = "registered" THEN "lines" ELSE "reject"]
    BY <1>9 DEF NextBatch
  <2>2. pc'[Scheduler] \in {"lines", "reject"} /\ cur'[Scheduler] = b
    BY <1>1, <1>2, <2>1 DEF ProcTypes
  <2>3. UNCHANGED <<requests, batches, bctx, rctx, job>> /\ pc[Scheduler] = "next"
    BY <1>9 DEF NextBatch, At
  <2>4. ListIsAbsent'
    BY <2>1, <2>2, <2>3 DEF ListIsAbsent, Absent, RequestsOf, SafeInv, IngestInv, FinalizerLabels
  <2>5. InsertedSound'
    BY <2>2, <2>3 DEF InsertedSound, SafeInv, OutputInv
  <2> QED
    BY <1>1, <1>2, <1>5, <1>6, <1>7, <2>1, <2>3, <2>4, <2>5 DEF ProcTypes
<1>10. CASE SaveRejected
  <2> DEFINE b == cur[Scheduler]
             old == bctx[Scheduler][b]
             new == [old EXCEPT !.status = "failed"]
  <2>1. b \in Batch /\ old \in BatchRow /\ pc[Scheduler] = "reject"
    BY <1>1, <1>2, <1>10 DEF SaveRejected, At, SchedulerHolds, ProcTypes
  <2>2. batches' = [batches EXCEPT ![b] = MergeBatch(@, old, new)] /\ new.status = "failed"
    BY <1>10, <2>1 DEF SaveRejected, BatchRow
  <2> HIDE DEF b, old, new
  <2>3. KeepsBatches
    BY <1>2, <2>1, <2>2 DEF KeepsBatches, MergeBatch, Column, DbTypes
  <2>4. /\ pc'[Scheduler] = "next" /\ bctx' = bctx /\ todo' = todo /\ requests' = requests
        /\ \A r \in Request : rctx'[Scheduler][r] = None
        /\ \A x \in Actor \ {Scheduler} : pc'[x] = pc[x] /\ job'[x] = job[x] /\ rctx'[x] = rctx[x]
    BY <1>1, <1>2, <1>10 DEF SaveRejected, Return, ProcTypes, NoRequestsTracked
  <2>5. ListIsAbsent' /\ InsertedSound'
    BY <2>1, <2>4 DEF ListIsAbsent, InsertedSound, Absent, RequestsOf, SafeInv, IngestInv, FinalizerLabels
  <2> QED
    BY <1>5, <1>7, <2>3, <2>4, <2>5
<1>11. CASE ReadLine
  <2>1. /\ UNCHANGED <<requests, batches, pc, job, cur, bctx, todo, poolNow>> /\ pc[Scheduler] = "lines"
    BY <1>11 DEF ReadLine, At
  <2>2. QueuedLine.status = "Queued" /\ QueuedLine.pool = poolNow
    BY DEF QueuedLine
  <2>3. \A r \in Request : \A d \in Duplicates(r) : /\ DuplicateLine(d).output # None
                                                  /\ DuplicateLine(d).status = "Completed"
                                                  /\ DuplicateLine(d).pool = poolNow
    BY DEF QueuedLine, DuplicateLine, Duplicates
  <2> DEFINE Inserted == {QueuedLine} \cup {DuplicateLine(d) : d \in Request}
  <2>4. \A r \in Request : Duplicates(r) \subseteq Request
    BY DEF Duplicates
  <2>5. PICK r \in Request, row \in Inserted :
           /\ AddLine(r, row) /\ row.status \in {"Queued", "Completed"} /\ row.pool = poolNow
           /\ row.status = "Completed" => row.output # None
    BY <1>11, <2>2, <2>3, <2>4 DEF ReadLine, LinesLeft, RequestsOf
  <2> HIDE DEF Inserted
  <2>6. /\ \A x \in Actor \ {Scheduler} : rctx'[x] = rctx[x]
        /\ \A s \in Request : rctx'[Scheduler][s] = IF s = r THEN row ELSE rctx[Scheduler][s]
    BY <1>1, <1>2, <2>5 DEF AddLine, ProcTypes
  <2>7. InsertedSound'
    BY <2>1, <2>5, <2>6 DEF InsertedSound, SafeInv, OutputInv
  <2>8. ListIsAbsent'
    BY <2>1 DEF ListIsAbsent, Absent, RequestsOf, SafeInv, IngestInv
  <2> QED
    BY <1>5, <1>6, <1>7, <2>1, <2>6, <2>7, <2>8
<1>12. CASE SaveIngested
  <2> DEFINE b == cur[Scheduler]
             old == bctx[Scheduler][b]
             new == [old EXCEPT !.status = "running", !.pool = poolNow]
  <2>1. /\ pc[Scheduler] = "lines" /\ b \in Batch /\ old \in BatchRow /\ old.status = "queued"
        /\ Absent(b) /\ b \notin todo
    BY <1>1, <1>2, <1>12
       DEF SaveIngested, At, SchedulerHolds, ProcTypes, SafeInv, IngestInv, ListIsAbsent
  <2>2. /\ requests' = [r \in Request |-> IF BatchOf[r] = b THEN rctx[Scheduler][r] ELSE requests[r]]
        /\ batches' = [batches EXCEPT ![b] = MergeBatch(@, old, new)]
        /\ bctx' = [bctx EXCEPT ![Scheduler][b] = new]
        /\ pc' = [pc EXCEPT ![Scheduler] = "finLoad"]
        /\ UNCHANGED <<cur, job, rctx, todo>>
        /\ \A r \in Request : BatchOf[r] = b => rctx[Scheduler][r] # None
    BY <1>12 DEF SaveIngested, LinesLeft, RequestsOf
  <2>3. new.status = "running"
    BY <2>1 DEF BatchRow
  <2>4. batches'[b].status = "running" /\ \A c \in Batch \ {b} : batches'[c] = batches[c]
    BY <1>2, <2>1, <2>2, <2>3 DEF MergeBatch, Column, DbTypes
  <2> HIDE DEF b, old, new
  <2>5. \A r \in Request : requests'[r] = IF BatchOf[r] = b THEN rctx[Scheduler][r] ELSE requests[r]
    BY <2>2
  <2>6. \A c \in Batch \ {b} : Absent(c)' <=> Absent(c)
    BY <2>5 DEF Absent, RequestsOf
  <2>7. QueuedIsAbsent'
    BY <2>4, <2>6 DEF QueuedIsAbsent, SafeInv, IngestInv
  <2>8. /\ pc'[Scheduler] = "finLoad"
        /\ \A c \in Batch \ {b} : bctx'[Scheduler][c] = bctx[Scheduler][c]
        /\ \A x \in Actor \ {Scheduler} : pc'[x] = pc[x] /\ job'[x] = job[x] /\ rctx'[x] = rctx[x]
    BY <1>1, <1>2, <2>2 DEF ProcTypes
  <2>9. ListIsAbsent'
    <3>1. \A c \in todo : c \in Batch \ {b} /\ Absent(c) /\ bctx[Scheduler][c].status = "queued"
      BY <1>2, <2>1 DEF SafeInv, IngestInv, ListIsAbsent
    <3>2. \A c \in todo : Absent(c)' /\ bctx'[Scheduler][c].status = "queued"
      BY <3>1, <2>6, <2>8
    <3>3. cur'[Scheduler] \notin todo'
      BY <2>1, <2>2 DEF b
    <3> QED
      BY <2>2, <2>8, <3>2, <3>3 DEF ListIsAbsent
  <2>10. CompletedHasOutput'
    BY <2>1, <2>2, <2>5 DEF CompletedHasOutput, SafeInv, OutputInv, InsertedSound
  <2>11. InsertedSound'
    BY <2>8 DEF InsertedSound
  <2>12. JobsPresent' /\ OutputKept' /\ PoolInv'
    <3>1. \A r \in Request : requests[r].status # "absent" => requests'[r] = requests[r]
      BY <2>1, <2>5 DEF Absent, RequestsOf
    <3> QED
      BY <1>3, <2>8, <3>1
  <2> QED
    BY <2>7, <2>9, <2>10, <2>11, <2>12 DEF SafeInv, IngestInv, OutputInv
<1>13. CASE FinStep(Scheduler) /\ UNCHANGED schedVars
  <2> DEFINE b == cur[Scheduler]
  <2>1. /\ requests' = requests /\ KeepsBatches /\ pc[Scheduler] \in FinalizerLabels /\ todo' = todo
        /\ \A x \in Actor \ {Scheduler} : pc'[x] = pc[x] /\ job'[x] = job[x] /\ rctx'[x] = rctx[x]
        /\ pc'[Scheduler] \in {"idle", "next"} => \A r \in Request : rctx'[Scheduler][r] = None
        /\ \/ pc'[Scheduler] = "idle"
           \/ /\ pc'[Scheduler] \in {"next"} \cup (FinalizerLabels \ {"finLoad"})
              /\ pc'[Scheduler] # "next" => cur'[Scheduler] = b
              /\ \A c \in Batch \ {b} : bctx'[Scheduler][c] = bctx[Scheduler][c]
    BY <1>1, <1>13, FinMoves
  <2>2. b \notin todo /\ \A c \in todo : Absent(c) /\ bctx[Scheduler][c].status = "queued"
    BY <2>1 DEF SafeInv, IngestInv, ListIsAbsent, FinalizerLabels
  <2> HIDE DEF b
  <2>3. \A c \in todo : Absent(c)'
    BY <2>1, <2>2 DEF Absent, RequestsOf
  <2>4. ListIsAbsent'
    BY <1>2, <2>1, <2>2, <2>3 DEF ListIsAbsent, FinalizerLabels
  <2>5. InsertedSound'
    BY <2>1 DEF InsertedSound, FinalizerLabels
  <2> QED
    BY <1>5, <1>7, <2>1, <2>4, <2>5
<1>14. CASE EscalateLoad
  <2>1. /\ UNCHANGED <<requests, batches, job>>
        /\ \A x \in Actor \ {Scheduler} : pc'[x] = pc[x] /\ job'[x] = job[x] /\ rctx'[x] = rctx[x]
        /\ pc'[Scheduler] \in {"idle", "escSave"}
        /\ pc'[Scheduler] = "idle" => \A r \in Request : rctx'[Scheduler][r] = None
    BY <1>1, <1>2, <1>14 DEF EscalateLoad, ProcTypes
  <2>2. ListIsAbsent' /\ InsertedSound'
    BY <2>1 DEF ListIsAbsent, InsertedSound, FinalizerLabels
  <2> QED
    BY <1>5, <1>6, <1>7, <2>1, <2>2
<1>15. ASSUME Release(Scheduler, "idle"), KeepsRows, KeepsBatches PROVE SafeInv'
  <2>1. /\ \A x \in Actor \ {Scheduler} : pc'[x] = pc[x] /\ job'[x] = job[x] /\ rctx'[x] = rctx[x]
        /\ pc'[Scheduler] = "idle" /\ \A r \in Request : rctx'[Scheduler][r] = None
    BY <1>1, <1>2, <1>15 DEF Release, ProcTypes, NoRequestsTracked
  <2>2. ListIsAbsent' /\ InsertedSound'
    BY <2>1 DEF ListIsAbsent, InsertedSound, FinalizerLabels
  <2> QED
    BY <1>7, <1>15, <2>1, <2>2
<1>16. CASE EscalateSave
  <2> DEFINE B == bctx[Scheduler]
             R == rctx[Scheduler]
  <2>1. B \in [Batch -> BatchRow \cup {None}] /\ R \in [Request -> RequestRow \cup {None}]
    BY <1>1, <1>2 DEF ProcTypes
  <2>2. /\ requests' = [r \in Request |-> IF R[r] = None THEN requests[r]
                                         ELSE MergeRequest(requests[r], R[r], OnDedicated(R[r]))]
        /\ batches' = [c \in Batch |-> IF B[c] = None THEN batches[c]
                                       ELSE MergeBatch(batches[c], B[c], OnDedicated(B[c]))]
    BY <1>16 DEF EscalateSave
  <2>3. /\ \A row \in BatchRow : OnDedicated(row).status = row.status
        /\ \A row \in RequestRow : /\ OnDedicated(row).status = row.status
                                   /\ OnDedicated(row).output = row.output
                                   /\ OnDedicated(row).pool = Dedicated
    BY DEF OnDedicated, BatchRow, RequestRow
  <2> HIDE DEF B, R
  <2>4. KeepsBatches
    BY <1>2, <2>1, <2>2, <2>3 DEF KeepsBatches, MergeBatch, Column, DbTypes
  <2>5. KeepsRows
    BY <1>2, <2>1, <2>2, <2>3
       DEF KeepsRows, MergeRequest, Column, DbTypes, SafeInv, OutputInv, CompletedHasOutput
  <2> QED
    BY <1>15, <1>16, <2>4, <2>5 DEF EscalateSave
<1>17. CASE SchedulerAbort
  BY <1>5, <1>6, <1>15, <1>17 DEF SchedulerAbort
<1> QED
  BY <1>8, <1>9, <1>10, <1>11, <1>12, <1>13, <1>14, <1>16, <1>17 DEF SchedulerStep

LEMMA SafeStep == TypeInv /\ TypeInv' /\ SafeInv /\ [Next]_vars => SafeInv'
<1> SUFFICES ASSUME TypeInv, TypeInv', SafeInv, [Next]_vars PROVE SafeInv'
  OBVIOUS
<1>1. CASE UNCHANGED vars
  BY <1>1 DEF vars, storeVars, finVars, schedVars, SafeInv, IngestInv, QueuedIsAbsent, Absent, ListIsAbsent,
              JobsPresent, Busy, OutputInv, CompletedHasOutput, OutputKept, InsertedSound, PoolInv
<1>2. CASE \E w \in Worker : (WorkerStep(w) \/ WorkerFault(w) \/ WorkerCrash(w)) /\ UNCHANGED schedVars
  BY <1>2, WorkerSafe
<1>3. CASE SchedulerStep \/ SchedulerAbort
  BY <1>3, SchedulerSafe
<1>4. CASE /\ UNCHANGED <<finVars, schedVars>>
           /\ \/ \E h \in Handler : HandlerStep(h) \/ HangUp(h)
              \/ ClientStep
              \/ \E b \in Batch : DeadlineNears(b)
  BY <1>4, GatewaySafe
<1> QED
  BY <1>1, <1>2, <1>3, <1>4 DEF Next

THEOREM SafetyInvariant == Spec => []SafeInv
<1>1. Init => SafeInv
  BY InitialSafety
<1>2. TypeInv /\ TypeInv' /\ SafeInv /\ [Next]_vars => SafeInv'
  BY SafeStep
<1> QED
  BY <1>1, <1>2, TypeInvariant, PTL DEF Spec

\* A batch's file is split into requests once: what the scheduler inserts for a
\* batch never meets rows of that batch, however stale its list is.
THEOREM IngestOnce == Spec => []IngestedOnce
<1>1. SafeInv => IngestedOnce
  BY DEF SafeInv, IngestInv, ListIsAbsent, Absent, IngestedOnce, At
<1> QED
  BY <1>1, SafetyInvariant, PTL

\* A completed request has its output, whatever copies its columns come from.
THEOREM CompletedOutput == Spec => []CompletedHasOutput
<1>1. SafeInv => CompletedHasOutput
  BY DEF SafeInv, OutputInv
<1> QED
  BY <1>1, SafetyInvariant, PTL

\* A dedicated worker only serves what the table assigns to the dedicated pool.
THEOREM DedicatedServesDedicated == Spec => []DedicatedWork
<1>1. SafeInv => DedicatedWork
  BY DEF SafeInv, PoolInv, DedicatedWork, Serving, Busy
<1> QED
  BY <1>1, SafetyInvariant, PTL
============================================================================
