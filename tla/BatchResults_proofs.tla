------------------------ MODULE BatchResults_proofs ------------------------
(***************************************************************************)
(* What a finished request and a finished batch say, for all pods, batches *)
(* and schedules: an answer taken over from an earlier request is one for  *)
(* the same input and stands (AnswerInv); and a batch that has been given  *)
(* an output file has nothing left to run, as long as nobody retries a     *)
(* request (DoneInv).                                                      *)
(***************************************************************************)
EXTENDS BatchClaims_proofs

----------------------------------------------------------------------------
(* Answers                                                                  *)

\* What no save but the insertion changes in a row: whose output it carries
\* (or it gets its own), what it stands for, and the status of an answered one.
KeepsAnswers ==
    \A r \in Request :
        /\ requests'[r].orig = requests[r].orig
        /\ requests'[r].output \in {requests[r].output, r}
        /\ requests[r].orig # None => requests'[r].status = requests[r].status
        /\ requests'[r].status = "absent" =>
              requests[r].status = "absent" /\ requests'[r].output = requests[r].output

LEMMA NothingChanges == requests' = requests => KeepsAnswers
BY DEF KeepsAnswers

LEMMA InitialAnswers == Init => AnswerInv
BY StoreAssumption
   DEF Init, StoreInit, AnswerInv, SameInput, AnsweredStays, PreparedSound, NoRequest, Busy, Actor

\* An answered row stands for a request, so its original is in the table.
LEMMA Originals ==
    ASSUME TypeInv, NEW r \in Request, requests[r].orig # None
    PROVE  requests[r].orig \in Request
BY TypeParts DEF DbTypes, RequestRow

\* The rows' part of the invariant.
LEMMA RowsAnswer ==
    ASSUME TypeInv, AnswerInv, KeepsAnswers
    PROVE  /\ SameInput'
           /\ \A r \in Request : requests[r].output # None => requests'[r].output # None
           /\ \A r \in Request : requests'[r].orig # None =>
                 requests'[r].status = "Completed" /\ requests'[requests'[r].orig].output # None
<1>1. \A r \in Request : requests[r].output # None => requests'[r].output # None
  BY StoreAssumption DEF KeepsAnswers
<1>2. SameInput'
  BY DEF SameInput, AnswerInv, KeepsAnswers
<1>3. ASSUME NEW r \in Request, requests'[r].orig # None
      PROVE  requests'[r].status = "Completed" /\ requests'[requests'[r].orig].output # None
  <2>1. requests'[r].orig = requests[r].orig /\ requests'[r].status = requests[r].status
    BY <1>3 DEF KeepsAnswers
  <2>2. requests[r].orig \in Request /\ requests[requests[r].orig].output # None
    BY <1>3, <2>1, Originals DEF AnswerInv, AnsweredStays
  <2> QED
    BY <1>1, <1>3, <2>1, <2>2 DEF AnswerInv, AnsweredStays
<1> QED
  BY <1>1, <1>2, <1>3

\* A step of somebody other than the scheduler.
LEMMA OthersAnswer ==
    ASSUME TypeInv, SafeInv, AnswerInv, KeepsAnswers,
           \A w \in Worker : KeepsJob(w) \/ DequeueSelect(w),
           \A h \in Handler : KeepsHandler(h) \/ (\E r \in Request : RetryLoad(h, r)),
           pc'[Scheduler] = pc[Scheduler], rctx'[Scheduler] = rctx[Scheduler]
    PROVE  AnswerInv'
<1> USE StoreAssumption DEF dbVars
<1>1. DbTypes /\ ProcTypes
  BY TypeParts
<1>2. /\ SameInput'
      /\ \A r \in Request : requests[r].output # None => requests'[r].output # None
      /\ \A r \in Request : requests'[r].orig # None =>
            requests'[r].status = "Completed" /\ requests'[requests'[r].orig].output # None
  BY RowsAnswer
<1>3. ASSUME NEW w \in Worker, Busy(w)' PROVE requests'[job'[w]].orig = None
  <2>1. CASE KeepsJob(w)
    <3>1. Busy(w) /\ job'[w] = job[w] /\ job[w] \in Request
      BY <1>3, <2>1 DEF KeepsJob, TypeInv, WorkerHolds
    <3> QED
      BY <3>1 DEF KeepsAnswers, AnswerInv, AnsweredStays
  <2>2. CASE DequeueSelect(w)
    <3>1. job'[w] \in Request /\ requests[job'[w]].orig = None
      BY <1>1, <2>2 DEF DequeueSelect, Candidates, ProcTypes, Actor
    <3> QED
      BY <3>1 DEF KeepsAnswers
  <2> QED
    BY <2>1, <2>2
<1>4. ASSUME NEW h \in Handler, pc'[h] = "retrySave" PROVE requests'[job'[h]].orig = None
  <2>1. CASE KeepsHandler(h)
    <3>1. pc[h] = "retrySave" /\ job'[h] = job[h] /\ job[h] \in Request
      BY <1>4, <2>1 DEF KeepsHandler, TypeInv, HandlerHolds
    <3> QED
      BY <3>1 DEF KeepsAnswers, AnswerInv, AnsweredStays
  <2>2. CASE \E r \in Request : RetryLoad(h, r)
    <3>1. PICK r \in Request : RetryLoad(h, r)
      BY <2>2
    <3>2. job'[h] = r /\ requests[r].status = "Failed"
      BY <1>1, <3>1 DEF RetryLoad, Retriable, ProcTypes, Actor
    <3> QED
      BY <3>2 DEF KeepsAnswers, AnswerInv, AnsweredStays
  <2> QED
    BY <2>1, <2>2
<1>5. PreparedSound'
  BY <1>2 DEF PreparedSound, AnswerInv
<1>6. AnsweredStays'
  BY <1>2, <1>3, <1>4 DEF AnsweredStays, Busy
<1> QED
  BY <1>2, <1>5, <1>6 DEF AnswerInv

LEMMA WorkerAnswers ==
    ASSUME TypeInv, SafeInv, AnswerInv, NEW w \in Worker,
           WorkerStep(w) \/ WorkerFault(w) \/ WorkerCrash(w)
    PROVE  AnswerInv'
<1> USE StoreAssumption DEF finVars, dbVars
<1>1. /\ \A x \in Actor \ {w} : /\ pc'[x] = pc[x] /\ job'[x] = job[x] /\ cur'[x] = cur[x]
                                /\ bctx'[x] = bctx[x] /\ rctx'[x] = rctx[x]
      /\ KeepsJob(w) \/ DequeueSelect(w)
  BY WorkerMoves
<1>2. w \in Actor /\ w \in Finalizing /\ DbTypes /\ ProcTypes
  BY TypeParts DEF Actor, Finalizing
<1>3. Busy(w) => job[w] \in Request /\ requests[job[w]].orig = None
                 /\ requests[job[w]].status # "absent" /\ requests[job[w]] \in RequestRow
  BY <1>2 DEF TypeInv, WorkerHolds, AnswerInv, AnsweredStays, SafeInv, IngestInv, JobsPresent, DbTypes
<1>4. KeepsAnswers
  <2>1. CASE MarkRunning(w)
    <3>1. /\ Busy(w)
          /\ requests' = [requests EXCEPT ![job[w]].status = "Running", ![job[w]].worker = IdOf[w]]
      BY <2>1 DEF MarkRunning, At, Busy
    <3> QED
      BY <1>2, <1>3, <3>1 DEF KeepsAnswers, DbTypes, RequestRow
  <2>2. ASSUME NEW new, SaveJob(w, new), Busy(w),
               new.status # "absent", new.output \in {rctx[w][job[w]].output, job[w]}
        PROVE  KeepsAnswers
    <3>1. requests' = [requests EXCEPT ![job[w]] = MergeRequest(@, rctx[w][job[w]], new)]
      BY <2>2 DEF SaveJob
    <3> QED
      BY <1>2, <1>3, <2>2, <3>1 DEF KeepsAnswers, MergeRequest, Column, DbTypes
  <2>3. pc[w] \in {"mcSave", "mfSave"} => Busy(w) /\ rctx[w][job[w]] \in RequestRow
    BY <1>2, <1>3 DEF Busy, TypeInv, WorkerHolds, ProcTypes
  <2>4. CASE MarkCompletedSave(w)
    <3> DEFINE new == CompletedRow(rctx[w][job[w]], job[w])
    <3>1. SaveJob(w, new) /\ Busy(w) /\ rctx[w][job[w]] \in RequestRow
      BY <2>3, <2>4 DEF MarkCompletedSave, At
    <3>2. new.status = "Completed" /\ new.output = job[w]
      BY <3>1 DEF CompletedRow, RequestRow
    <3> HIDE DEF new
    <3> QED
      BY <2>2, <3>1, <3>2
  <2>5. CASE MarkFailedSave(w) \/ MarkFailedRequeue(w)
    <3>1. PICK new \in {FailedRow(rctx[w][job[w]]), RequeuedRow(rctx[w][job[w]])} : SaveJob(w, new)
      BY <2>5 DEF MarkFailedSave, MarkFailedRequeue
    <3>2. Busy(w) /\ rctx[w][job[w]] \in RequestRow
      BY <2>3, <2>5 DEF MarkFailedSave, MarkFailedRequeue, At
    <3>3. new.status \in {"Failed", "Queued"} /\ new.output = rctx[w][job[w]].output
      BY <3>1, <3>2 DEF FailedRow, RequeuedRow, RequestRow
    <3> QED
      BY <2>2, <3>1, <3>2, <3>3
  <2>6. CASE FinStep(w)
    BY <1>2, <2>6, FinMoves, NothingChanges
  <2>7. CASE ~(MarkRunning(w) \/ MarkCompletedSave(w) \/ MarkFailedSave(w) \/ MarkFailedRequeue(w)
               \/ FinStep(w))
    <3>1. requests' = requests
      BY <2>7 DEF WorkerStep, WorkerFault, WorkerCrash, DequeueSelect, DequeueCommit, MarkRunningLost, Process,
                  SpotInterruption, MarkCompletedLoad, MarkFailedLoad, LoadJob, WorkerRestart
    <3> QED
      BY <3>1, NothingChanges
  <2> QED
    BY <2>1, <2>4, <2>5, <2>6, <2>7
<1>5. \A v \in Worker \ {w} : KeepsJob(v)
  BY <1>1 DEF Actor, KeepsJob, Busy
<1>6. \A h \in Handler : KeepsHandler(h)
  BY <1>1 DEF Actor, KeepsHandler
<1> QED
  BY <1>1, <1>4, <1>5, <1>6, OthersAnswer DEF Actor

LEMMA GatewayAnswers ==
    ASSUME TypeInv, SafeInv, AnswerInv,
           \/ \E h \in Handler : HandlerStep(h) \/ HangUp(h)
           \/ ClientStep
           \/ \E b \in Batch : DeadlineNears(b)
    PROVE  AnswerInv'
<1> USE StoreAssumption DEF dbVars
<1>1. DbTypes /\ ProcTypes /\ \A h \in Handler : HandlerHolds(h)
  BY TypeParts DEF TypeInv
<1>2. CASE \E b \in Batch : \/ UploadWrite(b) \/ UploadRegister(b) \/ CreateBatch(b)
                            \/ LoseInput(b) \/ DeadlineNears(b)
  <2>1. UNCHANGED <<requests, procVars>>
    BY <1>2 DEF UploadWrite, UploadRegister, CreateBatch, LoseInput, DeadlineNears
  <2> QED
    BY <2>1, NothingChanges, OthersAnswer DEF procVars, KeepsJob, KeepsHandler, Busy
<1>3. ASSUME NEW h \in Handler, KeepsAnswers,
             \A x \in Actor \ {h} : pc'[x] = pc[x] /\ job'[x] = job[x] /\ rctx'[x] = rctx[x],
             KeepsHandler(h) \/ \E r \in Request : RetryLoad(h, r)
      PROVE  AnswerInv'
  <2>1. \A w \in Worker : KeepsJob(w)
    BY <1>3 DEF Actor, KeepsJob, Busy
  <2>2. \A x \in Handler \ {h} : KeepsHandler(x)
    BY <1>3 DEF Actor, KeepsHandler
  <2> QED
    BY <1>3, <2>1, <2>2, OthersAnswer DEF Actor
<1>4. ASSUME NEW h \in Handler, Release(h, "idle"), KeepsAnswers PROVE AnswerInv'
  BY <1>1, <1>3, <1>4 DEF Release, ProcTypes, Actor, KeepsHandler
<1>5. ASSUME NEW h \in Handler, CancelRequests(h) PROVE AnswerInv'
  <2>1. KeepsAnswers
    BY <1>1, <1>5 DEF CancelRequests, CancelledRows, KeepsAnswers, DbTypes, RequestRow,
                      AnswerInv, AnsweredStays
  <2> QED
    BY <1>1, <1>3, <1>5, <2>1 DEF CancelRequests, KeepsHandler, ProcTypes, Actor
<1>6. ASSUME NEW h \in Handler, RetrySave(h) PROVE AnswerInv'
  <2> DEFINE r == job[h]
             old == rctx[h][r]
             new == RetriedRow(old)
  <2>1. /\ r \in Request /\ old \in RequestRow
        /\ requests[r].orig = None /\ requests[r].status # "absent"
    BY <1>1, <1>6 DEF RetrySave, HandlerHolds, ProcTypes, Actor, AnswerInv, AnsweredStays,
                      SafeInv, IngestInv, JobsPresent
  <2>2. requests' = [requests EXCEPT ![r] = MergeRequest(@, old, new)]
    BY <1>6 DEF RetrySave
  <2>3. new.status = "Queued" /\ new.output = old.output
    BY <2>1 DEF RetriedRow, RequestRow
  <2> HIDE DEF r, old, new
  <2>4. KeepsAnswers
    BY <1>1, <2>1, <2>2, <2>3 DEF KeepsAnswers, MergeRequest, Column, DbTypes
  <2> QED
    BY <1>4, <1>6, <2>4 DEF RetrySave
<1>7. ASSUME NEW h \in Handler, CancelSave(h) \/ HangUp(h) PROVE AnswerInv'
  BY <1>4, <1>7, NothingChanges DEF CancelSave, HangUp
<1>8. ASSUME NEW h \in Handler, NEW b \in Batch, CancelLoad(h, b) PROVE AnswerInv'
  BY <1>1, <1>3, <1>8, NothingChanges DEF CancelLoad, ProcTypes, Actor, KeepsHandler
<1>9. ASSUME NEW h \in Handler, NEW r \in Request, RetryLoad(h, r) PROVE AnswerInv'
  BY <1>1, <1>3, <1>9, NothingChanges DEF RetryLoad, ProcTypes, Actor
<1> QED
  BY <1>2, <1>5, <1>6, <1>7, <1>8, <1>9 DEF HandlerStep, ClientStep

LEMMA SchedulerAnswers ==
    ASSUME TypeInv, SafeInv, AnswerInv, SchedulerStep \/ SchedulerAbort
    PROVE  AnswerInv'
<1> USE StoreAssumption DEF dbVars
<1>1. Scheduler \in Actor /\ Scheduler \in Finalizing /\ Scheduler \notin Worker \cup Handler
  BY DEF Finalizing, Actor
<1>2. DbTypes /\ ProcTypes
  BY TypeParts
<1>3. /\ \A w \in Worker : /\ pc'[w] = pc[w] /\ job'[w] = job[w]
                           /\ Busy(w) => job[w] \in Request /\ requests[job[w]].status # "absent"
                                         /\ requests[job[w]].orig = None
      /\ \A h \in Handler : /\ pc'[h] = pc[h] /\ job'[h] = job[h]
                            /\ pc[h] = "retrySave" =>
                                  job[h] \in Request /\ requests[job[h]].status # "absent"
                                  /\ requests[job[h]].orig = None
  BY <1>1, SchedulerMoves
     DEF Actor, TypeInv, WorkerHolds, HandlerHolds, SafeInv, IngestInv, JobsPresent, AnswerInv, AnsweredStays
\* What is left to show when the rows are as they were, or only the absent ones change.
<1>4. ASSUME \/ KeepsAnswers
             \/ \A r \in Request : requests[r].status # "absent" => requests'[r] = requests[r],
             \A r \in Request : requests'[r].orig # None =>
                 requests'[r].status = "Completed" /\ requests'[requests'[r].orig].output # None
      PROVE  AnsweredStays'
  <2>1. \A w \in Worker : Busy(w)' => requests'[job'[w]].orig = None
    BY <1>3, <1>4 DEF Busy, KeepsAnswers
  <2>2. \A h \in Handler : pc'[h] = "retrySave" => requests'[job'[h]].orig = None
    BY <1>3, <1>4 DEF KeepsAnswers
  <2> QED
    BY <1>4, <2>1, <2>2 DEF AnsweredStays, Busy
<1>5. ASSUME KeepsAnswers, PreparedSound' PROVE AnswerInv'
  BY <1>4, <1>5, RowsAnswer DEF AnswerInv
<1>6. CASE NextBatch
  <2>1. /\ UNCHANGED <<requests, rctx>> /\ \A r \in Request : rctx[Scheduler][r] = None
    BY <1>6 DEF NextBatch, At, SafeInv, OutputInv, InsertedSound
  <2> QED
    BY <1>5, <2>1, NothingChanges DEF PreparedSound
<1>7. CASE ReadLine
  <2>1. UNCHANGED requests /\ pc[Scheduler] = "lines"
    BY <1>7 DEF ReadLine, At
  <2>2. PICK r \in LinesLeft : \/ AddLine(r, QueuedLine)
                             \/ \E d \in Duplicates(r) : AddLine(r, DuplicateLine(d))
    BY <1>7 DEF ReadLine
  <2>3. r \in Request
    BY DEF LinesLeft, RequestsOf
  <2>4. PICK row : /\ AddLine(r, row)
                   /\ row.output # None => HashOf[row.output] = HashOf[r]
                   /\ row.orig # None => /\ row.orig \in Request /\ row.status = "Completed"
                                        /\ requests[row.orig].output # None
    <3>1. CASE AddLine(r, QueuedLine)
      BY <3>1 DEF QueuedLine
    <3>2. CASE \E d \in Duplicates(r) : AddLine(r, DuplicateLine(d))
      <4>1. PICK d \in Duplicates(r) : AddLine(r, DuplicateLine(d))
        BY <3>2
      <4>2. /\ d \in Request /\ requests[d].output # None /\ HashOf[d] = HashOf[r]
            /\ HashOf[requests[d].output] = HashOf[d]
        BY DEF Duplicates, AnswerInv, SameInput
      <4>3. /\ DuplicateLine(d).output = requests[d].output /\ DuplicateLine(d).orig = d
            /\ DuplicateLine(d).status = "Completed"
        BY DEF DuplicateLine, QueuedLine
      <4> QED
        BY <4>1, <4>2, <4>3
    <3> QED
      BY <2>2, <3>1, <3>2
  <2>5. \A s \in Request : rctx'[Scheduler][s] = IF s = r THEN row ELSE rctx[Scheduler][s]
    BY <1>1, <1>2, <2>3, <2>4 DEF AddLine, ProcTypes
  <2>6. PreparedSound'
    BY <2>1, <2>4, <2>5 DEF PreparedSound, AnswerInv
  <2> QED
    BY <1>5, <2>1, <2>6, NothingChanges
<1>8. CASE SaveIngested
  <2> DEFINE b == cur[Scheduler]
             R == rctx[Scheduler]
  <2>1. /\ \A r \in Request : requests'[r] = IF BatchOf[r] = b THEN R[r] ELSE requests[r]
        /\ pc[Scheduler] = "lines" /\ pc'[Scheduler] = "finLoad"
        /\ \A r \in Request : BatchOf[r] = b => R[r] # None
    BY <1>1, <1>2, <1>8 DEF SaveIngested, At, LinesLeft, RequestsOf, ProcTypes
  <2>2. \A r \in Request : BatchOf[r] = b => requests[r].status = "absent" /\ requests[r].output = None
    BY <2>1 DEF SafeInv, IngestInv, ListIsAbsent, Absent, RequestsOf, AnswerInv, SameInput
  <2>3. \A r \in Request : BatchOf[r] = b =>
            /\ R[r].status # "absent"
            /\ R[r].output # None => HashOf[R[r].output] = HashOf[r]
            /\ R[r].orig # None => /\ R[r].orig \in Request /\ R[r].status = "Completed"
                                  /\ requests[R[r].orig].output # None
    BY <2>1 DEF AnswerInv, PreparedSound, SafeInv, OutputInv, InsertedSound
  <2> HIDE DEF b, R
  <2>4. \A r \in Request : requests[r].output # None => requests'[r] = requests[r]
    BY <2>1, <2>2
  <2>5. SameInput'
    BY <2>1, <2>3 DEF SameInput, AnswerInv
  <2>6. ASSUME NEW r \in Request, requests'[r].orig # None
        PROVE  requests'[r].status = "Completed" /\ requests'[requests'[r].orig].output # None
    <3>1. CASE BatchOf[r] = b
      BY <2>1, <2>3, <2>4, <2>6, <3>1
    <3>2. CASE BatchOf[r] # b
      BY <2>1, <2>4, <2>6, <3>2, Originals DEF AnswerInv, AnsweredStays
    <3> QED
      BY <3>1, <3>2
  <2>7. AnsweredStays'
    BY <1>4, <2>1, <2>2, <2>6
  <2> QED
    BY <2>1, <2>5, <2>7 DEF AnswerInv, PreparedSound
\* In the other steps no entity is waiting to be inserted.
<1>9. CASE EscalateSave
  <2> DEFINE R == rctx[Scheduler]
  <2>1. R \in [Request -> RequestRow \cup {None}]
    BY <1>1, <1>2 DEF ProcTypes
  <2>2. requests' = [r \in Request |-> IF R[r] = None THEN requests[r]
                                       ELSE MergeRequest(requests[r], R[r], OnDedicated(R[r]))]
    BY <1>9 DEF EscalateSave
  <2>3. \A row \in RequestRow : OnDedicated(row).status = row.status /\ OnDedicated(row).output = row.output
    BY DEF OnDedicated, RequestRow
  <2> HIDE DEF R
  <2>4. KeepsAnswers
    BY <2>1, <2>2, <2>3 DEF KeepsAnswers, MergeRequest, Column
  <2>5. pc'[Scheduler] = "idle"
    BY <1>1, <1>2, <1>9 DEF EscalateSave, Release, ProcTypes
  <2> QED
    BY <1>5, <2>4, <2>5 DEF PreparedSound
<1>10. CASE FinStep(Scheduler)
  <2>1. requests' = requests /\ pc'[Scheduler] # "lines"
    BY <1>1, <1>10, FinMoves DEF FinalizerLabels
  <2> QED
    BY <1>5, <2>1, NothingChanges DEF PreparedSound
<1>11. CASE LoadQueued \/ SaveRejected \/ EscalateLoad \/ SchedulerAbort
  <2>1. requests' = requests
    BY <1>11 DEF LoadQueued, SaveRejected, EscalateLoad, SchedulerAbort
  <2>2. pc'[Scheduler] # "lines"
    BY <1>1, <1>2, <1>11 DEF LoadQueued, SaveRejected, EscalateLoad, SchedulerAbort, Return, Release, ProcTypes
  <2> QED
    BY <1>5, <2>1, <2>2, NothingChanges DEF PreparedSound
<1> QED
  BY <1>6, <1>7, <1>8, <1>9, <1>10, <1>11 DEF SchedulerStep

LEMMA AnswerStep == TypeInv /\ SafeInv /\ AnswerInv /\ [Next]_vars => AnswerInv'
<1> SUFFICES ASSUME TypeInv, SafeInv, AnswerInv, [Next]_vars PROVE AnswerInv'
  OBVIOUS
<1>1. CASE UNCHANGED vars
  BY <1>1 DEF vars, storeVars, AnswerInv, SameInput, AnsweredStays, PreparedSound, Busy
<1>2. CASE \E w \in Worker : (WorkerStep(w) \/ WorkerFault(w) \/ WorkerCrash(w)) /\ UNCHANGED schedVars
  BY <1>2, WorkerAnswers
<1>3. CASE SchedulerStep \/ SchedulerAbort
  BY <1>3, SchedulerAnswers
<1>4. CASE /\ UNCHANGED <<finVars, schedVars>>
           /\ \/ \E h \in Handler : HandlerStep(h) \/ HangUp(h)
              \/ ClientStep
              \/ \E b \in Batch : DeadlineNears(b)
  BY <1>4, GatewayAnswers
<1> QED
  BY <1>1, <1>2, <1>3, <1>4 DEF Next

\* A request that was answered from an earlier one has an output computed for
\* the same input, and stays completed: no worker, retry, cancellation or
\* escalation ever touches it, and its original keeps its output.
THEOREM DuplicatesSound == Spec => []DuplicateSound
<1>1. Init => AnswerInv
  BY InitialAnswers
<1>2. TypeInv /\ SafeInv /\ AnswerInv /\ [Next]_vars => AnswerInv'
  BY AnswerStep
<1>3. SafeInv /\ AnswerInv => DuplicateSound
  BY DEF SafeInv, OutputInv, CompletedHasOutput, AnswerInv, SameInput, AnsweredStays, DuplicateSound
<1> QED
  BY <1>1, <1>2, <1>3, TypeInvariant, SafetyInvariant, PTL DEF Spec

----------------------------------------------------------------------------
(* Finished batches                                                         *)

\* Only the ingestion puts rows in the table, and no row leaves it.
LEMMA Presence ==
    ASSUME TypeInv, SafeInv, [Next]_vars, ~SaveIngested, NEW r \in Request
    PROVE  requests'[r].status = "absent" <=> requests[r].status = "absent"
<1> USE StoreAssumption DEF dbVars
<1>1. DbTypes /\ ProcTypes /\ \A h \in Handler : HandlerHolds(h)
  BY TypeParts DEF TypeInv
<1>2. CASE \E w \in Worker : WorkerStep(w) \/ WorkerFault(w) \/ WorkerCrash(w)
  BY <1>2, WorkerMoves DEF KeepsRows
<1>3. CASE SchedulerStep \/ SchedulerAbort
  <2>1. CASE EscalateSave
    <3> DEFINE R == rctx[Scheduler]
    <3>1. R \in [Request -> RequestRow \cup {None}]
      BY <1>1 DEF ProcTypes, Actor
    <3>2. requests'[r] = IF R[r] = None THEN requests[r]
                         ELSE MergeRequest(requests[r], R[r], OnDedicated(R[r]))
      BY <2>1 DEF EscalateSave
    <3>3. \A row \in RequestRow : OnDedicated(row).status = row.status
      BY DEF OnDedicated, RequestRow
    <3> HIDE DEF R
    <3> QED
      BY <3>1, <3>2, <3>3 DEF MergeRequest, Column
  <2>2. CASE FinStep(Scheduler)
    BY <2>2, FinMoves DEF Finalizing
  <2>3. CASE ~(EscalateSave \/ FinStep(Scheduler))
    BY <1>3, <2>3 DEF SchedulerStep, SchedulerAbort, LoadQueued, NextBatch, SaveRejected, ReadLine, EscalateLoad
  <2> QED
    BY <2>1, <2>2, <2>3
<1>4. CASE \E h \in Handler : RetrySave(h)
  <2>1. PICK h \in Handler : RetrySave(h)
    BY <1>4
  <2>2. /\ job[h] \in Request /\ requests[job[h]].status # "absent"
        /\ rctx[h][job[h]] \in RequestRow
    BY <1>1, <2>1 DEF RetrySave, HandlerHolds, ProcTypes, Actor, SafeInv, IngestInv, JobsPresent
  <2>3. requests' = [requests EXCEPT ![job[h]] =
                        MergeRequest(@, rctx[h][job[h]], RetriedRow(rctx[h][job[h]]))]
    BY <2>1 DEF RetrySave
  <2>4. RetriedRow(rctx[h][job[h]]).status = "Queued"
    BY <2>2 DEF RetriedRow, RequestRow
  <2> QED
    BY <1>1, <2>2, <2>3, <2>4 DEF MergeRequest, Column, DbTypes
<1>5. CASE \E h \in Handler : CancelRequests(h)
  BY <1>1, <1>5 DEF CancelRequests, CancelledRows, DbTypes, RequestRow
<1>6. CASE UNCHANGED requests
  BY <1>6
<1> QED
  BY <1>2, <1>3, <1>4, <1>5, <1>6
     DEF Next, HandlerStep, HangUp, CancelSave, ClientStep, UploadWrite, UploadRegister, CreateBatch,
         LoseInput, CancelLoad, RetryLoad, DeadlineNears, vars, storeVars

\* Without a retry in flight no request leaves its final status for the queue.
LEMMA FinalStays ==
    ASSUME TypeInv, SafeInv, ClaimInv, \A h \in Handler : pc[h] # "retrySave", [Next]_vars,
           NEW r \in Request, requests[r].status \in Final
    PROVE  requests'[r].status \in Final
<1> USE StoreAssumption DEF dbVars
<1>1. DbTypes /\ ProcTypes
  BY TypeParts
<1>2. ASSUME NEW w \in Worker, WorkerStep(w) \/ WorkerFault(w) \/ WorkerCrash(w)
      PROVE  requests'[r].status \in Final
  <2>1. WorkerHolds(w) /\ OwnedRow(w) /\ w \in Actor /\ w \in Finalizing
    BY DEF TypeInv, ClaimInv, Actor, Finalizing
  <2>2. ASSUME NEW new, SaveJob(w, new), new.status \in Final
        PROVE  requests'[r].status \in Final
    <3>1. requests' = [requests EXCEPT ![job[w]] = MergeRequest(@, rctx[w][job[w]], new)]
      BY <2>2 DEF SaveJob
    <3> QED
      BY <1>1, <2>2, <3>1 DEF MergeRequest, Column, DbTypes
  <2>3. pc[w] \in {"mcSave", "mfSave"} => rctx[w][job[w]] \in RequestRow
    BY <1>1, <2>1 DEF WorkerHolds, Busy, ProcTypes
  <2>4. CASE MarkCompletedSave(w)
    <3>1. CompletedRow(rctx[w][job[w]], job[w]).status \in Final
      BY <2>3, <2>4 DEF MarkCompletedSave, At, CompletedRow, RequestRow, Final
    <3> QED
      BY <2>2, <2>4, <3>1 DEF MarkCompletedSave
  <2>5. CASE MarkFailedSave(w)
    <3>1. FailedRow(rctx[w][job[w]]).status \in Final
      BY <2>3, <2>5 DEF MarkFailedSave, At, FailedRow, RequestRow, Final
    <3> QED
      BY <2>2, <2>5, <3>1 DEF MarkFailedSave
  <2>6. CASE MarkFailedRequeue(w)
    <3>1. requests[job[w]].status = "Running"
      BY <2>1, <2>6 DEF MarkFailedRequeue, At, IsSpotInterruption, Interrupted, OwnedRow
    <3>2. requests'[r] = requests[r]
      BY <1>1, <2>6, <3>1 DEF MarkFailedRequeue, SaveJob, DbTypes, Final
    <3> QED
      BY <3>2
  <2>7. CASE MarkRunning(w)
    <3>1. requests[job[w]].status = "Queued"
      BY <2>7 DEF MarkRunning, Claimable
    <3>2. requests'[r] = requests[r]
      BY <1>1, <2>7, <3>1 DEF MarkRunning, DbTypes, Final
    <3> QED
      BY <3>2
  <2>8. CASE FinStep(w)
    BY <2>1, <2>8, FinMoves
  <2>9. CASE ~(MarkRunning(w) \/ MarkCompletedSave(w) \/ MarkFailedSave(w) \/ MarkFailedRequeue(w)
               \/ FinStep(w))
    BY <1>2, <2>9 DEF WorkerStep, WorkerFault, WorkerCrash, DequeueSelect, DequeueCommit, MarkRunningLost, Process,
                      SpotInterruption, MarkCompletedLoad, MarkFailedLoad, LoadJob, WorkerRestart
  <2> QED
    BY <2>4, <2>5, <2>6, <2>7, <2>8, <2>9
<1>3. CASE SchedulerStep \/ SchedulerAbort
  BY <1>3, ScheduledRows DEF Final
<1>4. CASE \E h \in Handler : CancelRequests(h)
  BY <1>4 DEF CancelRequests, CancelledRows, Final
<1>5. \A h \in Handler : ~RetrySave(h)
  BY DEF RetrySave
<1>6. CASE UNCHANGED requests
  BY <1>6
<1> QED
  BY <1>2, <1>3, <1>4, <1>5, <1>6
     DEF Next, HandlerStep, HangUp, CancelSave, ClientStep, UploadWrite, UploadRegister, CreateBatch,
         LoseInput, CancelLoad, RetryLoad, DeadlineNears, vars, storeVars

\* What a step of a finalizer does to its place and to the output files.
LEMMA FinCounts ==
    ASSUME TypeInv, NEW a \in Finalizing, FinStep(a)
    PROVE  /\ Counted(a)' => /\ cur'[a] = cur[a]
                             /\ Counted(a) \/ (pc[a] = "finCount" /\ Remaining(cur[a]) = {})
           /\ \A b \in Batch : batches'[b].out # batches[b].out => b = cur[a] /\ Counted(a) /\ FinSave(a)
<1> USE StoreAssumption DEF dbVars, finVars
<1>1. DbTypes /\ ProcTypes /\ a \in Actor
  BY TypeParts DEF Finalizing, Actor
<1>2. CASE Return(a) \/ Throw(a)
  <2>1. pc'[a] \in {"idle", "next", "down", "mfLoad"}
    BY <1>1, <1>2 DEF Return, Throw, Release, ProcTypes
  <2>2. CASE FinSave(a)
    BY <1>1, <2>1, <2>2 DEF FinSave, At, Counted, FinalizerLabels, DbTypes
  <2>3. CASE ~FinSave(a)
    <3>1. batches' = batches
      BY <2>3 DEF FinStep, FinLoad, FinCount, FinFailed, FinRead, FinOpen, FinOpenFails, FinWrite
    <3> QED
      BY <2>1, <3>1 DEF Counted, FinalizerLabels
  <2> QED
    BY <2>2, <2>3
<1>3. CASE ~(Return(a) \/ Throw(a))
  <2>1. UNCHANGED <<batches, cur>>
    BY <1>3 DEF FinStep, FinLoad, FinCount, FinFailed, FinRead, FinOpen, FinOpenFails, FinWrite, FinSave
  <2>2. CASE FinLoad(a)
    BY <1>1, <1>3, <2>1, <2>2 DEF FinLoad, Counted, FinalizerLabels, ProcTypes
  <2>3. CASE FinCount(a)
    BY <1>3, <2>1, <2>3 DEF FinCount, At
  <2>4. CASE FinFailed(a) \/ FinRead(a) \/ FinOpen(a) \/ FinWrite(a)
    BY <2>1, <2>4 DEF FinFailed, FinRead, FinOpen, FinWrite, At, Counted, FinalizerLabels
  <2> QED
    BY <1>3, <2>2, <2>3, <2>4 DEF FinStep, FinOpenFails, FinSave
<1> QED
  BY <1>2, <1>3

\* A finalizer gets past its count by counting nothing.
LEMMA CountedBy ==
    ASSUME TypeInv, SafeInv, [Next]_vars, NEW a \in Finalizing, Counted(a)'
    PROVE  /\ cur'[a] = cur[a]
           /\ Counted(a) \/ (pc[a] = "finCount" /\ Remaining(cur[a]) = {})
<1> USE StoreAssumption DEF dbVars, finVars
<1>1. ProcTypes /\ a \in Actor
  BY TypeParts DEF Finalizing, Actor
<1>2. CASE FinStep(a)
  BY <1>2, FinCounts
<1>3. CASE pc'[a] = pc[a] /\ cur'[a] = cur[a]
  BY <1>3 DEF Counted
<1>4. ASSUME NEW w \in Worker, WorkerStep(w) \/ WorkerFault(w) \/ WorkerCrash(w), ~FinStep(a)
      PROVE  pc'[a] = pc[a] /\ cur'[a] = cur[a]
  <2>1. CASE a # w
    BY <1>1, <1>4, <2>1, WorkerMoves
  <2>2. CASE a = w
    <3>1. pc'[w] \notin FinalizerLabels \ {"finLoad"}
      BY <1>1, <1>4, <2>2
         DEF WorkerStep, WorkerFault, WorkerCrash, DequeueSelect, DequeueCommit, MarkRunning, MarkRunningLost,
             Process, SpotInterruption, MarkCompletedLoad, MarkCompletedSave, MarkFailedLoad, LoadJob,
             MarkFailedRequeue, MarkFailedSave, WorkerRestart, Return, Throw, Release, ProcTypes, FinalizerLabels
    <3> QED
      BY <2>2, <3>1 DEF Counted
  <2> QED
    BY <2>1, <2>2
<1>5. ASSUME SchedulerStep \/ SchedulerAbort, ~FinStep(a)
      PROVE  pc'[a] = pc[a] /\ cur'[a] = cur[a]
  <2>1. CASE a = Scheduler
    <3>1. pc'[a] \notin FinalizerLabels \ {"finLoad"} \/ (pc'[a] = pc[a] /\ cur'[a] = cur[a])
      BY <1>1, <1>5, <2>1
         DEF SchedulerStep, SchedulerAbort, LoadQueued, NextBatch, SaveRejected, ReadLine, SaveIngested,
             EscalateLoad, EscalateSave, Return, Release, ProcTypes, FinalizerLabels
    <3> QED
      BY <3>1 DEF Counted
  <2>2. CASE a # Scheduler
    <3>1. cur' = cur \/ \E b : cur' = [cur EXCEPT ![Scheduler] = b]
      BY <1>5 DEF SchedulerStep, SchedulerAbort, LoadQueued, NextBatch, SaveRejected, ReadLine, SaveIngested,
             EscalateLoad, EscalateSave, Return, Throw, Release, FinStep, FinLoad, FinCount, FinFailed, FinRead,
             FinOpen, FinOpenFails, FinWrite, FinSave
    <3>2. pc'[a] = pc[a]
      BY <1>1, <1>5, <2>2, SchedulerMoves
    <3> QED
      BY <1>1, <2>2, <3>1, <3>2 DEF ProcTypes
  <2> QED
    BY <2>1, <2>2
<1>6. ASSUME NEW h \in Handler,
             HandlerStep(h) \/ HangUp(h) \/ (\E b \in Batch : CancelLoad(h, b))
             \/ (\E r \in Request : RetryLoad(h, r))
      PROVE  pc'[a] = pc[a] /\ cur'[a] = cur[a]
  <2>1. a # h
    BY DEF Finalizing
  <2> QED
    BY <1>1, <1>6, <2>1 DEF HandlerStep, CancelRequests, CancelSave, RetrySave, HangUp, CancelLoad, RetryLoad,
                            Release, ProcTypes
<1>7. CASE UNCHANGED <<pc, cur>>
  BY <1>3, <1>7
<1> QED
  BY <1>2, <1>3, <1>4, <1>5, <1>6, <1>7
     DEF Next, ClientStep, UploadWrite, UploadRegister, CreateBatch, LoseInput, DeadlineNears, procVars, vars,
         storeVars

\* A batch is given an output file by a finalizer past its count.
LEMMA OutputsBy ==
    ASSUME TypeInv, [Next]_vars, NEW b \in Batch, batches'[b].out # batches[b].out
    PROVE  \/ \E a \in Finalizing : Counted(a) /\ cur[a] = b /\ FinSave(a)
           \/ batches[b].status = "absent" /\ batches'[b].out = 0
<1> USE StoreAssumption DEF dbVars
<1>1. DbTypes /\ ProcTypes /\ Scheduler \in Actor /\ Scheduler \in Finalizing /\ Worker \subseteq Finalizing
  BY TypeParts DEF Finalizing, Actor
<1>2. CASE \E a \in Finalizing : FinStep(a)
  BY <1>2, FinCounts
\* The other saves of a batch leave the column alone.
<1>3. ASSUME NEW c \in Batch, NEW old \in BatchRow, NEW new, new.out = old.out,
             batches' = [batches EXCEPT ![c] = MergeBatch(@, old, new)]
      PROVE  FALSE
  BY <1>1, <1>3 DEF MergeBatch, Column, DbTypes
<1>4. ASSUME SaveRejected \/ SaveIngested PROVE FALSE
  <2> DEFINE c == cur[Scheduler]
             old == bctx[Scheduler][c]
  <2>1. c \in Batch /\ old \in BatchRow
    BY <1>1, <1>4 DEF SaveRejected, SaveIngested, At, TypeInv, SchedulerHolds, ProcTypes
  <2>2. PICK new \in {[old EXCEPT !.status = "failed"], [old EXCEPT !.status = "running", !.pool = poolNow]} :
            batches' = [batches EXCEPT ![c] = MergeBatch(@, old, new)]
    BY <1>4 DEF SaveRejected, SaveIngested
  <2>3. new.out = old.out
    BY <2>1, <2>2 DEF BatchRow
  <2> QED
    BY <1>3, <2>1, <2>2, <2>3
<1>5. ASSUME NEW h \in Handler, CancelSave(h) PROVE FALSE
  <2> DEFINE c == cur[h]
             old == bctx[h][c]
             new == [old EXCEPT !.status = "cancelled"]
  <2>1. c \in Batch /\ old \in BatchRow
    BY <1>1, <1>5 DEF CancelSave, TypeInv, HandlerHolds, ProcTypes, Actor
  <2>2. batches' = [batches EXCEPT ![c] = MergeBatch(@, old, new)] /\ new.out = old.out
    BY <1>5, <2>1 DEF CancelSave, BatchRow
  <2> HIDE DEF c, old, new
  <2> QED
    BY <1>3, <2>1, <2>2
<1>6. ASSUME EscalateSave PROVE FALSE
  <2> DEFINE B == bctx[Scheduler]
  <2>1. B[b] \in BatchRow \cup {None}
    BY <1>1 DEF ProcTypes
  <2>2. batches'[b] = IF B[b] = None THEN batches[b]
                      ELSE MergeBatch(batches[b], B[b], OnDedicated(B[b]))
    BY <1>6 DEF EscalateSave
  <2>3. \A row \in BatchRow : OnDedicated(row).out = row.out
    BY DEF OnDedicated, BatchRow
  <2> HIDE DEF B
  <2> QED
    BY <2>1, <2>2, <2>3 DEF MergeBatch, Column
<1>7. ASSUME NEW c \in Batch, CreateBatch(c)
      PROVE  batches[b].status = "absent" /\ batches'[b].out = 0
  BY <1>1, <1>7 DEF CreateBatch, DbTypes
<1>8. batches' # batches
  OBVIOUS
<1>9. ASSUME NEW w \in Worker, WorkerStep(w) \/ WorkerFault(w) \/ WorkerCrash(w), ~FinStep(w) PROVE FALSE
  BY <1>8, <1>9 DEF WorkerStep, WorkerFault, WorkerCrash, DequeueSelect, DequeueCommit, MarkRunning,
         MarkRunningLost, Process, SpotInterruption, MarkCompletedLoad, MarkCompletedSave, MarkFailedLoad,
         LoadJob, MarkFailedRequeue, MarkFailedSave, WorkerRestart
<1>10. CASE SchedulerStep \/ SchedulerAbort
  BY <1>1, <1>2, <1>4, <1>6, <1>8, <1>10 DEF SchedulerStep, SchedulerAbort, LoadQueued, NextBatch, ReadLine,
         EscalateLoad
<1> QED
  BY <1>1, <1>2, <1>5, <1>7, <1>8, <1>9, <1>10
     DEF Next, HandlerStep, HangUp, CancelRequests, RetrySave, ClientStep, UploadWrite, UploadRegister,
         LoseInput, CancelLoad, RetryLoad, DeadlineNears, vars, storeVars

\* An event that has never happened did not happen in the step.
LEMMA SpentBy ==
    ASSUME TypeInv, [Next]_vars, NEW k \in EventKind, spent'[k] = 0
    PROVE  spent[k] = 0 /\ ~Spend(k)
<1> USE StoreAssumption DEF dbVars, finVars, schedVars
<1>1. spent \in [EventKind -> Nat]
  BY DEF TypeInv, TypeOK, StoreTypeOK
<1>2. spent' = spent \/ \E kind \in EventKind : Spend(kind)
  <2>1. ASSUME NEW w \in Worker, WorkerStep(w) \/ WorkerFault(w) \/ WorkerCrash(w)
        PROVE  spent' = spent \/ \E kind \in {"crash", "fault"} : Spend(kind)
    BY <2>1 DEF WorkerStep, WorkerFault, WorkerCrash, DequeueSelect, DequeueCommit, MarkRunning,
         MarkRunningLost, Process, SpotInterruption, MarkCompletedLoad, MarkCompletedSave, MarkFailedLoad,
         LoadJob, MarkFailedRequeue, MarkFailedSave, SaveJob, WorkerRestart, FinStep, FinLoad, FinCount, FinFailed,
         FinRead, FinOpen, FinOpenFails, FinWrite, FinSave
  <2>2. ASSUME SchedulerStep \/ SchedulerAbort PROVE spent' = spent \/ Spend("abort")
    BY <2>2 DEF SchedulerStep, SchedulerAbort, LoadQueued, NextBatch, SaveRejected, ReadLine, SaveIngested,
         EscalateLoad, EscalateSave, FinStep, FinLoad, FinCount, FinFailed, FinRead, FinOpen, FinOpenFails,
         FinWrite, FinSave
  <2>3. ASSUME ClientStep \/ (\E h \in Handler : HandlerStep(h) \/ HangUp(h))
               \/ (\E b \in Batch : DeadlineNears(b))
        PROVE  spent' = spent
               \/ \E kind \in {"upload", "lost", "cancel", "retry", "hangup", "deadline"} : Spend(kind)
    BY <2>3 DEF ClientStep, UploadWrite, UploadRegister, CreateBatch, LoseInput, CancelLoad, RetryLoad,
                HandlerStep, CancelRequests, CancelSave, RetrySave, HangUp, DeadlineNears
  <2>4. CASE UNCHANGED vars
    BY <2>4 DEF vars, storeVars
  <2> QED
    BY <2>1, <2>2, <2>3, <2>4 DEF Next, EventKind
<1>3. ASSUME NEW kind \in EventKind, Spend(kind)
      PROVE  spent'[k] = IF k = kind THEN spent[k] + 1 ELSE spent[k]
  BY <1>1, <1>3 DEF Spend
<1>4. spent[k] \in Nat
  BY <1>1
<1> QED
  BY <1>2, <1>3, <1>4

\* A retry in flight has been counted.
LEMMA RetryCounts ==
    ASSUME TypeInv, [Next]_vars, spent'["retry"] = 0
    PROVE  /\ spent["retry"] = 0
           /\ \A h \in Handler : pc'[h] = "retrySave" => pc[h] = "retrySave"
<1> USE StoreAssumption DEF dbVars, finVars, schedVars
<1>1. spent \in [EventKind -> Nat] /\ ProcTypes
  BY TypeParts DEF TypeInv, TypeOK, StoreTypeOK
<1>2. spent["retry"] \in Nat /\ "retry" \in EventKind
  BY <1>1 DEF EventKind
<1>3. ASSUME NEW h \in Handler, NEW r \in Request, RetryLoad(h, r) PROVE FALSE
  BY <1>2, <1>3, SpentBy DEF RetryLoad
<1>4. spent["retry"] = 0
  BY <1>2, SpentBy
<1>5. ASSUME NEW h \in Handler, pc'[h] = "retrySave" PROVE pc[h] = "retrySave"
  <2>1. h \in Actor /\ h # Scheduler /\ h \notin Worker
    BY DEF Actor
  <2>2. CASE \E x \in Actor, l \in Labels : pc' = [pc EXCEPT ![x] = l] /\ (x = h => l # "retrySave")
    BY <1>1, <1>5, <2>1, <2>2 DEF ProcTypes
  <2>3. CASE pc'[h] = pc[h]
    BY <1>5, <2>3
  <2>4. CASE SchedulerStep \/ SchedulerAbort
    BY <2>1, <2>3, <2>4, SchedulerMoves
  <2>5. ASSUME NEW w \in Worker, WorkerStep(w) \/ WorkerFault(w) \/ WorkerCrash(w)
        PROVE  pc'[h] = pc[h]
    <3>1. pc' = pc \/ \E l : pc' = [pc EXCEPT ![w] = l]
      BY <2>1, <2>5 DEF WorkerStep, WorkerFault, WorkerCrash, DequeueSelect, DequeueCommit, MarkRunning,
         MarkRunningLost, Process, SpotInterruption, MarkCompletedLoad, MarkCompletedSave, MarkFailedLoad,
         LoadJob, MarkFailedRequeue, MarkFailedSave, SaveJob, WorkerRestart, FinStep, FinLoad, FinCount, FinFailed,
         FinRead, FinOpen, FinOpenFails, FinWrite, FinSave, Return, Throw, Release
    <3> QED
      BY <1>1, <2>1, <3>1 DEF ProcTypes
  <2>6. ASSUME NEW k \in Handler, (HandlerStep(k) \/ HangUp(k)) \/ (\E b \in Batch : CancelLoad(k, b))
        PROVE  \E l \in {"idle", "cancelRequests", "cancelSave"} : pc' = [pc EXCEPT ![k] = l]
    BY <2>6 DEF HandlerStep, CancelRequests, CancelSave, RetrySave, HangUp, CancelLoad, Release
  <2>7. CASE \E k \in Handler : (HandlerStep(k) \/ HangUp(k)) \/ (\E b \in Batch : CancelLoad(k, b))
    <3>1. PICK k \in Handler, l \in {"idle", "cancelRequests", "cancelSave"} : pc' = [pc EXCEPT ![k] = l]
      BY <2>6, <2>7
    <3> QED
      BY <1>1, <1>5, <2>1, <3>1 DEF ProcTypes, Actor
  <2>8. CASE \E b \in Batch : UploadWrite(b) \/ UploadRegister(b) \/ CreateBatch(b) \/ LoseInput(b)
                             \/ DeadlineNears(b)
    BY <2>3, <2>8 DEF UploadWrite, UploadRegister, CreateBatch, LoseInput, DeadlineNears, procVars
  <2>9. CASE UNCHANGED vars
    BY <2>3, <2>9 DEF vars, storeVars
  <2> QED
    BY <1>3, <2>3, <2>4, <2>5, <2>7, <2>8, <2>9 DEF Next, ClientStep
<1> QED
  BY <1>4, <1>5

\* The scheduler begins to finalize a batch by inserting its requests.
LEMMA SchedulerFinalizes ==
    ASSUME TypeInv, SafeInv, [Next]_vars, pc'[Scheduler] \in FinalizerLabels
    PROVE  cur'[Scheduler] = cur[Scheduler] /\ (pc[Scheduler] \in FinalizerLabels \/ SaveIngested)
<1> USE StoreAssumption DEF dbVars, finVars, schedVars
<1>1. ProcTypes /\ Scheduler \in Actor /\ Scheduler \in Finalizing /\ Scheduler \notin Worker \cup Handler
  BY TypeParts DEF Actor, Finalizing
<1>2. CASE pc'[Scheduler] = pc[Scheduler] /\ cur'[Scheduler] = cur[Scheduler]
  BY <1>2
<1>3. CASE \E w \in Worker : WorkerStep(w) \/ WorkerFault(w) \/ WorkerCrash(w)
  BY <1>1, <1>2, <1>3, WorkerMoves
<1>4. ASSUME NEW h \in Handler,
             (HandlerStep(h) \/ HangUp(h)) \/ (\E b \in Batch : CancelLoad(h, b))
             \/ (\E r \in Request : RetryLoad(h, r))
      PROVE  pc'[Scheduler] = pc[Scheduler] /\ cur'[Scheduler] = cur[Scheduler]
  BY <1>1, <1>4 DEF HandlerStep, CancelRequests, CancelSave, RetrySave, HangUp, CancelLoad, RetryLoad,
                    Release, ProcTypes
<1>5. CASE \E b \in Batch : UploadWrite(b) \/ UploadRegister(b) \/ CreateBatch(b) \/ LoseInput(b)
                           \/ DeadlineNears(b)
  BY <1>2, <1>5 DEF UploadWrite, UploadRegister, CreateBatch, LoseInput, DeadlineNears, procVars
<1>6. CASE FinStep(Scheduler)
  BY <1>1, <1>6, FinMoves DEF FinalizerLabels
<1>7. CASE SaveIngested
  BY <1>7 DEF SaveIngested
<1>8. CASE ReadLine
  BY <1>2, <1>8 DEF ReadLine
<1>9. CASE LoadQueued \/ NextBatch \/ SaveRejected \/ EscalateLoad \/ EscalateSave \/ SchedulerAbort
  <2>1. pc'[Scheduler] \notin FinalizerLabels
    BY <1>1, <1>9 DEF LoadQueued, NextBatch, SaveRejected, EscalateLoad, EscalateSave, SchedulerAbort, Return,
                      Release, ProcTypes, FinalizerLabels
  <2> QED
    BY <2>1
<1>10. CASE UNCHANGED vars
  BY <1>2, <1>10 DEF vars, storeVars
<1> QED
  BY <1>2, <1>3, <1>4, <1>5, <1>6, <1>7, <1>8, <1>9, <1>10 DEF Next, ClientStep, SchedulerStep

\* The ingestion puts every request of its batch in the table.
LEMMA Inserted ==
    ASSUME SafeInv, SaveIngested, NEW r \in RequestsOf(cur[Scheduler])
    PROVE  requests'[r].status # "absent"
<1> DEFINE b == cur[Scheduler]
           R == rctx[Scheduler]
<1>1. /\ pc[Scheduler] = "lines" /\ r \in Request /\ BatchOf[r] = b /\ R[r] # None
      /\ requests' = [s \in Request |-> IF BatchOf[s] = b THEN R[s] ELSE requests[s]]
  BY DEF SaveIngested, At, LinesLeft, RequestsOf
<1>2. R[r].status \in {"Queued", "Completed"}
  BY <1>1 DEF SafeInv, OutputInv, InsertedSound
<1> HIDE DEF b, R
<1> QED
  BY <1>1, <1>2

LEMMA WholeStep ==
    ASSUME TypeInv, SafeInv, WholeBatches, [Next]_vars
    PROVE  WholeBatches'
<1> USE StoreAssumption
<1>1. CASE SaveIngested
  <2> DEFINE b == cur[Scheduler]
  <2>1. /\ cur' = cur
        /\ requests' = [r \in Request |-> IF BatchOf[r] = b THEN rctx[Scheduler][r] ELSE requests[r]]
    BY <1>1 DEF SaveIngested
  <2>2. \A r \in Request : BatchOf[r] = b => requests'[r].status # "absent"
    BY <1>1, Inserted DEF RequestsOf
  <2> HIDE DEF b
  <2>3. \A r \in Request : BatchOf[r] # b => requests'[r] = requests[r]
    BY <2>1
  <2>4. cur'[Scheduler] = b
    BY <2>1 DEF b
  <2> QED
    BY <2>2, <2>3, <2>4 DEF WholeBatches, RequestsOf
<1>2. CASE ~SaveIngested
  <2>1. \A r \in Request : requests'[r].status = "absent" <=> requests[r].status = "absent"
    BY <1>2, Presence
  <2>2. pc'[Scheduler] \in FinalizerLabels =>
            cur'[Scheduler] = cur[Scheduler] /\ pc[Scheduler] \in FinalizerLabels
    BY <1>2, SchedulerFinalizes
  <2> QED
    BY <2>1, <2>2 DEF WholeBatches, RequestsOf
<1> QED
  BY <1>1, <1>2

\* A batch that is being finalized has all its requests in the table.
Present(b) == \A r \in RequestsOf(b) : requests[r].status # "absent"

LEMMA FinPresent ==
    ASSUME TypeInv, SafeInv, WholeBatches, NEW a \in Finalizing, pc[a] \in FinalizerLabels
    PROVE  Present(cur[a])
<1>1. CASE a = Scheduler
  BY <1>1 DEF WholeBatches, Present
<1>2. CASE a \in Worker
  <2>1. /\ job[a] \in Request /\ cur[a] = BatchOf[job[a]] /\ requests[job[a]].status # "absent"
    BY <1>2 DEF TypeInv, WorkerHolds, SafeInv, IngestInv, JobsPresent, Busy, FinalizerLabels
  <2> QED
    BY <2>1 DEF WholeBatches, RequestsOf, Present
<1> QED
  BY <1>1, <1>2 DEF Finalizing

\* A batch that is being finalized and of which nothing remains is settled:
\* its requests are in the table, and in none of the statuses that are counted.
LEMMA NothingRemains ==
    ASSUME TypeInv, SafeInv, WholeBatches, NEW a \in Finalizing, pc[a] = "finCount",
           Remaining(cur[a]) = {}
    PROVE  Settled(cur[a])
<1>1. \A r \in RequestsOf(cur[a]) : requests[r].status # "absent"
  BY FinPresent DEF Present, FinalizerLabels
<1>2. \A r \in RequestsOf(cur[a]) : requests[r].status \in RequestStatus
  BY TypeParts DEF DbTypes, RequestRow, RequestsOf
<1> QED
  BY <1>1, <1>2 DEF Settled, Remaining, Open, RequestStatus, Final

LEMMA DoneStep == TypeInv /\ SafeInv /\ DoneInv /\ [Next]_vars => DoneInv'
<1> SUFFICES ASSUME TypeInv, SafeInv, DoneInv, [Next]_vars PROVE DoneInv'
  OBVIOUS
<1>1. WholeBatches'
  BY WholeStep DEF DoneInv
<1>2. ASSUME spent'["retry"] = 0 PROVE ClaimInv' /\ NothingLeft'
  <2>1. /\ ClaimInv /\ NothingLeft /\ WholeBatches
        /\ \A h \in Handler : pc'[h] = "retrySave" => pc[h] = "retrySave"
    BY <1>2, RetryCounts DEF DoneInv
  <2>2. ClaimInv'
    BY <2>1, ClaimStep DEF NothingLeft, OneRetry
  <2>3. ASSUME NEW b, Settled(b) PROVE Settled(b)'
    <3> SUFFICES ASSUME NEW r \in RequestsOf(b) PROVE requests'[r].status \in Final
      BY DEF Settled, RequestsOf, Final
    <3>1. r \in Request /\ requests[r].status \in Final
      BY <2>3 DEF Settled, RequestsOf
    <3>2. \A h \in Handler : pc[h] # "retrySave"
      BY <2>1 DEF NothingLeft
    <3> QED
      BY <2>1, <3>1, <3>2, FinalStays
  <2>4. ASSUME NEW a \in Finalizing, Counted(a)' PROVE Settled(cur[a])'
    <3>1. /\ cur'[a] = cur[a]
          /\ Counted(a) \/ (pc[a] = "finCount" /\ Remaining(cur[a]) = {})
      BY <2>4, CountedBy
    <3>2. Settled(cur[a])
      <4>1. CASE Counted(a)
        BY <2>1, <4>1 DEF NothingLeft
      <4>2. CASE pc[a] = "finCount" /\ Remaining(cur[a]) = {}
        BY <2>1, <4>2, NothingRemains
      <4> QED
        BY <3>1, <4>1, <4>2
    <3> QED
      BY <2>3, <3>1, <3>2 DEF Settled, RequestsOf
  <2>5. ASSUME NEW b \in Batch, batches'[b].out # 0 PROVE Settled(b)'
    <3>1. CASE batches'[b].out = batches[b].out
      BY <2>1, <2>3, <2>5, <3>1 DEF NothingLeft
    <3>2. CASE batches'[b].out # batches[b].out
      <4>1. \E a \in Finalizing : Counted(a) /\ cur[a] = b
        BY <2>5, <3>2, OutputsBy
      <4>2. Settled(b)
        BY <2>1, <4>1 DEF NothingLeft
      <4> QED
        BY <2>3, <4>2
    <3> QED
      BY <3>1, <3>2
  <2> QED
    BY <2>1, <2>2, <2>4, <2>5 DEF NothingLeft
<1> QED
  BY <1>1, <1>2 DEF DoneInv

LEMMA InitialDone == Init => DoneInv
<1> SUFFICES ASSUME Init PROVE DoneInv
  OBVIOUS
<1>1. ClaimInv
  BY InitialClaims
<1> QED
  BY <1>1, StoreAssumption
     DEF Init, StoreInit, DoneInv, WholeBatches, NothingLeft, Counted, Actor, Finalizing, FinalizerLabels, NoBatch,
         NoRequest

THEOREM DoneInvariant == Spec => []DoneInv
<1>1. TypeInv /\ SafeInv /\ DoneInv /\ [Next]_vars => DoneInv'
  BY DoneStep
<1> QED
  BY <1>1, InitialDone, TypeInvariant, SafetyInvariant, PTL DEF Spec

\* As long as no request is retried, a batch that has an output file has no
\* request left to run, whoever finalized it and however many did.
THEOREM DoneWhenFinalized == Spec => []FinalizedMeansDone
<1>1. DoneInv => FinalizedMeansDone
  <2> SUFFICES ASSUME DoneInv, spent["retry"] = 0, NEW r \in Request, batches[BatchOf[r]].out # 0
               PROVE  requests[r].status \notin {"Queued", "Running"}
    BY DEF FinalizedMeansDone
  <2>1. Settled(BatchOf[r])
    BY StoreAssumption DEF DoneInv, NothingLeft
  <2> QED
    BY <2>1 DEF Settled, RequestsOf, Final
<1> QED
  BY <1>1, DoneInvariant, PTL

\* What a step that gives a batch its output file finds.
FinalizedStep ==
    \A r \in Request : batches'[BatchOf[r]].out # batches[BatchOf[r]].out =>
        requests[r].status \notin {"Queued", "Running"}

LEMMA FinalizedSteps ==
    TypeInv /\ SafeInv /\ DoneInv /\ spent["retry"] = 0 /\ [Next]_vars => FinalizedStep
<1> SUFFICES ASSUME TypeInv, SafeInv, DoneInv, spent["retry"] = 0, [Next]_vars, NEW r \in Request,
                    batches'[BatchOf[r]].out # batches[BatchOf[r]].out
             PROVE  requests[r].status \notin {"Queued", "Running"}
  BY DEF FinalizedStep
<1> DEFINE b == BatchOf[r]
<1>1. b \in Batch /\ r \in RequestsOf(b)
  BY StoreAssumption DEF RequestsOf
<1>2. \/ \E a \in Finalizing : Counted(a) /\ cur[a] = b
      \/ batches[b].status = "absent"
  BY <1>1, OutputsBy
<1>3. CASE \E a \in Finalizing : Counted(a) /\ cur[a] = b
  <2>1. Settled(b)
    BY <1>3 DEF DoneInv, NothingLeft
  <2> QED
    BY <1>1, <2>1 DEF Settled, Final
<1>4. CASE batches[b].status = "absent"
  BY <1>1, <1>4 DEF SafeInv, IngestInv, QueuedIsAbsent, Absent
<1> QED
  BY <1>2, <1>3, <1>4

\* Several round trips after a finalizer has counted, each request of its batch
\* is still in a final state when the batch receives the file, unless a request
\* has been retried.
THEOREM FinalizesWhenDone == Spec /\ [](spent["retry"] = 0) => FinalizedWhenDone
<1>1. TypeInv /\ SafeInv /\ DoneInv /\ spent["retry"] = 0 /\ [Next]_vars => [FinalizedStep]_vars
  BY FinalizedSteps
<1> QED
  BY <1>1, DoneInvariant, TypeInvariant, SafetyInvariant, PTL DEF Spec, FinalizedWhenDone, FinalizedStep
----------------------------------------------------------------------------
(* Who moves, and which batches change                                      *)

\* Process x, and what it holds, is as before.
Rests(x) ==
    /\ pc'[x] = pc[x] /\ cur'[x] = cur[x] /\ job'[x] = job[x]
    /\ bctx'[x] = bctx[x] /\ rctx'[x] = rctx[x]
    /\ x \in Finalizing => lines'[x] = lines[x] /\ err'[x] = err[x]

\* The step is one of process x.
Acts(x) ==
    \/ x \in Worker /\ (WorkerStep(x) \/ WorkerFault(x) \/ WorkerCrash(x))
    \/ x = Scheduler /\ (SchedulerStep \/ SchedulerAbort)
    \/ /\ x \in Handler
       /\ \/ HandlerStep(x) \/ HangUp(x)
          \/ \E b \in Batch : CancelLoad(x, b)
          \/ \E r \in Request : RetryLoad(x, r)

\* A step of a finalizer moves nobody else.
LEMMA FinRests ==
    ASSUME TypeInv, NEW a \in Finalizing, FinStep(a), NEW x \in Actor, x # a
    PROVE  Rests(x)
<1> USE StoreAssumption DEF finVars
<1>1. ProcTypes /\ FinalizerTypeOK
  BY TypeParts
<1>2. x \in Finalizing => lines'[x] = lines[x] /\ err'[x] = err[x]
  BY <1>1 DEF FinStep, FinLoad, FinCount, FinFailed, FinRead, FinOpen, FinOpenFails, FinWrite, FinSave, Return,
              Throw, FinalizerTypeOK
<1> QED
  BY <1>2, FinMoves DEF Rests

LEMMA WorkerRests ==
    ASSUME TypeInv, SafeInv, NEW w \in Worker, WorkerStep(w) \/ WorkerFault(w) \/ WorkerCrash(w),
           NEW x \in Actor, x # w
    PROVE  Rests(x)
<1> USE StoreAssumption DEF finVars
<1>1. ProcTypes /\ FinalizerTypeOK /\ w \in Finalizing
  BY TypeParts DEF Finalizing
<1>2. CASE FinStep(w)
  BY <1>1, <1>2, FinRests
<1>3. CASE ~FinStep(w)
  <2>1. x \in Finalizing => lines'[x] = lines[x] /\ err'[x] = err[x]
    BY <1>1, <1>3 DEF WorkerStep, WorkerFault, WorkerCrash, DequeueSelect, DequeueCommit, MarkRunning,
         MarkRunningLost, Process, SpotInterruption, MarkCompletedLoad, MarkCompletedSave, MarkFailedLoad,
         LoadJob, MarkFailedRequeue, MarkFailedSave, WorkerRestart, Return, Throw, FinalizerTypeOK
  <2> QED
    BY <2>1, WorkerMoves DEF Rests
<1> QED
  BY <1>2, <1>3

LEMMA SchedulerRests ==
    ASSUME TypeInv, SchedulerStep \/ SchedulerAbort, NEW x \in Actor, x # Scheduler
    PROVE  Rests(x)
<1> USE StoreAssumption DEF finVars
<1>1. ProcTypes /\ FinalizerTypeOK /\ Scheduler \in Finalizing /\ Scheduler \in Actor
  BY TypeParts DEF Finalizing, Actor
<1>2. CASE FinStep(Scheduler)
  BY <1>1, <1>2, FinRests
<1>3. CASE ~FinStep(Scheduler)
  <2>1. x \in Finalizing => lines'[x] = lines[x] /\ err'[x] = err[x]
    BY <1>1, <1>3 DEF SchedulerStep, SchedulerAbort, LoadQueued, NextBatch, SaveRejected, ReadLine,
         SaveIngested, EscalateLoad, EscalateSave, Return, FinalizerTypeOK
  <2>2. cur'[x] = cur[x]
    BY <1>1, <1>3 DEF SchedulerStep, SchedulerAbort, LoadQueued, NextBatch, SaveRejected, ReadLine,
         SaveIngested, EscalateLoad, EscalateSave, Return, Release, ProcTypes
  <2>3. bctx'[x] = bctx[x]
    BY <1>1, <1>3 DEF SchedulerStep, SchedulerAbort, LoadQueued, NextBatch, SaveRejected, ReadLine,
         SaveIngested, EscalateLoad, EscalateSave, Return, Release, ProcTypes
  <2> QED
    BY <2>1, <2>2, <2>3, SchedulerMoves DEF Rests
<1> QED
  BY <1>2, <1>3

\* Every step is one of x's, or finds and leaves x at rest.
LEMMA OneActs ==
    ASSUME TypeInv, SafeInv, [Next]_vars, NEW x \in Actor
    PROVE  Rests(x) \/ Acts(x)
<1> USE StoreAssumption
<1>1. ProcTypes
  BY TypeParts
<1>2. CASE \E w \in Worker : WorkerStep(w) \/ WorkerFault(w) \/ WorkerCrash(w)
  BY <1>2, WorkerRests DEF Acts
<1>3. CASE SchedulerStep \/ SchedulerAbort
  BY <1>3, SchedulerRests DEF Acts
<1>4. ASSUME NEW h \in Handler, UNCHANGED finVars,
             \/ HandlerStep(h) \/ HangUp(h)
             \/ \E b \in Batch : CancelLoad(h, b)
             \/ \E r \in Request : RetryLoad(h, r)
      PROVE  Rests(x) \/ Acts(x)
  <2>1. CASE x = h
    BY <1>4, <2>1 DEF Acts
  <2>2. CASE x # h
    <3>1. /\ pc'[x] = pc[x] /\ cur'[x] = cur[x] /\ job'[x] = job[x]
          /\ bctx'[x] = bctx[x] /\ rctx'[x] = rctx[x]
      BY <1>1, <1>4, <2>2 DEF HandlerStep, CancelRequests, CancelSave, RetrySave, HangUp, CancelLoad, RetryLoad,
                              Release, ProcTypes
    <3> QED
      BY <1>4, <3>1 DEF Rests, finVars
  <2> QED
    BY <2>1, <2>2
<1>5. CASE UNCHANGED <<procVars, finVars>>
  BY <1>5 DEF Rests, procVars, finVars
<1> QED
  BY <1>2, <1>3, <1>4, <1>5
     DEF Next, ClientStep, UploadWrite, UploadRegister, CreateBatch, LoseInput, DeadlineNears, procVars, vars,
         storeVars

\* What a save of a changed copy does to the status and the age of a row.
LEMMA MergedBatch ==
    ASSUME NEW row \in BatchRow, NEW old \in BatchRow, NEW new
    PROVE  /\ MergeBatch(row, old, new).status \in {row.status, new.status}
           /\ new.status = old.status => MergeBatch(row, old, new).status = row.status
           /\ MergeBatch(row, old, new).at = row.at
BY DEF MergeBatch, Column

\* A finalizer works on a batch, and past its load on a copy of it.
LEMMA FinHolds ==
    ASSUME TypeInv, NEW a \in Finalizing, pc[a] \in FinalizerLabels
    PROVE  /\ a \in Actor /\ cur[a] \in Batch
           /\ pc[a] # "finLoad" => bctx[a][cur[a]] # None /\ bctx[a][cur[a]] \in BatchRow
<1>1. a \in Actor /\ ProcTypes
  BY TypeParts DEF Actor, Finalizing
<1>2. cur[a] \in Batch /\ (pc[a] # "finLoad" => bctx[a][cur[a]] # None)
  <2>1. CASE a \in Worker
    <3>1. WorkerHolds(a) /\ Busy(a)
      BY <2>1 DEF TypeInv, Busy, FinalizerLabels
    <3> QED
      BY <3>1, StoreAssumption DEF WorkerHolds
  <2>2. CASE a = Scheduler
    BY <2>2 DEF TypeInv, SchedulerHolds
  <2> QED
    BY <2>1, <2>2 DEF Finalizing
<1> QED
  BY <1>1, <1>2 DEF ProcTypes

\* Every way in which a batch may change its status; its age stays.
LEMMA BatchMoves ==
    ASSUME TypeInv, [Next]_vars, NEW b \in Batch
    PROVE  /\ batches'[b].at = batches[b].at \/ CreateBatch(b)
           /\ \/ batches'[b].status = batches[b].status
              \/ CreateBatch(b) /\ batches'[b].status = "queued"
              \/ SaveRejected /\ cur[Scheduler] = b /\ batches'[b].status = "failed"
              \/ SaveIngested /\ cur[Scheduler] = b /\ batches'[b].status = "running"
              \/ \E h \in Handler :
                    CancelSave(h) /\ cur[h] = b /\ batches'[b].status = "cancelled"
              \/ \E a \in Finalizing :
                    FinSave(a) /\ cur[a] = b /\ batches'[b].status \in {"completed", "failed"}
<1> USE StoreAssumption DEF dbVars
<1>1. DbTypes /\ ProcTypes /\ Scheduler \in Actor /\ batches[b] \in BatchRow
  BY TypeParts DEF Finalizing, Actor, DbTypes
<1>2. CASE batches'[b] = batches[b]
  BY <1>2
\* A save of copy old, changed to new, of the batch process a works on.
<1>3. ASSUME NEW a \in Actor, cur[a] \in Batch, bctx[a][cur[a]] # None, NEW new,
             batches' = [batches EXCEPT ![cur[a]] = MergeBatch(@, bctx[a][cur[a]], new)]
      PROVE  /\ batches'[b].at = batches[b].at
             /\ batches'[b].status # batches[b].status => cur[a] = b /\ batches'[b].status = new.status
  <2>1. bctx[a][cur[a]] \in BatchRow
    BY <1>1, <1>3 DEF ProcTypes
  <2>2. batches'[b] = IF b = cur[a] THEN MergeBatch(batches[b], bctx[a][b], new) ELSE batches[b]
    BY <1>1, <1>3 DEF DbTypes
  <2> QED
    BY <1>1, <2>1, <2>2, MergedBatch
<1>4. CASE SaveRejected
  <2> DEFINE new == [bctx[Scheduler][cur[Scheduler]] EXCEPT !.status = "failed"]
  <2>1. /\ cur[Scheduler] \in Batch /\ bctx[Scheduler][cur[Scheduler]] # None
        /\ bctx[Scheduler][cur[Scheduler]] \in BatchRow
        /\ batches' = [batches EXCEPT ![cur[Scheduler]] = MergeBatch(@, bctx[Scheduler][cur[Scheduler]], new)]
    BY <1>1, <1>4 DEF SaveRejected, At, TypeInv, SchedulerHolds, ProcTypes
  <2>2. new.status = "failed"
    BY <2>1 DEF BatchRow
  <2> HIDE DEF new
  <2> QED
    BY <1>1, <1>3, <1>4, <2>1, <2>2
<1>5. CASE SaveIngested
  <2> DEFINE new == [bctx[Scheduler][cur[Scheduler]] EXCEPT !.status = "running", !.pool = poolNow]
  <2>1. /\ cur[Scheduler] \in Batch /\ bctx[Scheduler][cur[Scheduler]] # None
        /\ bctx[Scheduler][cur[Scheduler]] \in BatchRow
        /\ batches' = [batches EXCEPT ![cur[Scheduler]] = MergeBatch(@, bctx[Scheduler][cur[Scheduler]], new)]
    BY <1>1, <1>5 DEF SaveIngested, At, TypeInv, SchedulerHolds, ProcTypes
  <2>2. new.status = "running"
    BY <2>1 DEF BatchRow
  <2> HIDE DEF new
  <2> QED
    BY <1>1, <1>3, <1>5, <2>1, <2>2
<1>6. ASSUME NEW h \in Handler, CancelSave(h)
      PROVE  /\ batches'[b].at = batches[b].at
             /\ batches'[b].status # batches[b].status => cur[h] = b /\ batches'[b].status = "cancelled"
  <2> DEFINE new == [bctx[h][cur[h]] EXCEPT !.status = "cancelled"]
  <2>1. /\ h \in Actor /\ cur[h] \in Batch /\ bctx[h][cur[h]] # None /\ bctx[h][cur[h]] \in BatchRow
        /\ batches' = [batches EXCEPT ![cur[h]] = MergeBatch(@, bctx[h][cur[h]], new)]
    BY <1>1, <1>6 DEF CancelSave, TypeInv, HandlerHolds, ProcTypes, Actor
  <2>2. new.status = "cancelled"
    BY <2>1 DEF BatchRow
  <2> HIDE DEF new
  <2> QED
    BY <1>3, <2>1, <2>2
<1>7. ASSUME NEW a \in Finalizing, FinSave(a)
      PROVE  /\ batches'[b].at = batches[b].at
             /\ batches'[b].status # batches[b].status =>
                   cur[a] = b /\ batches'[b].status \in {"completed", "failed"}
  <2>1. /\ a \in Actor /\ cur[a] \in Batch /\ bctx[a][cur[a]] # None /\ bctx[a][cur[a]] \in BatchRow
        /\ batches' = [batches EXCEPT ![cur[a]] = MergeBatch(@, bctx[a][cur[a]], FinalBatch(a))]
    BY <1>7, FinHolds DEF FinSave, At, FinalizerLabels
  <2>2. FinalBatch(a).status \in {"completed", "failed"}
    BY <2>1 DEF FinalBatch, BatchRow
  <2> QED
    BY <1>3, <2>1, <2>2
<1>8. CASE EscalateSave
  <2> DEFINE B == bctx[Scheduler]
  <2>1. B[b] \in BatchRow \cup {None}
    BY <1>1 DEF ProcTypes
  <2>2. batches'[b] = IF B[b] = None THEN batches[b]
                      ELSE MergeBatch(batches[b], B[b], OnDedicated(B[b]))
    BY <1>8 DEF EscalateSave
  <2>3. \A row \in BatchRow : OnDedicated(row).status = row.status
    BY DEF OnDedicated, BatchRow
  <2> HIDE DEF B
  <2> QED
    BY <1>1, <2>1, <2>2, <2>3, MergedBatch
<1>9. ASSUME NEW c \in Batch, CreateBatch(c), batches'[b] # batches[b]
      PROVE  CreateBatch(b) /\ batches'[b].status = "queued"
  BY <1>1, <1>9 DEF CreateBatch, DbTypes
<1>10. ASSUME NEW w \in Worker, WorkerStep(w) \/ WorkerFault(w) \/ WorkerCrash(w), ~FinSave(w)
       PROVE  batches' = batches
  BY <1>10 DEF WorkerStep, WorkerFault, WorkerCrash, DequeueSelect, DequeueCommit, MarkRunning,
         MarkRunningLost, Process, SpotInterruption, MarkCompletedLoad, MarkCompletedSave, MarkFailedLoad,
         LoadJob, MarkFailedRequeue, MarkFailedSave, WorkerRestart, FinStep, FinLoad, FinCount, FinFailed, FinRead,
         FinOpen, FinOpenFails, FinWrite
<1>11. ASSUME SchedulerStep \/ SchedulerAbort, ~FinSave(Scheduler), ~SaveRejected, ~SaveIngested, ~EscalateSave
       PROVE  batches' = batches
  BY <1>11 DEF SchedulerStep, SchedulerAbort, LoadQueued, NextBatch, ReadLine, EscalateLoad,
         FinStep, FinLoad, FinCount, FinFailed, FinRead, FinOpen, FinOpenFails, FinWrite
<1>12. CASE \E w \in Worker : WorkerStep(w) \/ WorkerFault(w) \/ WorkerCrash(w)
  BY <1>2, <1>7, <1>10, <1>12 DEF Finalizing
<1>13. CASE SchedulerStep \/ SchedulerAbort
  BY <1>2, <1>4, <1>5, <1>7, <1>8, <1>11, <1>13 DEF Finalizing
<1>14. CASE \E h \in Handler : HandlerStep(h) \/ HangUp(h)
  BY <1>2, <1>6, <1>14 DEF HandlerStep, HangUp, CancelRequests, RetrySave
<1>15. CASE ClientStep
  BY <1>2, <1>9, <1>15 DEF ClientStep, UploadWrite, UploadRegister, LoseInput, CancelLoad, RetryLoad
<1>16. CASE (\E c \in Batch : DeadlineNears(c)) \/ UNCHANGED vars
  BY <1>2, <1>16 DEF DeadlineNears, vars, storeVars
<1> QED
  BY <1>12, <1>13, <1>14, <1>15, <1>16 DEF Next

\* Every way in which a request may reach a final status.
LEMMA FinishedBy ==
    ASSUME TypeInv, SafeInv, [Next]_vars, NEW r \in Request,
           requests[r].status \notin Final, requests'[r].status \in Final
    PROVE  \/ \E w \in Worker : (MarkCompletedSave(w) \/ MarkFailedSave(w)) /\ job[w] = r
           \/ \E h \in Handler : CancelRequests(h) /\ cur[h] = BatchOf[r]
           \/ SaveIngested /\ cur[Scheduler] = BatchOf[r]
<1> USE StoreAssumption DEF dbVars
<1>1. DbTypes /\ ProcTypes /\ requests' # requests /\ requests'[r] # requests[r]
  BY TypeParts
\* A save of copy old, changed to new, of the request process a works on.
<1>2. ASSUME NEW a \in Actor, NEW old \in RequestRow, NEW new,
             requests' = [requests EXCEPT ![job[a]] = MergeRequest(@, old, new)]
      PROVE  job[a] = r /\ new.status \in Final
  BY <1>1, <1>2 DEF MergeRequest, Column, DbTypes
<1>3. ASSUME NEW w \in Worker, WorkerStep(w) \/ WorkerFault(w) \/ WorkerCrash(w)
      PROVE  (MarkCompletedSave(w) \/ MarkFailedSave(w)) /\ job[w] = r
  <2>1. w \in Actor /\ w \in Finalizing
    BY DEF Actor, Finalizing
  <2>2. ASSUME pc[w] \in {"mcSave", "mfSave"} PROVE rctx[w][job[w]] \in RequestRow
    <3>1. WorkerHolds(w)
      BY DEF TypeInv
    <3>2. job[w] \in Request /\ rctx[w][job[w]] # None
      BY <2>2, <3>1 DEF WorkerHolds, Busy
    <3>3. rctx[w] \in [Request -> RequestRow \cup {None}]
      BY <1>1, <2>1 DEF ProcTypes
    <3> QED
      BY <3>2, <3>3
  <2>3. CASE MarkCompletedSave(w) \/ MarkFailedSave(w)
    <3>1. PICK new : requests' = [requests EXCEPT ![job[w]] = MergeRequest(@, rctx[w][job[w]], new)]
      BY <2>3 DEF MarkCompletedSave, MarkFailedSave, SaveJob
    <3> QED
      BY <1>2, <2>1, <2>2, <2>3, <3>1 DEF MarkCompletedSave, MarkFailedSave, At
  <2>4. CASE MarkFailedRequeue(w)
    <3> DEFINE new == RequeuedRow(rctx[w][job[w]])
    <3>1. /\ requests' = [requests EXCEPT ![job[w]] = MergeRequest(@, rctx[w][job[w]], new)]
          /\ rctx[w][job[w]] \in RequestRow
      BY <2>2, <2>4 DEF MarkFailedRequeue, SaveJob, At
    <3>2. new.status = "Queued"
      BY <3>1 DEF RequeuedRow, RequestRow
    <3> HIDE DEF new
    <3> QED
      BY <1>2, <2>1, <3>1, <3>2 DEF Final
  <2>5. CASE MarkRunning(w)
    BY <1>1, <2>5 DEF MarkRunning, DbTypes, RequestRow, Final
  <2>6. CASE FinStep(w)
    BY <1>1, <2>1, <2>6, FinMoves
  <2>7. CASE ~(MarkRunning(w) \/ MarkCompletedSave(w) \/ MarkFailedSave(w) \/ MarkFailedRequeue(w)
               \/ FinStep(w))
    BY <1>1, <1>3, <2>7 DEF WorkerStep, WorkerFault, WorkerCrash, DequeueSelect, DequeueCommit, MarkRunningLost,
                      Process, SpotInterruption, MarkCompletedLoad, MarkFailedLoad, LoadJob, WorkerRestart
  <2> QED
    BY <2>3, <2>4, <2>5, <2>6, <2>7
<1>4. CASE SaveIngested
  BY <1>1, <1>4 DEF SaveIngested
<1>5. ASSUME SchedulerStep \/ SchedulerAbort, ~SaveIngested PROVE FALSE
  <2>1. requests[r].status # "absent"
    BY <1>5, Presence, TypeParts DEF Final
  <2> QED
    BY <1>5, <2>1, ScheduledRows
<1>6. CASE \E h \in Handler : CancelRequests(h)
  BY <1>1, <1>6 DEF CancelRequests, CancelledRows
<1>7. ASSUME NEW h \in Handler, RetrySave(h) PROVE FALSE
  <2> DEFINE new == RetriedRow(rctx[h][job[h]])
  <2>1. /\ h \in Actor /\ rctx[h][job[h]] \in RequestRow
        /\ requests' = [requests EXCEPT ![job[h]] = MergeRequest(@, rctx[h][job[h]], new)]
    BY <1>1, <1>7 DEF RetrySave, TypeInv, HandlerHolds, ProcTypes, Actor
  <2>2. new.status = "Queued"
    BY <2>1 DEF RetriedRow, RequestRow
  <2> HIDE DEF new
  <2> QED
    BY <1>2, <2>1, <2>2 DEF Final
<1> QED
  BY <1>1, <1>3, <1>4, <1>5, <1>6, <1>7
     DEF Next, HandlerStep, HangUp, CancelSave, ClientStep, UploadWrite, UploadRegister, CreateBatch,
         LoseInput, CancelLoad, RetryLoad, DeadlineNears, vars, storeVars

----------------------------------------------------------------------------
(* The last one finalizes                                                   *)

\* A batch that has an output file keeps one.
LEMMA OutStays ==
    ASSUME TypeInv, CopiesInv, [Next]_vars, NEW b \in Batch, batches[b].out # 0
    PROVE  batches'[b].out # 0
<1>1. DbTypes /\ batches[b].status # "absent"
  BY TypeParts DEF CopiesInv
<1>2. CASE batches'[b].out # batches[b].out
  <2>1. PICK a \in Finalizing : cur[a] = b /\ FinSave(a)
    BY <1>1, <1>2, OutputsBy
  <2>2. bctx[a][b] \in BatchRow /\ outRows[b] \in Nat
    BY <1>1, <2>1, FinHolds DEF FinSave, At, FinalizerLabels, DbTypes
  <2>3. FinalBatch(a).out = outRows[b] + 1
    BY <2>1, <2>2 DEF FinalBatch, BatchRow
  <2>4. batches'[b].out \in {batches[b].out, FinalBatch(a).out}
    BY <1>1, <2>1 DEF FinSave, MergeBatch, Column, DbTypes
  <2> QED
    BY <2>2, <2>3, <2>4
<1> QED
  BY <1>2

\* A batch with a request in the table is in the table.
LEMMA PresentBatch ==
    ASSUME SafeInv, NEW r \in Request, requests[r].status # "absent"
    PROVE  BatchOf[r] \in Batch /\ batches[BatchOf[r]].status \notin {"absent", "queued"}
BY StoreAssumption DEF SafeInv, IngestInv, QueuedIsAbsent, Absent, RequestsOf

\* Where a copy comes from: it was there before, with the same output file, or
\* is loaded now.
CopiedFrom(x, b) ==
    \/ bctx'[x][b] = None
    \/ bctx[x][b] # None /\ bctx'[x][b].out = bctx[x][b].out
    \/ bctx'[x][b] = batches[b] /\ batches[b].status # "absent"

LEMMA FinCopies ==
    ASSUME TypeInv, SafeInv, NEW a \in Finalizing, FinStep(a), NEW b \in Batch
    PROVE  CopiedFrom(a, b)
<1> USE StoreAssumption
<1>1. ProcTypes /\ a \in Actor /\ cur[a] \in Batch /\ pc[a] \in FinalizerLabels
  BY TypeParts, FinHolds, FinMoves
<1>2. bctx'[a][b] = None \/ bctx'[a] = bctx[a] \/ FinLoad(a)
  BY <1>1 DEF FinStep, FinCount, FinFailed, FinRead, FinOpen, FinOpenFails, FinWrite, FinSave, Return,
              Throw, Release, ProcTypes, NoBatchesTracked
<1>3. CASE FinLoad(a)
  <2>1. CASE Return(a)
    BY <1>1, <2>1 DEF Return, Release, NoBatchesTracked, ProcTypes, CopiedFrom
  <2>2. CASE ~Return(a)
    <3>1. bctx' = [bctx EXCEPT ![a][cur[a]] = BatchSeenBy(a, cur[a])]
      BY <1>3, <2>2 DEF FinLoad
    <3>2. bctx'[a][b] = IF b = cur[a] THEN BatchSeenBy(a, b) ELSE bctx[a][b]
      BY <1>1, <3>1 DEF ProcTypes
    <3>3. bctx[a][cur[a]] = None => batches[cur[a]].status # "absent"
      <4>1. CASE a \in Worker
        <5>1. Busy(a) /\ WorkerHolds(a)
          BY <1>1, <4>1 DEF TypeInv, Busy, FinalizerLabels
        <5>2. job[a] \in Request /\ cur[a] = BatchOf[job[a]] /\ requests[job[a]].status # "absent"
          BY <4>1, <5>1 DEF WorkerHolds, SafeInv, IngestInv, JobsPresent
        <5> QED
          BY <5>2, PresentBatch
      <4>2. CASE a = Scheduler
        BY <1>1, <4>2 DEF TypeInv, SchedulerHolds
      <4> QED
        BY <4>1, <4>2 DEF Finalizing
    <3> QED
      BY <3>2, <3>3 DEF BatchSeenBy, CopiedFrom
  <2> QED
    BY <2>1, <2>2
<1> QED
  BY <1>2, <1>3 DEF CopiedFrom

LEMMA Copies ==
    ASSUME TypeInv, SafeInv, [Next]_vars, NEW x \in Actor, NEW b \in Batch
    PROVE  CopiedFrom(x, b)
<1> USE StoreAssumption
<1>1. ProcTypes /\ DbTypes
  BY TypeParts
<1>2. CASE bctx'[x][b] = None \/ bctx'[x] = bctx[x]
  BY <1>2 DEF CopiedFrom
<1>3. CASE x \in Worker /\ (WorkerStep(x) \/ WorkerFault(x) \/ WorkerCrash(x))
  <2>1. CASE FinStep(x)
    BY <1>3, <2>1, FinCopies DEF Finalizing
  <2>2. CASE ~FinStep(x)
    <3>1. bctx'[x][b] = None \/ bctx'[x] = bctx[x]
      BY <1>1, <1>3, <2>2 DEF WorkerStep, WorkerFault, WorkerCrash, DequeueSelect, DequeueCommit, MarkRunning,
         MarkRunningLost, Process, SpotInterruption, MarkCompletedLoad, MarkCompletedSave, MarkFailedLoad,
         LoadJob, MarkFailedRequeue, MarkFailedSave, WorkerRestart, Return, Throw, Release, NoBatchesTracked,
         ProcTypes
    <3> QED
      BY <1>2, <3>1
  <2> QED
    BY <2>1, <2>2
<1>4. CASE x = Scheduler /\ (SchedulerStep \/ SchedulerAbort)
  <2>1. CASE FinStep(x)
    BY <1>4, <2>1, FinCopies DEF Finalizing
  <2>2. CASE LoadQueued
    <3>1. PICK T \in SUBSET Batch :
              OldestQueued(T) /\ bctx' = [bctx EXCEPT ![Scheduler] =
                                              [c \in Batch |-> IF c \in T THEN batches[c] ELSE None]]
      BY <2>2 DEF LoadQueued
    <3> QED
      BY <1>1, <1>4, <3>1 DEF OldestQueued, QueuedBatches, ProcTypes, CopiedFrom
  <2>3. CASE EscalateLoad
    <3>1. bctx'[x][b] = IF b \in {BatchOf[r] : r \in ToEscalate} THEN batches[b] ELSE None
      BY <1>1, <1>4, <2>3 DEF EscalateLoad, ProcTypes
    <3>2. ASSUME NEW r \in ToEscalate PROVE batches[BatchOf[r]].status # "absent"
      BY PresentBatch DEF ToEscalate
    <3> QED
      BY <3>1, <3>2 DEF CopiedFrom
  <2>4. CASE SaveIngested
    <3> DEFINE old == bctx[Scheduler][cur[Scheduler]]
               new == [old EXCEPT !.status = "running", !.pool = poolNow]
    <3>1. cur[Scheduler] \in Batch /\ old # None /\ old \in BatchRow
      BY <1>1, <1>4, <2>4 DEF SaveIngested, At, TypeInv, SchedulerHolds, ProcTypes
    <3>2. new.out = old.out
      BY <3>1 DEF BatchRow
    <3>3. bctx'[x][b] = IF b = cur[Scheduler] THEN new ELSE bctx[x][b]
      BY <1>1, <1>4, <2>4, <3>1 DEF SaveIngested, ProcTypes
    <3> QED
      BY <1>4, <3>1, <3>2, <3>3 DEF CopiedFrom
  <2>5. CASE NextBatch \/ SaveRejected \/ ReadLine \/ EscalateSave \/ SchedulerAbort
    <3>1. bctx'[x][b] = None \/ bctx'[x] = bctx[x]
      BY <1>1, <1>4, <2>5 DEF NextBatch, SaveRejected, ReadLine, EscalateSave, SchedulerAbort, Return, Release,
         NoBatchesTracked, ProcTypes
    <3> QED
      BY <1>2, <3>1
  <2> QED
    BY <1>4, <2>1, <2>2, <2>3, <2>4, <2>5 DEF SchedulerStep
<1>5. CASE x \in Handler /\ \E c \in Batch : CancelLoad(x, c)
  BY <1>1, <1>5 DEF CancelLoad, ProcTypes, CopiedFrom
<1>6. CASE x \in Handler /\ (HandlerStep(x) \/ HangUp(x) \/ \E r \in Request : RetryLoad(x, r))
  <2>1. bctx'[x][b] = None \/ bctx'[x] = bctx[x]
    BY <1>1, <1>6 DEF HandlerStep, CancelRequests, CancelSave, RetrySave, HangUp, RetryLoad, Release,
                      NoBatchesTracked, ProcTypes
  <2> QED
    BY <1>2, <2>1
<1> QED
  <2>1. CASE Rests(x)
    BY <1>2, <2>1 DEF Rests
  <2>2. CASE Acts(x)
    BY <1>3, <1>4, <1>5, <1>6, <2>2 DEF Acts
  <2> QED
    BY <2>1, <2>2, OneActs

LEMMA CopiesStep == TypeInv /\ SafeInv /\ CopiesInv /\ [Next]_vars => CopiesInv'
<1> SUFFICES ASSUME TypeInv, SafeInv, CopiesInv, [Next]_vars PROVE CopiesInv'
  OBVIOUS
<1> USE StoreAssumption
<1>1. ProcTypes /\ DbTypes
  BY TypeParts
<1>2. ASSUME NEW b \in Batch, batches[b].status # "absent" PROVE batches'[b].status # "absent"
  BY <1>2, BatchMoves
<1>3. ASSUME NEW b \in Batch, batches'[b].status = "absent" PROVE batches'[b].out = 0
  <2>1. batches[b].status = "absent" /\ batches[b].out = 0
    BY <1>2, <1>3 DEF CopiesInv
  <2>2. ASSUME NEW a \in Finalizing, cur[a] = b, FinSave(a) PROVE FALSE
    <3>1. a \in Actor /\ bctx[a][b] # None
      BY <2>2, FinHolds DEF FinSave, At, FinalizerLabels
    <3> QED
      BY <2>1, <3>1 DEF CopiesInv
  <2> QED
    BY <2>1, <2>2, OutputsBy
<1>4. ASSUME NEW x \in Actor, NEW b \in Batch, bctx'[x][b] # None
      PROVE  /\ batches'[b].status # "absent"
             /\ bctx'[x][b].out # 0 => batches'[b].out # 0
  <2>1. /\ batches[b].status # "absent"
        /\ bctx'[x][b].out # 0 => batches[b].out # 0
    BY <1>4, Copies DEF CopiedFrom, CopiesInv
  <2> QED
    BY <1>2, <2>1, OutStays
<1>5. ASSUME NEW a \in Finalizing, pc'[a] \in FinalizerLabels \ {"finLoad"}
      PROVE  bctx'[a][cur'[a]].out = 0
  <2>1. a \in Actor
    BY DEF Finalizing, Actor
  <2>2. CASE Rests(a)
    BY <1>5, <2>2 DEF Rests, CopiesInv
  <2>3. CASE FinLoad(a)
    <3>1. cur[a] \in Batch
      BY <2>3, FinHolds DEF FinLoad, At, FinalizerLabels
    <3>2. ~Return(a)
      BY <1>1, <1>5, <2>1 DEF Return, Release, ProcTypes, FinalizerLabels
    <3>3. /\ cur' = cur /\ BatchSeenBy(a, cur[a]).out = 0
          /\ bctx' = [bctx EXCEPT ![a][cur[a]] = BatchSeenBy(a, cur[a])]
      BY <2>3, <3>2 DEF FinLoad
    <3>4. bctx'[a][cur[a]] = BatchSeenBy(a, cur[a])
      BY <1>1, <2>1, <3>1, <3>3 DEF ProcTypes
    <3> QED
      BY <3>3, <3>4
  <2>4. CASE FinStep(a) /\ ~FinLoad(a)
    <3>1. ~(Return(a) \/ Throw(a))
      BY <1>1, <1>5, <2>1 DEF Return, Throw, Release, ProcTypes, FinalizerLabels
    <3>2. /\ UNCHANGED <<cur, bctx>> /\ pc[a] \in FinalizerLabels \ {"finLoad"}
      BY <2>4, <3>1 DEF FinStep, FinCount, FinFailed, FinRead, FinOpen, FinOpenFails, FinWrite, FinSave, At,
                        FinalizerLabels
    <3> QED
      BY <3>2 DEF CopiesInv
  <2>5. CASE Acts(a) /\ ~FinStep(a) /\ a \in Worker
    <3>1. pc'[a] \notin FinalizerLabels \ {"finLoad"}
      BY <1>1, <2>1, <2>5
         DEF Acts, WorkerStep, WorkerFault, WorkerCrash, DequeueSelect, DequeueCommit, MarkRunning, MarkRunningLost,
             Process, SpotInterruption, MarkCompletedLoad, MarkCompletedSave, MarkFailedLoad, LoadJob,
             MarkFailedRequeue, MarkFailedSave, WorkerRestart, Return, Throw, Release, ProcTypes, FinalizerLabels
    <3> QED
      BY <1>5, <3>1
  <2>6. CASE Acts(a) /\ ~FinStep(a) /\ a = Scheduler
    <3>1. SchedulerStep \/ SchedulerAbort
      BY <2>6 DEF Acts
    <3>2. pc'[a] \notin FinalizerLabels \ {"finLoad"}
      BY <1>1, <2>1, <2>6, <3>1
         DEF SchedulerStep, SchedulerAbort, LoadQueued, NextBatch, SaveRejected, ReadLine, SaveIngested,
             EscalateLoad, EscalateSave, Return, Release, ProcTypes, FinalizerLabels, At
    <3> QED
      BY <1>5, <3>2
  <2>7. Rests(a) \/ Acts(a)
    BY <2>1, OneActs
  <2> QED
    BY <2>2, <2>3, <2>4, <2>5, <2>6, <2>7 DEF Finalizing
<1>6. ASSUME NEW h \in Handler, pc'[h] \in {"cancelRequests", "cancelSave"}
      PROVE  bctx'[h][cur'[h]].status \in {"queued", "running"}
  <2>1. h \in Actor /\ h # Scheduler /\ h \notin Worker
    BY DEF Actor
  <2>2. CASE Rests(h)
    BY <1>6, <2>2 DEF Rests, CopiesInv
  <2>3. CASE \E b \in Batch : CancelLoad(h, b)
    BY <1>1, <2>1, <2>3 DEF CancelLoad, ProcTypes
  <2>4. CASE HandlerStep(h) \/ HangUp(h) \/ \E r \in Request : RetryLoad(h, r)
    <3>1. UNCHANGED <<cur, bctx>> /\ pc[h] = "cancelRequests"
      BY <1>1, <1>6, <2>1, <2>4 DEF HandlerStep, CancelRequests, CancelSave, RetrySave, HangUp, RetryLoad, Release,
                                    ProcTypes
    <3> QED
      BY <3>1 DEF CopiesInv
  <2>5. Rests(h) \/ Acts(h)
    BY <2>1, OneActs
  <2> QED
    BY <2>1, <2>2, <2>3, <2>4, <2>5 DEF Acts
<1> QED
  BY <1>3, <1>4, <1>5, <1>6 DEF CopiesInv

\* A finalizer of a batch of which nothing remains only leaves it with its
\* output file, or to another one that has the file open.
LEMMA FinishesBatch ==
    ASSUME TypeInv, CopiesInv, NEW a \in Finalizing, FinStep(a), NEW b \in Batch, cur[a] = b,
           Remaining(b) = {}, batches[b].out = 0, batches'[b].out = 0
    PROVE  \E c \in Finalizing : Finalizes(c, b)'
<1> USE StoreAssumption
<1>1. ProcTypes /\ DbTypes /\ FinalizerTypeOK
  BY TypeParts
<1>2. /\ a \in Actor /\ pc[a] \in FinalizerLabels
      /\ pc[a] # "finLoad" => bctx[a][b] # None /\ bctx[a][b] \in BatchRow /\ bctx[a][b].out = 0
  BY FinMoves, FinHolds DEF CopiesInv
<1>3. CASE FinLoad(a)
  <2>1. BatchSeenBy(a, b).out = 0
    BY <1>2 DEF BatchSeenBy, CopiesInv
  <2>2. UNCHANGED cur /\ pc'[a] = "finCount"
    BY <1>1, <1>2, <1>3, <2>1 DEF FinLoad, ProcTypes
  <2> QED
    BY <2>2 DEF Finalizes, FinalizerLabels
<1>4. CASE FinCount(a)
  BY <1>1, <1>2, <1>4 DEF FinCount, ProcTypes, Finalizes, FinalizerLabels
<1>5. CASE FinFailed(a) \/ FinRead(a) \/ FinOpen(a) \/ FinWrite(a)
  <2>1. UNCHANGED cur /\ pc'[a] \in FinalizerLabels
    BY <1>1, <1>2, <1>5 DEF FinFailed, FinRead, FinOpen, FinWrite, ProcTypes, FinalizerLabels
  <2> QED
    BY <2>1 DEF Finalizes
<1>6. CASE FinOpenFails(a)
  <2>1. PICK c \in Finalizing : pc[c] = "finWrite" /\ cur[c] = b
    BY <1>6 DEF FinOpenFails, Opened, At
  <2>2. c # a /\ c \in Actor
    BY <1>6, <2>1 DEF FinOpenFails, At, Finalizing, Actor
  <2>3. pc'[c] = "finWrite" /\ cur'[c] = b
    BY <2>1, <2>2, FinMoves
  <2> QED
    BY <2>3 DEF Finalizes, FinalizerLabels
<1>7. CASE FinSave(a)
  <2>1. outRows[b] \in Nat /\ pc[a] = "finSave"
    BY <1>1, <1>7 DEF FinSave, At, DbTypes
  <2>2. FinalBatch(a).out = outRows[b] + 1 /\ bctx[a][b].out = 0
    BY <1>2, <2>1 DEF FinalBatch, BatchRow
  <2>3. batches'[b].out = outRows[b] + 1
    BY <1>1, <1>7, <2>1, <2>2 DEF FinSave, MergeBatch, Column, DbTypes
  <2> QED
    BY <2>1, <2>3
<1> QED
  BY <1>3, <1>4, <1>5, <1>6, <1>7 DEF FinStep

\* Nor does it leave it otherwise, as long as no pod or tick is lost: after a
\* fault it marks its request failed and comes back.
LEMMA KeepsFinalizing ==
    ASSUME TypeInv, SafeInv, CopiesInv, [Next]_vars, NEW a \in Finalizing, NEW b \in Batch,
           Finalizes(a, b), Remaining(b) = {}, batches[b].out = 0, batches'[b].out = 0,
           ~Spend("crash"), ~Spend("abort")
    PROVE  \E c \in Finalizing : Finalizes(c, b)'
<1> USE StoreAssumption
<1>1. ProcTypes /\ FinalizerTypeOK /\ a \in Actor /\ cur[a] = b
  BY TypeParts DEF Finalizing, Actor, Finalizes
<1>2. CASE Rests(a)
  BY <1>2 DEF Rests, Finalizes
<1>3. CASE FinStep(a)
  BY <1>1, <1>3, FinishesBatch
<1>4. CASE a \in Worker /\ (WorkerStep(a) \/ WorkerFault(a) \/ WorkerCrash(a)) /\ ~FinStep(a)
  <2>1. CASE WorkerFault(a)
    <3>1. err[a] = "none" /\ Throw(a)
      BY <2>1 DEF WorkerFault
    <3>2. cur' = cur /\ pc'[a] = "mfLoad" /\ err'[a] = "error"
      BY <1>1, <1>4, <3>1 DEF Throw, ProcTypes, FinalizerTypeOK
    <3> QED
      BY <1>1, <3>2 DEF Finalizes
  <2>2. ~WorkerCrash(a)
    BY DEF WorkerCrash
  <2>3. CASE WorkerStep(a) /\ pc[a] \in FinalizerLabels
    BY <1>4, <2>3 DEF WorkerStep, DequeueSelect, DequeueCommit, MarkRunning, MarkRunningLost, Process,
         SpotInterruption, MarkCompletedLoad, MarkCompletedSave, MarkFailedLoad, LoadJob, MarkFailedRequeue,
         MarkFailedSave, WorkerRestart, At, FinalizerLabels
  <2>4. CASE WorkerStep(a) /\ pc[a] \in {"mfLoad", "mfSave"} /\ err[a] = "error"
    <3>1. MarkFailedLoad(a) \/ MarkFailedSave(a)
      BY <1>4, <2>4 DEF WorkerStep, DequeueSelect, DequeueCommit, MarkRunning, MarkRunningLost, Process,
         SpotInterruption, MarkCompletedLoad, MarkCompletedSave, LoadJob, MarkFailedRequeue, IsSpotInterruption,
         WorkerRestart, At
    <3>2. UNCHANGED <<cur, err>> /\ (pc'[a] = "mfSave" \/ pc'[a] = "finLoad")
      BY <1>1, <3>1 DEF MarkFailedLoad, LoadJob, MarkFailedSave, ProcTypes, finVars
    <3> QED
      BY <1>1, <2>4, <3>2 DEF Finalizes, FinalizerLabels
  <2> QED
    BY <1>4, <2>1, <2>2, <2>3, <2>4 DEF Finalizes
<1>5. CASE a = Scheduler /\ (SchedulerStep \/ SchedulerAbort) /\ ~FinStep(a)
  <2>1. pc[a] \in {"mfLoad", "mfSave"} \cup FinalizerLabels /\ pc[a] \in SchedulerLabels
    BY <1>5 DEF Finalizes, TypeInv, TypeOK
  <2> QED
    BY <1>5, <2>1 DEF SchedulerStep, SchedulerAbort, LoadQueued, NextBatch, SaveRejected, ReadLine, SaveIngested,
         EscalateLoad, EscalateSave, At, FinalizerLabels, SchedulerLabels
<1>6. a \notin Handler
  BY DEF Finalizing
<1> QED
  BY <1>1, <1>2, <1>3, <1>4, <1>5, <1>6, OneActs DEF Acts

LEMMA LastOneStep ==
    TypeInv /\ SafeInv /\ CopiesInv /\ LastOneFinalizes /\ [Next]_vars => LastOneFinalizes'
<1> SUFFICES ASSUME TypeInv, SafeInv, CopiesInv, LastOneFinalizes, [Next]_vars,
                    spent'["crash"] = 0, spent'["abort"] = 0, spent'["hangup"] = 0,
                    NEW b \in Batch, batches'[b].status = "running", batches'[b].out = 0, Settled(b)'
             PROVE  \/ \E a \in Finalizing : Finalizes(a, b)'
                    \/ \E h \in Handler : pc'[h] = "cancelSave" /\ cur'[h] = b
  BY DEF LastOneFinalizes
<1> USE StoreAssumption
<1>1. ProcTypes /\ DbTypes
  BY TypeParts
<1>2. /\ spent["crash"] = 0 /\ spent["abort"] = 0 /\ spent["hangup"] = 0
      /\ ~Spend("crash") /\ ~Spend("abort") /\ ~Spend("hangup")
  BY SpentBy DEF EventKind
<1>3. batches[b].out = 0
  BY OutStays
<1>4. CASE SaveIngested /\ cur[Scheduler] = b
  <2>1. cur'[Scheduler] = b /\ pc'[Scheduler] = "finLoad"
    BY <1>1, <1>4 DEF SaveIngested, ProcTypes, Actor
  <2> QED
    BY <2>1 DEF Finalizes, FinalizerLabels, Finalizing
<1>5. CASE batches[b].status # "running"
  BY <1>4, <1>5, BatchMoves
<1>6. CASE batches[b].status = "running" /\ Settled(b)
  <2>1. Remaining(b) = {}
    BY <1>6 DEF Settled, Final, Remaining, Open
  <2>2. CASE \E a \in Finalizing : Finalizes(a, b)
    BY <1>2, <1>3, <2>1, <2>2, KeepsFinalizing
  <2>3. ASSUME NEW h \in Handler, pc[h] = "cancelSave", cur[h] = b
        PROVE  pc'[h] = "cancelSave" /\ cur'[h] = b
    <3>1. h \in Actor /\ h # Scheduler /\ h \notin Worker
      BY DEF Actor
    <3>2. CASE Rests(h)
      BY <2>3, <3>2 DEF Rests
    <3>3. CASE CancelSave(h)
      <4> DEFINE old == bctx[h][b]
                 new == [old EXCEPT !.status = "cancelled"]
      <4>1. old \in BatchRow /\ old.status \in {"queued", "running"}
        BY <1>1, <2>3, <3>1 DEF TypeInv, HandlerHolds, CopiesInv, ProcTypes
      <4>2. batches'[b] = MergeBatch(batches[b], old, new)
        BY <1>1, <2>3, <3>3 DEF CancelSave, DbTypes
      <4>3. new.status = "cancelled"
        BY <4>1 DEF BatchRow
      <4> HIDE DEF old, new
      <4>4. batches'[b].status = "cancelled"
        BY <4>1, <4>2, <4>3 DEF MergeBatch, Column
      <4> QED
        BY <4>4
    <3>4. ~HangUp(h)
      BY <1>2 DEF HangUp
    <3>5. ~CancelRequests(h) /\ ~RetrySave(h) /\ (\A c \in Batch : ~CancelLoad(h, c))
          /\ (\A r \in Request : ~RetryLoad(h, r))
      BY <2>3 DEF CancelRequests, RetrySave, CancelLoad, RetryLoad
    <3>6. Rests(h) \/ Acts(h)
      BY <3>1, OneActs
    <3> QED
      BY <3>1, <3>2, <3>3, <3>4, <3>5, <3>6 DEF Acts, HandlerStep
  <2> QED
    <3>1. \/ \E a \in Finalizing : Finalizes(a, b)
          \/ \E h \in Handler : pc[h] = "cancelSave" /\ cur[h] = b
      BY <1>2, <1>3, <1>6 DEF LastOneFinalizes
    <3> QED
      BY <2>2, <2>3, <3>1
<1>7. CASE ~Settled(b)
  <2>1. PICK r \in RequestsOf(b) : requests[r].status \notin Final
    BY <1>7 DEF Settled
  <2>2. r \in Request /\ BatchOf[r] = b /\ requests'[r].status \in Final
    BY <2>1 DEF Settled, RequestsOf
  <2>3. ASSUME NEW w \in Worker, MarkCompletedSave(w) \/ MarkFailedSave(w), job[w] = r
        PROVE  Finalizes(w, b)' /\ w \in Finalizing
    <3>1. w \in Actor /\ Busy(w) /\ pc'[w] = "finLoad" /\ cur' = cur
      BY <1>1, <2>3 DEF MarkCompletedSave, MarkFailedSave, At, Busy, Actor, ProcTypes
    <3>2. cur[w] = b
      BY <2>2, <2>3, <3>1 DEF TypeInv, WorkerHolds
    <3> QED
      BY <3>1, <3>2 DEF Finalizes, FinalizerLabels, Finalizing
  <2>4. ASSUME NEW h \in Handler, CancelRequests(h), cur[h] = b
        PROVE  pc'[h] = "cancelSave" /\ cur'[h] = b
    BY <1>1, <2>4 DEF CancelRequests, ProcTypes, Actor
  <2> QED
    BY <1>4, <2>1, <2>2, <2>3, <2>4, FinishedBy
<1> QED
  BY <1>5, <1>6, <1>7

LEMMA InitialCopies == Init => CopiesInv /\ LastOneFinalizes
BY StoreAssumption
   DEF Init, StoreInit, CopiesInv, LastOneFinalizes, NoBatch, NoBatchesTracked, Actor, Finalizing, FinalizerLabels

THEOREM CopiesInvariant == Spec => []CopiesInv
<1>1. Init => CopiesInv
  BY InitialCopies
<1>2. TypeInv /\ SafeInv /\ CopiesInv /\ [Next]_vars => CopiesInv'
  BY CopiesStep
<1> QED
  BY <1>1, <1>2, TypeInvariant, SafetyInvariant, PTL DEF Spec

\* A running batch whose requests are all final has its output file, or is being
\* finalized or cancelled, unless a pod, a tick or a cancellation was lost:
\* faults, interruptions, concurrent finalizers and retries leave none behind.
THEOREM LastFinalizes == Spec => []LastOneFinalizes
<1>1. Init => LastOneFinalizes
  BY InitialCopies
<1>2. TypeInv /\ SafeInv /\ CopiesInv /\ LastOneFinalizes /\ [Next]_vars => LastOneFinalizes'
  BY LastOneStep
<1> QED
  BY <1>1, <1>2, TypeInvariant, SafetyInvariant, CopiesInvariant, PTL DEF Spec
=============================================================================
