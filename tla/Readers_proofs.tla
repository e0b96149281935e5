--------------------------- MODULE Readers_proofs ---------------------------
(***************************************************************************)
(* What the readers of the tables show, for all pods, batches and          *)
(* schedules: the gauge of processed batches never drops, a response's     *)
(* status agrees with the counts taken after it, the output endpoint       *)
(* serves whole files, and the portal's counts miss no open batch.         *)
(*                                                                         *)
(* Readers change nothing (ReadersRefine), so each property is one of the  *)
(* system that outlives the step between two queries: what was true of a   *)
(* batch at the first is still true, or has moved on in one direction, at  *)
(* the second.                                                             *)
(***************************************************************************)
EXTENDS Readers, BatchResults_proofs

allVars == <<vars, readerVars>>

\* A step of a reader leaves the system alone, so that what is proved of the
\* system holds under readers.
THEOREM ReadersRefine == ReadersSpec => Spec
<1>1. ReadersInit => Init
  BY DEF ReadersInit
<1>2. [ReadersNext]_<<vars, readerVars>> => [Next]_vars
  BY DEF ReadersNext
<1> QED
  BY <1>1, <1>2, PTL DEF ReadersSpec, Spec

\* A step of the readers' system is one of a reader or leaves all readers alone.
LEMMA ReadersStep ==
    ASSUME [ReadersNext]_allVars
    PROVE  /\ [Next]_vars
           /\ \/ ReaderStep /\ UNCHANGED vars
              \/ UNCHANGED readerVars
BY DEF ReadersNext, allVars

LEMMA Subsets ==
    ASSUME NEW S \in SUBSET Batch, NEW T \in SUBSET Batch, S \subseteq T
    PROVE  /\ Cardinality(S) \in Nat /\ Cardinality(T) \in Nat
           /\ Cardinality(S) <= Cardinality(T)
<1>1. IsFiniteSet(S) /\ IsFiniteSet(T)
  BY StoreAssumption, FS_Subset
<1> QED
  BY <1>1, FS_CardinalityType, FS_Subset

----------------------------------------------------------------------------
(* The gauge                                                                *)

\* What is about to be set was counted after what is set, and batches that are
\* processed stay so.
GaugeInv ==
    /\ processed \in Nat /\ counted \in Nat
    /\ processed <= BatchesProcessed
    /\ rpc = "metrics" => processed <= counted /\ counted <= BatchesProcessed

LEMMA ProcessedGrows ==
    ASSUME TypeInv, [Next]_vars
    PROVE  /\ BatchesProcessed \in Nat /\ BatchesProcessed' \in Nat
           /\ BatchesProcessed <= BatchesProcessed'
<1> DEFINE S == {b \in Created : batches[b].status # "queued"}
           T == {b \in Batch : batches'[b].status \notin {"absent", "queued"}}
<1>1. S \in SUBSET Batch /\ T \in SUBSET Batch /\ S \subseteq T
  <2>1. ASSUME NEW b \in S PROVE b \in T
    <3>1. b \in Batch /\ batches[b].status \notin {"absent", "queued"}
      BY DEF Created
    <3>2. ~CreateBatch(b)
      BY <3>1 DEF CreateBatch
    <3> QED
      BY <3>1, <3>2, BatchMoves
  <2> QED
    BY <2>1 DEF Created
<1>2. S' = T
  BY DEF Created
<1>3. BatchesProcessed = Cardinality(S) /\ BatchesProcessed' = Cardinality(S')
  BY DEF BatchesProcessed
<1> HIDE DEF S, T
<1> QED
  BY <1>1, <1>2, <1>3, Subsets

LEMMA GaugeStep == TypeInv /\ GaugeInv /\ [ReadersNext]_allVars => GaugeInv'
<1> SUFFICES ASSUME TypeInv, GaugeInv, [ReadersNext]_allVars PROVE GaugeInv'
  OBVIOUS
<1>1. [Next]_vars /\ (ReaderStep \/ UNCHANGED readerVars)
  BY ReadersStep
<1>2. /\ BatchesProcessed \in Nat /\ BatchesProcessed' \in Nat
      /\ BatchesProcessed <= BatchesProcessed'
  BY <1>1, ProcessedGrows
<1>3. CASE UNCHANGED readerVars
  BY <1>2, <1>3 DEF GaugeInv, readerVars
<1>4. CASE MetricsCount
  BY <1>2, <1>4 DEF GaugeInv, MetricsCount
<1>5. CASE MetricsSet \/ MetricsFail
  BY <1>2, <1>5 DEF GaugeInv, MetricsSet, MetricsFail
<1>6. CASE ReaderStep /\ ~(MetricsCount \/ MetricsSet \/ MetricsFail)
  <2>1. UNCHANGED <<counted, processed>> /\ (rpc' = "metrics" => rpc = "metrics")
    BY <1>6 DEF ReaderStep, StatusLoad, OutputLoad, ReadBatch, StatusAnswer, OutputAnswer, Answer, ListAll,
                ListStatus, ListDone
  <2> QED
    BY <1>2, <2>1 DEF GaugeInv
<1> QED
  BY <1>1, <1>3, <1>4, <1>5, <1>6

THEOREM GaugeInvariant == ReadersSpec => []GaugeInv
<1>1. ReadersInit => GaugeInv
  <2> SUFFICES ASSUME ReadersInit PROVE GaugeInv
    OBVIOUS
  <2>1. BatchesProcessed \in Nat
    BY Subsets DEF BatchesProcessed, Created
  <2> QED
    BY <2>1 DEF ReadersInit, ReaderInit, GaugeInv
<1>2. TypeInv /\ GaugeInv /\ [ReadersNext]_allVars => GaugeInv'
  BY GaugeStep
<1> QED
  BY <1>1, <1>2, ReadersRefine, TypeInvariant, PTL DEF ReadersSpec, allVars

\* The gauge BatchesProcessedTotal never drops, whatever happens between the
\* count and the moment it is set.
THEOREM GaugeNeverDrops == ReadersSpec => ProcessedNeverDrops
<1>1. GaugeInv /\ [ReadersNext]_allVars => [processed' >= processed]_processed
  <2> SUFFICES ASSUME GaugeInv, [ReadersNext]_allVars, processed' # processed
               PROVE  processed' >= processed
    OBVIOUS
  <2>1. MetricsSet
    <3>1. ReaderStep
      BY ReadersStep DEF readerVars
    <3> QED
      BY <3>1 DEF ReaderStep, StatusLoad, OutputLoad, ReadBatch, StatusAnswer, OutputAnswer, Answer, ListAll,
                  ListStatus, ListDone, MetricsCount, MetricsFail
  <2> QED
    BY <2>1 DEF MetricsSet, GaugeInv
<1> QED
  BY <1>1, GaugeInvariant, PTL DEF ReadersSpec, allVars, ProcessedNeverDrops
----------------------------------------------------------------------------
(* Output files                                                             *)

NothingLost == spent["crash"] = 0 /\ spent["fault"] = 0 /\ spent["abort"] = 0

\* A batch with an OutputFileId has its file on disk; a file that was closed
\* has a line for each request; and one that was not is still open, unless its
\* writer was lost.
FilesInv ==
    /\ \A b \in Batch : batches[b].out # 0 => disk[b].state # "missing"
    /\ \A a \in Finalizing :
          pc[a] \in {"finWrite", "finSave"} => disk[cur[a]].state # "missing"
    /\ \A b \in Batch : disk[b].state = "written" =>
          \A r \in RequestsOf(b) : disk[b].lines[r] # None
    /\ \A a \in Finalizing : pc[a] \in {"finOpen", "finWrite"} =>
          \A r \in RequestsOf(cur[a]) : lines[a][r] # None
    /\ NothingLost => \A b \in Batch : disk[b].state = "partial" => Opened(b)

\* Only finalizers touch the files.
LEMMA DiskMoves ==
    ASSUME TypeInv, [Next]_vars, NEW b \in Batch, disk'[b] # disk[b]
    PROVE  \E a \in Finalizing :
               /\ cur[a] = b
               /\ \/ FinOpen(a) /\ disk'[b] = [state |-> "partial", lines |-> NoLines]
                  \/ FinWrite(a) /\ disk'[b] = [state |-> "written", lines |-> lines[a]]
<1> USE StoreAssumption
<1>1. DbTypes /\ disk' # disk
  BY TypeParts
<1>2. CASE \E a \in Finalizing : FinStep(a)
  <2>1. PICK a \in Finalizing : FinStep(a)
    BY <1>2
  <2>2. FinOpen(a) \/ FinWrite(a)
    BY <1>1, <2>1 DEF FinStep, FinLoad, FinCount, FinFailed, FinRead, FinOpenFails, FinSave
  <2> QED
    BY <1>1, <2>2 DEF FinOpen, FinWrite, Written, DbTypes
<1>3. ASSUME NEW w \in Worker, WorkerStep(w) \/ WorkerFault(w) \/ WorkerCrash(w) PROVE FinStep(w)
  BY <1>1, <1>3 DEF WorkerStep, WorkerFault, WorkerCrash, DequeueSelect, DequeueCommit, MarkRunning,
         MarkRunningLost, Process, SpotInterruption, MarkCompletedLoad, MarkCompletedSave, MarkFailedLoad,
         LoadJob, MarkFailedRequeue, MarkFailedSave, WorkerRestart
<1>4. CASE SchedulerStep \/ SchedulerAbort
  <2>1. FinStep(Scheduler)
    BY <1>1, <1>4 DEF SchedulerStep, SchedulerAbort, LoadQueued, NextBatch, SaveRejected, ReadLine, SaveIngested,
         EscalateLoad, EscalateSave
  <2> QED
    BY <1>2, <2>1 DEF Finalizing
<1>5. \/ \E w \in Worker : WorkerStep(w) \/ WorkerFault(w) \/ WorkerCrash(w)
      \/ SchedulerStep \/ SchedulerAbort
  BY <1>1 DEF Next, HandlerStep, HangUp, CancelRequests, CancelSave, RetrySave, ClientStep, UploadWrite,
         UploadRegister, CreateBatch, LoseInput, CancelLoad, RetryLoad, DeadlineNears, vars, storeVars
<1> QED
  BY <1>2, <1>3, <1>4, <1>5 DEF Finalizing

\* Where a finalizer that has read its batch's requests comes from.
LEMMA FinFrom ==
    ASSUME TypeInv, SafeInv, [Next]_vars, NEW a \in Finalizing,
           pc'[a] \in {"finOpen", "finWrite", "finSave"}
    PROVE  /\ cur'[a] = cur[a]
           /\ \/ pc'[a] = pc[a] /\ lines'[a] = lines[a]
              \/ FinRead(a) /\ pc'[a] = "finOpen"
              \/ FinOpen(a) /\ pc'[a] = "finWrite" /\ lines'[a] = lines[a]
              \/ FinWrite(a) /\ pc'[a] = "finSave"
<1> USE StoreAssumption
<1>1. ProcTypes /\ a \in Actor /\ (Rests(a) \/ Acts(a))
  BY TypeParts, OneActs DEF Finalizing, Actor
<1>2. cur'[a] = cur[a]
  BY CountedBy DEF Counted, FinalizerLabels
<1>3. CASE Rests(a)
  BY <1>2, <1>3 DEF Rests
<1>4. CASE FinStep(a)
  <2>1. ~(Return(a) \/ Throw(a))
    BY <1>1 DEF Return, Throw, Release, ProcTypes
  <2>2. CASE FinLoad(a) \/ FinCount(a) \/ FinFailed(a)
    BY <1>1, <2>1, <2>2 DEF FinLoad, FinCount, FinFailed, ProcTypes
  <2>3. CASE FinRead(a) \/ FinOpen(a) \/ FinWrite(a)
    BY <1>1, <1>2, <2>3 DEF FinRead, FinOpen, FinWrite, ProcTypes, finVars
  <2> QED
    BY <1>4, <2>1, <2>2, <2>3 DEF FinStep, FinOpenFails, FinSave
<1>5. CASE Acts(a) /\ ~FinStep(a) /\ a \in Worker
  <2>1. pc'[a] \notin {"finOpen", "finWrite", "finSave"}
    BY <1>1, <1>5
       DEF Acts, WorkerStep, WorkerFault, WorkerCrash, DequeueSelect, DequeueCommit, MarkRunning, MarkRunningLost,
           Process, SpotInterruption, MarkCompletedLoad, MarkCompletedSave, MarkFailedLoad, LoadJob,
           MarkFailedRequeue, MarkFailedSave, WorkerRestart, Return, Throw, Release, ProcTypes
  <2> QED
    BY <2>1
<1>6. CASE Acts(a) /\ ~FinStep(a) /\ a = Scheduler
  <2>1. SchedulerStep \/ SchedulerAbort
    BY <1>6 DEF Acts
  <2>2. pc'[a] \notin {"finOpen", "finWrite", "finSave"}
    BY <1>1, <1>6, <2>1
       DEF SchedulerStep, SchedulerAbort, LoadQueued, NextBatch, SaveRejected, ReadLine, SaveIngested,
           EscalateLoad, EscalateSave, Return, Release, ProcTypes, At
  <2> QED
    BY <2>2
<1> QED
  BY <1>1, <1>3, <1>4, <1>5, <1>6 DEF Finalizing

\* No file is ever deleted.
LEMMA NotMissing ==
    ASSUME TypeInv, [Next]_vars, NEW b \in Batch, disk[b].state # "missing"
    PROVE  disk'[b].state # "missing"
<1>1. CASE disk'[b] # disk[b]
  <2>1. PICK a \in Finalizing :
            \/ FinOpen(a) /\ disk'[b] = [state |-> "partial", lines |-> NoLines]
            \/ FinWrite(a) /\ disk'[b] = [state |-> "written", lines |-> lines[a]]
    BY <1>1, DiskMoves
  <2> QED
    BY <2>1
<1> QED
  BY <1>1

\* The lines a finalizer has rendered are never null.
LEMMA Rendered ==
    ASSUME TypeInv, NEW a \in Finalizing, FinRead(a), NEW r \in RequestsOf(cur[a])
    PROVE  lines'[a][r] # None
<1>1. ProcTypes /\ DbTypes /\ FinalizerTypeOK /\ a \in Actor /\ r \in Request /\ BatchOf[r] = cur[a]
  BY TypeParts DEF Finalizing, Actor, RequestsOf
<1>2. lines'[a][r] = Line(RequestSeenBy(a, r))
  BY <1>1 DEF FinRead, FinalizerTypeOK
<1>3. RequestSeenBy(a, r) \in RequestRow
  BY <1>1 DEF RequestSeenBy, ProcTypes, DbTypes
<1>4. \A row \in RequestRow : Line(row) # None
  BY RowAssumption DEF Line, RequestRow
<1> QED
  BY <1>2, <1>3, <1>4

\* A file that is being written stays open until it is whole or its writer is lost.
LEMMA StaysOpen ==
    ASSUME TypeInv, SafeInv, [Next]_vars, ~Spend("crash"), ~Spend("fault"), ~Spend("abort"),
           NEW b \in Batch, Opened(b), disk'[b].state = "partial"
    PROVE  Opened(b)'
<1> USE StoreAssumption
<1>1. PICK c \in Finalizing : pc[c] = "finWrite" /\ cur[c] = b
  BY DEF Opened, At
<1>2. ProcTypes /\ DbTypes /\ c \in Actor
  BY TypeParts DEF Finalizing, Actor
<1>3. CASE Rests(c)
  BY <1>1, <1>3 DEF Rests, Opened, At
<1>4. CASE FinStep(c)
  <2>1. FinWrite(c)
    BY <1>1, <1>4 DEF FinStep, FinLoad, FinCount, FinFailed, FinRead, FinOpen, FinOpenFails, FinSave, At
  <2>2. disk'[b].state = "written"
    BY <1>1, <1>2, <2>1 DEF FinWrite, Written, DbTypes
  <2> QED
    BY <2>2
<1>5. CASE c \in Worker /\ (WorkerStep(c) \/ WorkerFault(c) \/ WorkerCrash(c)) /\ ~FinStep(c)
  BY <1>1, <1>5 DEF WorkerStep, WorkerFault, WorkerCrash, DequeueSelect, DequeueCommit, MarkRunning,
         MarkRunningLost, Process, SpotInterruption, MarkCompletedLoad, MarkCompletedSave, MarkFailedLoad,
         LoadJob, MarkFailedRequeue, MarkFailedSave, WorkerRestart, At
<1>6. CASE c = Scheduler /\ (SchedulerStep \/ SchedulerAbort) /\ ~FinStep(c)
  BY <1>1, <1>6 DEF SchedulerStep, SchedulerAbort, LoadQueued, NextBatch, SaveRejected, ReadLine, SaveIngested,
         EscalateLoad, EscalateSave, At
<1>7. Rests(c) \/ Acts(c)
  BY <1>2, OneActs
<1> QED
  BY <1>3, <1>4, <1>5, <1>6, <1>7 DEF Acts, Finalizing

LEMMA FilesStep == TypeInv /\ SafeInv /\ FilesInv /\ [Next]_vars => FilesInv'
<1> SUFFICES ASSUME TypeInv, SafeInv, FilesInv, [Next]_vars PROVE FilesInv'
  OBVIOUS
<1>1. ProcTypes /\ DbTypes
  BY TypeParts
<1>2. ASSUME NEW b \in Batch, disk[b].state # "missing" PROVE disk'[b].state # "missing"
  BY <1>2, NotMissing
<1>3. ASSUME NEW b \in Batch, batches'[b].out # 0 PROVE disk'[b].state # "missing"
  <2>1. CASE batches'[b].out = batches[b].out
    BY <1>2, <1>3, <2>1 DEF FilesInv
  <2>2. CASE \E a \in Finalizing : cur[a] = b /\ FinSave(a)
    BY <1>2, <2>2 DEF FilesInv, FinSave, At
  <2> QED
    BY <1>3, <2>1, <2>2, OutputsBy
<1>4. ASSUME NEW a \in Finalizing, pc'[a] \in {"finWrite", "finSave"}
      PROVE  disk'[cur'[a]].state # "missing"
  <2>1. cur'[a] = cur[a] /\ (pc'[a] = pc[a] \/ FinOpen(a) \/ FinWrite(a))
    BY <1>4, FinFrom
  <2>2. CASE pc'[a] = pc[a]
    <3>1. cur[a] \in Batch
      BY <1>4, <2>2, FinHolds DEF FinalizerLabels
    <3> QED
      BY <1>2, <1>4, <2>1, <2>2, <3>1 DEF FilesInv
  <2>3. CASE FinOpen(a) \/ FinWrite(a)
    <3>1. cur[a] \in Batch
      BY <2>3, FinHolds DEF FinOpen, FinWrite, At, FinalizerLabels
    <3> QED
      BY <1>1, <2>1, <2>3, <3>1 DEF FinOpen, FinWrite, Written, DbTypes
  <2> QED
    BY <2>1, <2>2, <2>3
<1>5. ASSUME NEW b \in Batch, disk'[b].state = "written", NEW r \in RequestsOf(b)
      PROVE  disk'[b].lines[r] # None
  <2>1. CASE disk'[b] = disk[b]
    BY <1>5, <2>1 DEF FilesInv
  <2>2. CASE disk'[b] # disk[b]
    <3>1. PICK a \in Finalizing :
              cur[a] = b /\ FinWrite(a) /\ disk'[b] = [state |-> "written", lines |-> lines[a]]
      BY <1>5, <2>2, DiskMoves
    <3> QED
      BY <1>5, <3>1 DEF FilesInv, FinWrite, At
  <2> QED
    BY <2>1, <2>2
<1>6. ASSUME NEW a \in Finalizing, pc'[a] \in {"finOpen", "finWrite"}, NEW r \in RequestsOf(cur'[a])
      PROVE  lines'[a][r] # None
  <2>1. /\ cur'[a] = cur[a]
        /\ \/ pc'[a] = pc[a] /\ lines'[a] = lines[a]
           \/ FinRead(a)
           \/ FinOpen(a) /\ lines'[a] = lines[a]
    BY <1>6, FinFrom
  <2>2. CASE FinRead(a)
    BY <1>6, <2>1, <2>2, Rendered
  <2>3. CASE ~FinRead(a)
    BY <1>6, <2>1, <2>3 DEF FilesInv, FinOpen, At
  <2> QED
    BY <2>2, <2>3
<1>7. ASSUME NothingLost', NEW b \in Batch, disk'[b].state = "partial" PROVE Opened(b)'
  <2>1. NothingLost /\ ~Spend("crash") /\ ~Spend("fault") /\ ~Spend("abort")
    BY <1>7, SpentBy DEF NothingLost, EventKind
  <2>2. CASE disk'[b] = disk[b]
    BY <1>7, <2>1, <2>2, StaysOpen DEF FilesInv
  <2>3. CASE disk'[b] # disk[b]
    <3>1. PICK a \in Finalizing :
              /\ cur[a] = b
              /\ \/ FinOpen(a)
                 \/ disk'[b] = [state |-> "written", lines |-> lines[a]]
      BY <2>3, DiskMoves
    <3>2. pc'[a] = "finWrite" /\ cur'[a] = b
      BY <1>1, <1>7, <3>1 DEF FinOpen, ProcTypes, Finalizing, Actor
    <3> QED
      BY <3>2 DEF Opened, At
  <2> QED
    BY <2>2, <2>3
<1> QED
  BY <1>3, <1>4, <1>5, <1>6, <1>7 DEF FilesInv, RequestsOf

THEOREM FilesInvariant == Spec => []FilesInv
<1>1. Init => FilesInv
  BY StoreAssumption DEF Init, StoreInit, FilesInv, NoBatch, Actor, Finalizing
<1>2. TypeInv /\ SafeInv /\ FilesInv /\ [Next]_vars => FilesInv'
  BY FilesStep
<1> QED
  BY <1>1, <1>2, TypeInvariant, SafetyInvariant, PTL DEF Spec

\* The batch whose output is about to be served has a file.
ServedInv == rpc = "output" => target \in Batch /\ disk[target].state # "missing"

LEMMA ServedStep == TypeInv /\ FilesInv /\ ServedInv /\ [ReadersNext]_allVars => ServedInv'
<1> SUFFICES ASSUME TypeInv, FilesInv, ServedInv, [ReadersNext]_allVars, rpc' = "output"
             PROVE  target' \in Batch /\ disk'[target'].state # "missing"
  BY DEF ServedInv
<1>1. CASE UNCHANGED readerVars
  <2>1. target' = target /\ target \in Batch /\ disk[target].state # "missing"
    BY <1>1 DEF readerVars, ServedInv
  <2> QED
    BY <2>1, ReadersStep, NotMissing
<1>2. CASE ReaderStep /\ UNCHANGED vars
  <2>1. \E b \in Batch : batches[b].out # 0 /\ target' = b
    BY <1>2 DEF ReaderStep, StatusLoad, OutputLoad, ReadBatch, StatusAnswer, OutputAnswer, Answer, MetricsCount,
                MetricsSet, MetricsFail, ListAll, ListStatus, ListDone
  <2> QED
    BY <1>2, <2>1 DEF FilesInv, vars, storeVars
<1> QED
  BY <1>1, <1>2, ReadersStep

THEOREM ServedInvariant == ReadersSpec => []ServedInv
<1>1. ReadersInit => ServedInv
  BY DEF ReadersInit, ReaderInit, ServedInv
<1>2. TypeInv /\ FilesInv /\ ServedInv /\ [ReadersNext]_allVars => ServedInv'
  BY ServedStep
<1> QED
  BY <1>1, <1>2, ReadersRefine, TypeInvariant, FilesInvariant, PTL DEF ReadersSpec, allVars

\* The output endpoint, once it has found an OutputFileId, answers with a whole
\* file or fails because another finalizer is rewriting it, as long as no pod is
\* lost and no save or write fails while the file is written.
THEOREM WholeFilesServed == ReadersSpec /\ []NothingLost => []OutputServed
<1>1. TypeInv /\ FilesInv /\ ServedInv /\ NothingLost => OutputServed
  <2> SUFFICES ASSUME TypeInv, FilesInv, ServedInv, NothingLost, rpc = "output", OutputCode # 500
               PROVE  /\ OutputCode = 200 /\ disk[target].state = "written"
                      /\ \A r \in RequestsOf(target) : disk[target].lines[r] # None
    BY DEF OutputServed
  <2>1. target \in Batch /\ disk[target].state \in {"partial", "written"}
    BY TypeParts DEF ServedInv, DbTypes, OutputFile
  <2>2. ~Opened(target)
    BY <2>1 DEF OutputCode
  <2>3. disk[target].state = "written"
    BY <2>1, <2>2 DEF FilesInv
  <2> QED
    BY <2>1, <2>2, <2>3 DEF FilesInv, OutputCode
<1> QED
  BY <1>1, ReadersRefine, TypeInvariant, FilesInvariant, ServedInvariant, PTL
----------------------------------------------------------------------------
(* The scheduler's list                                                     *)

\* The batches the scheduler still means to ingest.
OnList(b) ==
    \/ pc[Scheduler] \notin {"idle", "escSave"} /\ b \in todo
    \/ pc[Scheduler] \in {"reject", "lines"} /\ cur[Scheduler] = b

LEMMA ListedAbsent ==
    ASSUME SafeInv, NEW b, OnList(b) PROVE Absent(b)
BY DEF SafeInv, IngestInv, ListIsAbsent, OnList

\* A batch gets on the list when it is queued, and leaves it when it is saved.
LEMMA ListedBy ==
    ASSUME TypeInv, SafeInv, [Next]_vars, NEW b \in Batch, OnList(b)'
    PROVE  /\ OnList(b) \/ (batches[b].status = "queued" /\ UNCHANGED batches)
           /\ ~(cur[Scheduler] = b /\ (SaveRejected \/ SaveIngested))
<1> USE StoreAssumption DEF dbVars
<1>1. ProcTypes /\ Scheduler \in Actor /\ Scheduler \in Finalizing /\ Scheduler \notin Worker \cup Handler
  BY TypeParts DEF Actor, Finalizing
<1>2. CASE ~(SchedulerStep \/ SchedulerAbort)
  <2>1. Rests(Scheduler)
    <3>1. Rests(Scheduler) \/ Acts(Scheduler)
      BY <1>1, OneActs
    <3> QED
      BY <1>1, <1>2, <3>1 DEF Acts
  <2>2. UNCHANGED todo
    BY <1>2 DEF Next, schedVars, vars
  <2>3. ~SaveRejected /\ ~SaveIngested
    BY <1>2 DEF SchedulerStep
  <2> QED
    BY <2>1, <2>2, <2>3 DEF Rests, OnList
<1>3. CASE LoadQueued
  <2>1. pc[Scheduler] = "idle" /\ pc'[Scheduler] = "next" /\ UNCHANGED batches
    BY <1>1, <1>3 DEF LoadQueued, At, ProcTypes
  <2>2. b \in QueuedBatches
    BY <1>3, <2>1 DEF LoadQueued, OldestQueued, OnList
  <2> QED
    BY <2>1, <2>2 DEF QueuedBatches, SaveRejected, SaveIngested, At
<1>4. CASE NextBatch
  <2>1. pc[Scheduler] = "next" /\ (b \in todo' \/ cur'[Scheduler] = b)
    BY <1>4 DEF NextBatch, At, OnList
  <2>2. b \in todo
    <3>1. PICK c \in todo : todo' = todo \ {c} /\ cur' = [cur EXCEPT ![Scheduler] = c]
      BY <1>4 DEF NextBatch
    <3> QED
      BY <1>1, <2>1, <3>1 DEF ProcTypes
  <2> QED
    BY <2>1, <2>2 DEF OnList, SaveRejected, SaveIngested, At
<1>5. CASE SaveRejected \/ SaveIngested
  <2>1. /\ pc[Scheduler] \in {"reject", "lines"} /\ pc'[Scheduler] \in {"next", "finLoad"}
        /\ UNCHANGED todo
    BY <1>1, <1>5 DEF SaveRejected, SaveIngested, At, Return, schedVars, ProcTypes
  <2>2. b \in todo /\ cur[Scheduler] \notin todo
    BY <2>1 DEF OnList, SafeInv, IngestInv, ListIsAbsent
  <2> QED
    BY <2>1, <2>2 DEF OnList
<1>6. CASE ReadLine
  BY <1>6 DEF ReadLine, OnList, schedVars, SaveRejected, SaveIngested, At, AddLine
<1>7. CASE FinStep(Scheduler) /\ UNCHANGED schedVars
  <2>1. pc[Scheduler] \in FinalizerLabels /\ pc'[Scheduler] \notin {"reject", "lines"}
    BY <1>1, <1>7, FinMoves DEF FinalizerLabels
  <2> QED
    BY <1>7, <2>1 DEF OnList, schedVars, SaveRejected, SaveIngested, At, FinalizerLabels
<1>8. CASE EscalateLoad \/ EscalateSave \/ SchedulerAbort
  <2>1. pc'[Scheduler] \in {"idle", "escSave"}
    BY <1>1, <1>8 DEF EscalateLoad, EscalateSave, SchedulerAbort, Release, ProcTypes
  <2> QED
    BY <2>1 DEF OnList
<1> QED
  BY <1>2, <1>3, <1>4, <1>5, <1>6, <1>7, <1>8 DEF SchedulerStep
----------------------------------------------------------------------------
(* What a status says of the requests                                       *)

\* A running or completed batch has all its requests in the table.  A batch
\* that was completed or failed has none left to run and gets none any more,
\* unless one is retried: they are all final, or it was rejected.
Past(b) ==
    /\ batches[b].status \notin {"absent", "queued"}
    /\ Settled(b) \/ (Absent(b) /\ ~OnList(b))

StatusInv ==
    /\ \A b \in Batch : batches[b].status \in {"running", "completed"} => Present(b)
    /\ spent["retry"] = 0 =>
          \A b \in Batch : batches[b].status \in {"completed", "failed"} => Past(b)

LEMMA PresentStays ==
    ASSUME TypeInv, SafeInv, [Next]_vars, NEW b \in Batch,
           Present(b) \/ (SaveIngested /\ cur[Scheduler] = b)
    PROVE  Present(b)'
<1> SUFFICES ASSUME NEW r \in RequestsOf(b) PROVE requests'[r].status # "absent"
  BY DEF Present, RequestsOf
<1>1. r \in Request /\ BatchOf[r] = b
  BY DEF RequestsOf
<1>2. CASE SaveIngested /\ cur[Scheduler] = b
  BY <1>2, Inserted
<1>3. CASE SaveIngested /\ cur[Scheduler] # b
  <2>1. requests'[r] = requests[r]
    BY <1>1, <1>3 DEF SaveIngested
  <2> QED
    BY <1>3, <2>1 DEF Present
<1>4. CASE ~SaveIngested
  BY <1>1, <1>4, Presence DEF Present
<1> QED
  BY <1>2, <1>3, <1>4

LEMMA PastStays ==
    ASSUME TypeInv, SafeInv, DoneInv, [Next]_vars, spent'["retry"] = 0, NEW b \in Batch, Past(b)
    PROVE  Past(b)'
<1>1. batches[b].status \notin {"absent", "queued"} /\ batches'[b].status \notin {"absent", "queued"}
  BY BatchMoves DEF Past, CreateBatch
<1>2. CASE Settled(b)
  <2>1. ClaimInv /\ \A h \in Handler : pc[h] # "retrySave"
    BY SpentBy DEF DoneInv, NothingLeft, EventKind
  <2>2. \A r \in RequestsOf(b) : requests'[r].status \in Final
    BY <1>2, <2>1, FinalStays DEF Settled, RequestsOf
  <2> QED
    BY <1>1, <2>2 DEF Past, Settled, RequestsOf
<1>3. CASE Absent(b) /\ ~OnList(b)
  <2>1. ~OnList(b)'
    BY <1>1, <1>3, ListedBy
  <2>2. ASSUME NEW r \in RequestsOf(b) PROVE requests'[r].status = "absent"
    <3>1. r \in Request /\ BatchOf[r] = b /\ requests[r].status = "absent"
      BY <1>3 DEF RequestsOf, Absent
    <3>2. CASE SaveIngested
      BY <1>3, <3>1, <3>2 DEF SaveIngested, OnList, At
    <3>3. CASE ~SaveIngested
      BY <3>1, <3>3, Presence
    <3> QED
      BY <3>2, <3>3
  <2>3. Absent(b)'
    BY <2>2 DEF Absent, RequestsOf
  <2> QED
    BY <1>1, <2>1, <2>3 DEF Past
<1> QED
  BY <1>2, <1>3 DEF Past

LEMMA StatusStep == TypeInv /\ SafeInv /\ DoneInv /\ StatusInv /\ [Next]_vars => StatusInv'
<1> SUFFICES ASSUME TypeInv, SafeInv, DoneInv, StatusInv, [Next]_vars PROVE StatusInv'
  OBVIOUS
<1>1. ASSUME NEW b \in Batch, batches'[b].status \in {"running", "completed"} PROVE Present(b)'
  <2>1. CASE batches'[b].status = batches[b].status
    BY <1>1, <2>1, PresentStays DEF StatusInv
  <2>2. CASE SaveIngested /\ cur[Scheduler] = b
    BY <2>2, PresentStays
  <2>3. CASE \E a \in Finalizing : FinSave(a) /\ cur[a] = b
    <3>1. Present(b)
      BY <2>3, FinPresent DEF DoneInv, FinSave, At, FinalizerLabels
    <3> QED
      BY <3>1, PresentStays
  <2> QED
    BY <1>1, <2>1, <2>2, <2>3, BatchMoves
<1>2. ASSUME spent'["retry"] = 0, NEW b \in Batch, batches'[b].status \in {"completed", "failed"}
      PROVE  Past(b)'
  <2>1. spent["retry"] = 0
    BY <1>2, SpentBy DEF EventKind
  <2>2. CASE batches'[b].status = batches[b].status
    BY <1>2, <2>1, <2>2, PastStays DEF StatusInv
  <2>3. CASE SaveRejected /\ cur[Scheduler] = b
    <3>1. Absent(b) /\ UNCHANGED requests
      BY <2>3 DEF SaveRejected, At, SafeInv, IngestInv, ListIsAbsent
    <3>2. ~OnList(b)'
      BY <2>3, ListedBy
    <3> QED
      BY <1>2, <3>1, <3>2 DEF Past, Absent, RequestsOf
  <2>4. CASE \E a \in Finalizing : FinSave(a) /\ cur[a] = b
    <3>1. Settled(b) /\ UNCHANGED requests
      BY <2>1, <2>4 DEF DoneInv, NothingLeft, Counted, FinSave, At, FinalizerLabels
    <3> QED
      BY <1>2, <3>1 DEF Past, Settled, RequestsOf
  <2> QED
    BY <1>2, <2>2, <2>3, <2>4, BatchMoves
<1> QED
  BY <1>1, <1>2 DEF StatusInv

THEOREM StatusInvariant == Spec => []StatusInv
<1>1. Init => StatusInv
  BY DEF Init, StoreInit, StatusInv, NoBatch
<1>2. TypeInv /\ SafeInv /\ DoneInv /\ StatusInv /\ [Next]_vars => StatusInv'
  BY StatusStep
<1> QED
  BY <1>1, <1>2, TypeInvariant, SafetyInvariant, DoneInvariant, PTL DEF Spec

\* What the status handler loaded is still true of the requests when it counts
\* them, although the batch may have moved on.
SeenInv ==
    rpc = "status" =>
        /\ target \in Batch
        /\ seen.status \in {"running", "completed"} => Present(target)
        /\ spent["retry"] = 0 /\ seen.status \in {"completed", "failed"} => Past(target)

LEMMA SeenStep ==
    TypeInv /\ SafeInv /\ DoneInv /\ StatusInv /\ SeenInv /\ [ReadersNext]_allVars => SeenInv'
<1> SUFFICES ASSUME TypeInv, SafeInv, DoneInv, StatusInv, SeenInv, [ReadersNext]_allVars, rpc' = "status"
             PROVE  SeenInv'
  BY DEF SeenInv
<1>1. [Next]_vars
  BY ReadersStep
<1>2. CASE UNCHANGED readerVars
  <2>1. /\ target' = target /\ seen' = seen /\ target \in Batch
        /\ seen.status \in {"running", "completed"} => Present(target)
        /\ spent["retry"] = 0 /\ seen.status \in {"completed", "failed"} => Past(target)
    BY <1>2 DEF readerVars, SeenInv
  <2>2. seen.status \in {"running", "completed"} => Present(target)'
    <3>1. Present(target) => \A b \in {target} : Present(b)'
      BY <1>1, <2>1, PresentStays
    <3> QED
      BY <2>1, <3>1 DEF Present, RequestsOf
  <2>3. ASSUME spent'["retry"] = 0, seen.status \in {"completed", "failed"} PROVE Past(target)'
    <3>1. spent["retry"] = 0
      BY <1>1, <2>3, SpentBy DEF EventKind
    <3>2. \A b \in {target} : Past(b)'
      BY <1>1, <2>1, <2>3, <3>1, PastStays
    <3> QED
      BY <2>1, <3>2 DEF Past, Settled, Absent, OnList, RequestsOf
  <2> QED
    BY <2>1, <2>2, <2>3 DEF SeenInv
<1>3. CASE ReaderStep /\ UNCHANGED vars
  <2>1. PICK b \in Batch : target' = b /\ seen' = batches[b]
    BY <1>3 DEF ReaderStep, StatusLoad, OutputLoad, ReadBatch, StatusAnswer, OutputAnswer, Answer, MetricsCount,
                MetricsSet, MetricsFail, ListAll, ListStatus, ListDone
  <2>2. UNCHANGED <<batches, requests, todo, pc, cur, spent>>
    BY <1>3 DEF vars, storeVars, schedVars
  <2> QED
    BY <2>1, <2>2 DEF SeenInv, StatusInv, Present, Past, Settled, Absent, OnList, RequestsOf
<1> QED
  BY <1>2, <1>3, ReadersStep

THEOREM SeenInvariant == ReadersSpec => []SeenInv
<1>1. ReadersInit => SeenInv
  BY DEF ReadersInit, ReaderInit, SeenInv
<1>2. TypeInv /\ SafeInv /\ DoneInv /\ StatusInv /\ SeenInv /\ [ReadersNext]_allVars => SeenInv'
  BY SeenStep
<1> QED
  BY <1>1, <1>2, ReadersRefine, TypeInvariant, SafetyInvariant, DoneInvariant, StatusInvariant, PTL
     DEF ReadersSpec, allVars

\* A response that says running or completed counts all requests of the batch,
\* and one that says completed or failed counts none that is left to run, as
\* long as no request is retried, although the status is older than the counts.
THEOREM ConsistentStatus == ReadersSpec /\ [](spent["retry"] = 0) => []StatusConsistent
<1>1. TypeInv /\ SeenInv /\ spent["retry"] = 0 => StatusConsistent
  <2> SUFFICES ASSUME TypeInv, SeenInv, spent["retry"] = 0, rpc = "status"
               PROVE  /\ StatusReply.status \in {"running", "completed"} =>
                            StatusReply.total = Cardinality(RequestsOf(target))
                      /\ StatusReply.status \in {"completed", "failed"} => StatusReply.open = 0
    BY DEF StatusConsistent
  <2> DEFINE All == {r \in RequestsOf(target) : requests[r].status \in RequestStatus \ {"absent"}}
             Pending == {r \in RequestsOf(target) : requests[r].status \in {"Queued", "Running"}}
  <2>1. /\ StatusReply.status = seen.status
        /\ StatusReply.total = Cardinality(All) /\ StatusReply.open = Cardinality(Pending)
    BY DEF StatusReply
  <2>2. ASSUME seen.status \in {"running", "completed"} PROVE All = RequestsOf(target)
    <3>1. Present(target) /\ \A r \in RequestsOf(target) : requests[r].status \in RequestStatus
      BY <2>2, TypeParts DEF SeenInv, DbTypes, RequestRow, RequestsOf
    <3> QED
      BY <3>1 DEF Present
  <2>3. ASSUME seen.status \in {"completed", "failed"} PROVE Pending = {}
    BY <2>3 DEF SeenInv, Past, Settled, Absent, Final
  <2> HIDE DEF All, Pending
  <2> QED
    BY <2>1, <2>2, <2>3, FS_EmptySet
<1> QED
  BY <1>1, ReadersRefine, TypeInvariant, SeenInvariant, PTL
----------------------------------------------------------------------------
(* The portal's list                                                        *)

\* A batch the scheduler still means to ingest was not closed meanwhile, other
\* than by a cancellation.
ListOpen == \A b \in Batch : OnList(b) => batches[b].status \in {"queued", "cancelled"}

\* Only a client cancels.
NoneCancelled ==
    spent["cancel"] = 0 =>
        /\ \A h \in Handler : pc[h] \notin {"cancelRequests", "cancelSave"}
        /\ \A b \in Batch : batches[b].status # "cancelled"

LEMMA ListOpenStep == TypeInv /\ SafeInv /\ ListOpen /\ [Next]_vars => ListOpen'
<1> SUFFICES ASSUME TypeInv, SafeInv, ListOpen, [Next]_vars, NEW b \in Batch, OnList(b)'
             PROVE  batches'[b].status \in {"queued", "cancelled"}
  BY DEF ListOpen
<1>1. CASE ~OnList(b)
  BY <1>1, ListedBy
<1>2. CASE OnList(b)
  <2>1. batches[b].status \in {"queued", "cancelled"} /\ Absent(b)
    BY <1>2, ListedAbsent DEF ListOpen
  <2>2. ~(cur[Scheduler] = b /\ (SaveRejected \/ SaveIngested))
    BY ListedBy
  <2>3. ASSUME NEW a \in Finalizing, FinSave(a), cur[a] = b PROVE FALSE
    <3>1. CASE a \in Worker
      <4>1. /\ job[a] \in Request /\ cur[a] = BatchOf[job[a]] /\ requests[job[a]].status # "absent"
        BY <2>3, <3>1 DEF FinSave, At, TypeInv, WorkerHolds, SafeInv, IngestInv, JobsPresent, Busy
      <4> QED
        BY <2>1, <2>3, <4>1 DEF Absent, RequestsOf
    <3>2. CASE a = Scheduler
      <4>1. pc[Scheduler] = "finSave"
        BY <2>3, <3>2 DEF FinSave, At
      <4> QED
        BY <1>2, <2>3, <3>2, <4>1 DEF OnList, SafeInv, IngestInv, ListIsAbsent, FinalizerLabels
    <3> QED
      BY <3>1, <3>2 DEF Finalizing
  <2> QED
    BY <2>1, <2>2, <2>3, BatchMoves
<1> QED
  BY <1>1, <1>2

LEMMA NoneCancelledStep ==
    TypeInv /\ SafeInv /\ NoneCancelled /\ [Next]_vars => NoneCancelled'
<1> SUFFICES ASSUME TypeInv, SafeInv, NoneCancelled, [Next]_vars, spent'["cancel"] = 0
             PROVE  /\ \A h \in Handler : pc'[h] \notin {"cancelRequests", "cancelSave"}
                    /\ \A b \in Batch : batches'[b].status # "cancelled"
  BY DEF NoneCancelled
<1>1. /\ ~Spend("cancel")
      /\ \A h \in Handler : pc[h] \notin {"cancelRequests", "cancelSave"}
      /\ \A b \in Batch : batches[b].status # "cancelled"
  BY SpentBy DEF NoneCancelled, EventKind
<1>2. ASSUME NEW h \in Handler PROVE pc'[h] \notin {"cancelRequests", "cancelSave"}
  <2>1. h \in Actor /\ h \notin Worker /\ h # Scheduler /\ ProcTypes
    BY TypeParts, StoreAssumption DEF Actor
  <2>2. CASE Rests(h)
    BY <1>1, <2>2 DEF Rests
  <2>3. CASE RetrySave(h) \/ HangUp(h)
    BY <2>1, <2>3 DEF RetrySave, HangUp, Release, ProcTypes
  <2>4. CASE \E r \in Request : RetryLoad(h, r)
    BY <2>1, <2>4 DEF RetryLoad, ProcTypes
  <2>5. ~CancelRequests(h) /\ ~CancelSave(h) /\ \A b \in Batch : ~CancelLoad(h, b)
    BY <1>1 DEF CancelRequests, CancelSave, CancelLoad
  <2>6. Rests(h) \/ Acts(h)
    BY <2>1, OneActs
  <2> QED
    BY <2>1, <2>2, <2>3, <2>4, <2>5, <2>6 DEF Acts, HandlerStep
<1>3. ASSUME NEW b \in Batch PROVE batches'[b].status # "cancelled"
  <2>1. \A h \in Handler : ~CancelSave(h)
    BY <1>1 DEF CancelSave
  <2> QED
    BY <1>1, <2>1, BatchMoves
<1> QED
  BY <1>2, <1>3

THEOREM ListInvariant == Spec => [](ListOpen /\ NoneCancelled)
<1>1. Init => ListOpen /\ NoneCancelled
  BY StoreAssumption DEF Init, StoreInit, ListOpen, OnList, NoneCancelled, NoBatch, Actor
<1>2. TypeInv /\ SafeInv /\ ListOpen /\ NoneCancelled /\ [Next]_vars => ListOpen' /\ NoneCancelled'
  BY ListOpenStep, NoneCancelledStep
<1> QED
  BY <1>1, <1>2, TypeInvariant, SafetyInvariant, PTL DEF Spec

\* The batches in one of the statuses S that existed when the list was begun.
OldIn(S) == {b \in Batch : batches[b].status \in S /\ batches[b].at < shown[1]}

\* What the list has shown so far covers the old batches that are still queued,
\* or still open, since batches move the way the queries are ordered.
CountsInv ==
    /\ rpc # "list" => shown = <<>>
    /\ rpc = "list" =>
          shown \in Seq(Nat) /\ Len(shown) >= 1 /\ shown[1] <= Cardinality(Created)
    /\ rpc = "list" /\ spent["cancel"] = 0 =>
          /\ Len(shown) >= 2 => Cardinality(OldIn({"queued"})) <= shown[2]
          /\ Len(shown) >= 3 => Cardinality(OldIn({"queued", "running"})) <= shown[2] + shown[3]

LEMMA CreatedGrows ==
    ASSUME TypeInv, [Next]_vars
    PROVE  /\ Cardinality(Created) \in Nat /\ Cardinality(Created') \in Nat
           /\ Cardinality(Created) <= Cardinality(Created')
<1>1. Created \in SUBSET Batch /\ Created' \in SUBSET Batch
  BY DEF Created
<1>2. ASSUME NEW b \in Created PROVE b \in Created'
  BY BatchMoves DEF Created
<1> QED
  BY <1>1, <1>2, Subsets

\* No batch joins the old ones that are queued, nor those that are open.
LEMMA OldShrinks ==
    ASSUME TypeInv, SafeInv, ListOpen, NoneCancelled, [Next]_vars, spent'["cancel"] = 0,
           shown' = shown, shown[1] \in Nat, shown[1] <= Cardinality(Created),
           NEW S \in {{"queued"}, {"queued", "running"}}
    PROVE  /\ Cardinality(OldIn(S)) \in Nat /\ Cardinality(OldIn(S)') \in Nat
           /\ Cardinality(OldIn(S)') <= Cardinality(OldIn(S))
<1>1. OldIn(S) \in SUBSET Batch /\ OldIn(S)' \in SUBSET Batch
  BY DEF OldIn
<1>2. DbTypes /\ Cardinality(Created) \in Nat
  BY TypeParts, CreatedGrows
<1>3. /\ \A h \in Handler : ~CancelSave(h)
      /\ \A b \in Batch : batches[b].status # "cancelled"
  BY SpentBy DEF NoneCancelled, EventKind, CancelSave
<1>4. ASSUME NEW b \in Batch, batches'[b].status \in S, batches'[b].at < shown[1]
      PROVE  batches[b].status \in S /\ batches[b].at < shown[1]
  <2>1. ~CreateBatch(b)
    <3>1. ASSUME CreateBatch(b) PROVE batches'[b].at = Cardinality(Created)
      BY <1>2, <3>1 DEF CreateBatch, DbTypes, Created
    <3> QED
      BY <1>2, <1>4, <3>1
  <2>2. SaveIngested /\ cur[Scheduler] = b => batches[b].status = "queued"
    BY <1>3 DEF SaveIngested, At, ListOpen, OnList
  <2> QED
    BY <1>3, <1>4, <2>1, <2>2, BatchMoves
<1>5. OldIn(S)' \subseteq OldIn(S)
  BY <1>4 DEF OldIn
<1> QED
  BY <1>1, <1>5, Subsets

LEMMA CountsStep ==
    TypeInv /\ SafeInv /\ ListOpen /\ NoneCancelled /\ CountsInv /\ [ReadersNext]_allVars => CountsInv'
<1> SUFFICES ASSUME TypeInv, SafeInv, ListOpen, NoneCancelled, CountsInv, [ReadersNext]_allVars
             PROVE  CountsInv'
  OBVIOUS
<1>1. [Next]_vars /\ ((ReaderStep /\ UNCHANGED vars) \/ UNCHANGED readerVars)
  BY ReadersStep
<1>2. CASE UNCHANGED readerVars
  <2>1. rpc' = rpc /\ shown' = shown
    BY <1>2 DEF readerVars
  <2>2. CASE rpc # "list"
    BY <2>1, <2>2 DEF CountsInv
  <2>3. CASE rpc = "list"
    <3>1. shown \in Seq(Nat) /\ Len(shown) >= 1 /\ shown[1] \in Nat /\ shown[1] <= Cardinality(Created)
      BY <2>3 DEF CountsInv
    <3>2. shown[1] <= Cardinality(Created')
      BY <1>1, <3>1, CreatedGrows
    <3>3. ASSUME spent'["cancel"] = 0
          PROVE  /\ Len(shown) >= 2 => Cardinality(OldIn({"queued"})') <= shown[2]
                 /\ Len(shown) >= 3 =>
                       Cardinality(OldIn({"queued", "running"})') <= shown[2] + shown[3]
      <4>1. spent["cancel"] = 0
        BY <1>1, <3>3, SpentBy DEF EventKind
      <4>2. /\ Cardinality(OldIn({"queued"})) \in Nat /\ Cardinality(OldIn({"queued"})') \in Nat
            /\ Cardinality(OldIn({"queued"})') <= Cardinality(OldIn({"queued"}))
        BY <1>1, <2>1, <3>1, <3>3, OldShrinks
      <4>3. /\ Cardinality(OldIn({"queued", "running"})) \in Nat
            /\ Cardinality(OldIn({"queued", "running"})') \in Nat
            /\ Cardinality(OldIn({"queued", "running"})') <= Cardinality(OldIn({"queued", "running"}))
        BY <1>1, <2>1, <3>1, <3>3, OldShrinks
      <4>4. /\ Len(shown) >= 2 => Cardinality(OldIn({"queued"})) <= shown[2]
            /\ Len(shown) >= 3 =>
                  Cardinality(OldIn({"queued", "running"})) <= shown[2] + shown[3]
        BY <2>3, <4>1 DEF CountsInv
      <4> QED
        BY <3>1, <4>2, <4>3, <4>4
    <3> QED
      BY <2>1, <2>3, <3>1, <3>2, <3>3 DEF CountsInv
  <2> QED
    BY <2>2, <2>3
<1>3. CASE ReaderStep /\ UNCHANGED vars
  <2>1. UNCHANGED <<batches, spent>> /\ Created' = Created /\ Cardinality(Created) \in Nat
    BY <1>1, <1>3, CreatedGrows DEF vars, storeVars, Created
  <2>2. CASE ListAll
    <3>1. rpc' = "list" /\ shown' = <<Cardinality(Created)>>
      BY <2>2 DEF ListAll
    <3> QED
      BY <2>1, <3>1 DEF CountsInv
  <2>3. CASE ListStatus
    <3> DEFINE Now == {b \in Created : batches[b].status = StatusOrder[Len(shown)]}
    <3>1. /\ rpc = "list" /\ rpc' = "list" /\ shown' = Append(shown, Cardinality(Now))
          /\ shown \in Seq(Nat) /\ Len(shown) >= 1 /\ shown[1] <= Cardinality(Created)
      BY <2>3 DEF ListStatus, CountsInv
    <3>2. Cardinality(Now) \in Nat /\ Now \in SUBSET Batch
      BY Subsets DEF Created
    <3>3. /\ shown' \in Seq(Nat) /\ Len(shown') = Len(shown) + 1 /\ shown'[1] = shown[1]
          /\ \A i \in 1 .. Len(shown) : shown'[i] = shown[i]
          /\ shown'[Len(shown) + 1] = Cardinality(Now)
      BY <3>1, <3>2
    <3>4. \A S : OldIn(S)' = OldIn(S)
      BY <2>1, <3>3 DEF OldIn
    <3>5. ASSUME Len(shown) = 1 PROVE Cardinality(OldIn({"queued"})) <= Cardinality(Now)
      <4>1. OldIn({"queued"}) \in SUBSET Batch /\ OldIn({"queued"}) \subseteq Now
        BY <3>5 DEF OldIn, Created, StatusOrder
      <4> QED
        BY <3>2, <4>1, Subsets
    <3>6. ASSUME Len(shown) = 2
          PROVE  Cardinality(OldIn({"queued", "running"}))
                     <= Cardinality(OldIn({"queued"})) + Cardinality(Now)
      <4> DEFINE Old == OldIn({"queued"})
                 Pending == OldIn({"queued", "running"})
      <4>1. /\ Old \in SUBSET Batch /\ Pending \in SUBSET Batch /\ Pending \subseteq Old \cup Now
        BY <3>6 DEF OldIn, Created, StatusOrder
      <4> HIDE DEF Now, Old, Pending
      <4>2. /\ Cardinality(Old) \in Nat /\ Cardinality(Now) \in Nat
            /\ Cardinality(Pending) <= Cardinality(Old \cup Now) /\ Cardinality(Pending) \in Nat
            /\ IsFiniteSet(Old) /\ IsFiniteSet(Now)
        BY <3>2, <4>1, Subsets, StoreAssumption, FS_Subset
      <4>3. /\ Cardinality(Old \cup Now) = Cardinality(Old) + Cardinality(Now) - Cardinality(Old \cap Now)
            /\ Cardinality(Old \cap Now) \in Nat
        <5>1. Cardinality(Old \cup Now) = Cardinality(Old) + Cardinality(Now) - Cardinality(Old \cap Now)
          BY <4>2, FS_Union
        <5>2. Old \cap Now \in SUBSET Batch
          BY <4>1
        <5> QED
          BY <5>1, <5>2, Subsets
      <4>4. Cardinality(Pending) <= Cardinality(Old) + Cardinality(Now)
        BY <4>2, <4>3
      <4> QED
        BY <4>4 DEF Old, Pending
    <3>7. \A S : Cardinality(OldIn(S)) \in Nat
      BY Subsets DEF OldIn
    <3>8. /\ Len(shown) >= 2 => shown[2] \in Nat
          /\ Len(shown) >= 3 => shown[3] \in Nat
      BY <3>1
    <3> HIDE DEF Now
    <3>9. Len(shown) \in Nat /\ Len(shown) >= 1
      BY <3>1
    <3>10. ASSUME spent["cancel"] = 0
          PROVE  /\ Len(shown') >= 2 => Cardinality(OldIn({"queued"})) <= shown'[2]
                 /\ Len(shown') >= 3 =>
                       Cardinality(OldIn({"queued", "running"})) <= shown'[2] + shown'[3]
      <4>1. /\ Len(shown) >= 2 => Cardinality(OldIn({"queued"})) <= shown[2]
            /\ Len(shown) >= 3 =>
                  Cardinality(OldIn({"queued", "running"})) <= shown[2] + shown[3]
        BY <3>1, <3>10 DEF CountsInv
      <4>2. CASE Len(shown) = 1
        BY <3>3, <3>5, <4>2
      <4>3. CASE Len(shown) = 2
        <5>1. shown'[2] = shown[2] /\ shown'[3] = Cardinality(Now) /\ Len(shown') = 3
          BY <3>3, <4>3
        <5> QED
          BY <3>2, <3>6, <3>7, <3>8, <4>1, <4>3, <5>1
      <4>4. CASE Len(shown) >= 3
        <5>1. shown'[2] = shown[2] /\ shown'[3] = shown[3]
          BY <3>1, <3>3, <4>4
        <5> QED
          BY <4>1, <4>4, <5>1
      <4>5. Len(shown) = 1 \/ Len(shown) = 2 \/ Len(shown) >= 3
        <5>1. \A n \in Nat : n >= 1 => n = 1 \/ n = 2 \/ n >= 3
          OBVIOUS
        <5> QED
          BY <3>9, <5>1, Zenon
      <4> QED
        BY <4>2, <4>3, <4>4, <4>5
    <3>11. Len(shown') >= 1
      BY <3>3, <3>9
    <3> QED
      BY <2>1, <3>1, <3>3, <3>4, <3>10, <3>11 DEF CountsInv
  <2>4. CASE ListDone
    BY <2>4 DEF ListDone, CountsInv
  <2>5. CASE ReaderStep /\ ~(ListAll \/ ListStatus \/ ListDone)
    <3>1. rpc # "list" /\ rpc' # "list" /\ shown' = shown
      BY <2>5 DEF ReaderStep, StatusLoad, OutputLoad, ReadBatch, StatusAnswer, OutputAnswer, Answer, MetricsCount,
                  MetricsSet, MetricsFail
    <3> QED
      BY <3>1 DEF CountsInv
  <2> QED
    BY <1>3, <2>2, <2>3, <2>4, <2>5
<1> QED
  BY <1>1, <1>2, <1>3

THEOREM CountsInvariant == ReadersSpec => []CountsInv
<1>1. ReadersInit => CountsInv
  BY DEF ReadersInit, ReaderInit, CountsInv
<1>2. TypeInv /\ SafeInv /\ ListOpen /\ NoneCancelled /\ CountsInv /\ [ReadersNext]_allVars => CountsInv'
  BY CountsStep
<1> QED
  BY <1>1, <1>2, ReadersRefine, TypeInvariant, SafetyInvariant, ListInvariant, PTL DEF ReadersSpec, allVars

\* No batch that is still open when the last count is taken is missing from the
\* portal's counts of queued and running batches, as long as nobody cancels one.
THEOREM OpenListed == ReadersSpec /\ [](spent["cancel"] = 0) => []ListShowsOpen
<1>1. CountsInv /\ spent["cancel"] = 0 => ListShowsOpen
  <2> SUFFICES ASSUME CountsInv, spent["cancel"] = 0, Len(shown) > Len(StatusOrder)
               PROVE  Cardinality({b \in Created : /\ batches[b].at < shown[1]
                                                   /\ batches[b].status \in {"queued", "running"}})
                          <= shown[2] + shown[3]
    BY DEF ListShowsOpen
  <2>1. Len(StatusOrder) = 5
    BY DEF StatusOrder
  <2>2. Len(<<>>) = 0
    OBVIOUS
  <2>3. rpc = "list" /\ Len(shown) \in Nat /\ Len(shown) >= 3
    BY <2>1, <2>2 DEF CountsInv
  <2>4. {b \in Created : batches[b].at < shown[1] /\ batches[b].status \in {"queued", "running"}}
            = OldIn({"queued", "running"})
    BY DEF OldIn, Created
  <2> QED
    BY <2>3, <2>4 DEF CountsInv
<1> QED
  BY <1>1, CountsInvariant, PTL
=============================================================================
