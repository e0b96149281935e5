------------------------- MODULE BatchTypes_proofs -------------------------
(***************************************************************************)
(* Type correctness of the batch system, with what every process holds at  *)
(* its control points: Spec => []TypeOK for all pods, batches and budgets. *)
(***************************************************************************)
EXTENDS BatchInvariants, FiniteSetTheorems, TLAPS

\* The parts of the type invariant.
DbTypes ==
    /\ batches \in [Batch -> BatchRow]
    /\ requests \in [Request -> RequestRow]
    /\ inputs \in [Batch -> {"none", "onDisk", "registered", "lost"}]
    /\ outRows \in [Batch -> Nat]
    /\ disk \in [Batch -> OutputFile]
    /\ due \in [Batch -> BOOLEAN]
    /\ spent \in [EventKind -> Nat]

ProcTypes ==
    /\ pc \in [Actor -> Labels]
    /\ cur \in [Actor -> Batch \cup {None}]
    /\ job \in [Actor -> Request \cup {None}]
    /\ bctx \in [Actor -> [Batch -> BatchRow \cup {None}]]
    /\ rctx \in [Actor -> [Request -> RequestRow \cup {None}]]

\* What concerns process a alone.
Own(a) ==
    /\ a \in Worker => pc[a] \in WorkerLabels /\ WorkerHolds(a)
    /\ a = Scheduler => pc[a] \in SchedulerLabels /\ SchedulerHolds
    /\ a \in Handler => pc[a] \in HandlerLabels /\ HandlerHolds(a)

\* A step of process a leaves the others where they are.
OnlyMoves(a) ==
    /\ \A x \in Actor \ {a} :
          /\ pc'[x] = pc[x] /\ cur'[x] = cur[x] /\ job'[x] = job[x]
          /\ bctx'[x] = bctx[x] /\ rctx'[x] = rctx[x]
    /\ a # Scheduler => todo' = todo

\* Saving a row over another one gives a row.
LEMMA MergeTypes ==
    /\ \A row, old, new \in BatchRow : MergeBatch(row, old, new) \in BatchRow
    /\ \A row, old, new \in RequestRow : MergeRequest(row, old, new) \in RequestRow
BY DEF MergeBatch, MergeRequest, Column, BatchRow, RequestRow

\* What an update of one entry of a function, or none at all, does.
LEMMA UpdateTypes ==
    ASSUME NEW S, NEW T, NEW f \in [S -> T], NEW a \in S, NEW v \in T, NEW g,
           g = [f EXCEPT ![a] = v] \/ (v = f[a] /\ g = f)
    PROVE  g \in [S -> T] /\ g[a] = v /\ \A x \in S \ {a} : g[x] = f[x]
OBVIOUS

LEMMA InitialTypes == Init => TypeInv
<1> SUFFICES ASSUME Init PROVE TypeInv
  OBVIOUS
<1> USE StoreAssumption, RowAssumption DEF Init, StoreInit, FinalizerInit, SchedulerInit
<1>1. NoBatch \in BatchRow /\ NoRequest \in RequestRow
  BY DEF NoBatch, NoRequest, BatchRow, RequestRow, Pools, Spot, Dedicated, BatchStatus, RequestStatus
<1>2. StoreTypeOK
  BY <1>1 DEF StoreTypeOK, OutputFile, NoLines, NoBatchesTracked, NoRequestsTracked,
              WorkerLabels, SchedulerLabels, HandlerLabels
<1>3. FinalizerTypeOK /\ SchedulerTypeOK
  BY DEF FinalizerTypeOK, SchedulerTypeOK, NoLines, Pools
<1>4. /\ \A w \in Worker : pc[w] \in WorkerLabels
      /\ pc[Scheduler] \in SchedulerLabels
      /\ \A h \in Handler : pc[h] \in HandlerLabels
  BY DEF Actor, WorkerLabels, SchedulerLabels, HandlerLabels
<1>5. /\ \A w \in Worker : WorkerHolds(w)
      /\ SchedulerHolds
      /\ \A h \in Handler : HandlerHolds(h)
  BY DEF Actor, WorkerHolds, Busy, SchedulerHolds, HandlerHolds, FinalizerLabels
<1> QED
  BY <1>2, <1>3, <1>4, <1>5 DEF TypeInv, TypeOK

LEMMA TypeParts ==
    TypeInv <=> /\ DbTypes /\ ProcTypes /\ FinalizerTypeOK /\ SchedulerTypeOK
                /\ \A a \in Actor : Own(a)
BY StoreAssumption DEF TypeInv, TypeOK, StoreTypeOK, DbTypes, ProcTypes, Own, Actor, Labels

\* How the type invariant is preserved: by parts, process by process.
LEMMA StepTypes ==
    ASSUME TypeInv, NEW a \in Actor, DbTypes', ProcTypes', FinalizerTypeOK', SchedulerTypeOK',
           OnlyMoves(a), Own(a)'
    PROVE  TypeInv'
<1>1. ASSUME NEW x \in Actor \ {a} PROVE Own(x)'
  <2>1. Own(x)
    BY <1>1, TypeParts
  <2>2. CASE x \in Worker
    BY <2>1, <2>2, <1>1, StoreAssumption DEF Own, OnlyMoves, WorkerHolds, Busy
  <2>3. CASE x = Scheduler
    BY <2>1, <2>3, <1>1, StoreAssumption DEF Own, OnlyMoves, SchedulerHolds
  <2>4. CASE x \in Handler
    BY <2>1, <2>4, <1>1, StoreAssumption DEF Own, OnlyMoves, HandlerHolds
  <2> QED
    BY <2>2, <2>3, <2>4 DEF Actor
<1>2. \A x \in Actor : Own(x)'
  BY <1>1
<1>3. TypeInv' <=> /\ DbTypes' /\ ProcTypes' /\ FinalizerTypeOK' /\ SchedulerTypeOK'
                   /\ \A x \in Actor : Own(x)'
  BY StoreAssumption DEF TypeInv, TypeOK, StoreTypeOK, DbTypes, ProcTypes, Own, Actor, Labels
<1> QED
  BY <1>2, <1>3

\* An idle or stopped process holds nothing it needs.
LEMMA ReleaseTypes ==
    ASSUME ProcTypes, NEW a \in Actor, NEW l \in {"idle", "down"}, l = "down" => a \in Worker,
           Release(a, l), a # Scheduler => todo' = todo
    PROVE  ProcTypes' /\ OnlyMoves(a) /\ Own(a)'
<1>1. ProcTypes' /\ OnlyMoves(a) /\ pc'[a] = l
  BY DEF ProcTypes, OnlyMoves, Release, NoBatchesTracked, NoRequestsTracked,
         Labels, WorkerLabels
<1>2. Own(a)'
  BY <1>1, StoreAssumption
     DEF Own, WorkerHolds, Busy, SchedulerHolds, HandlerHolds,
         WorkerLabels, SchedulerLabels, HandlerLabels, FinalizerLabels
<1> QED
  BY <1>1, <1>2

LEMMA ReturnTypes ==
    ASSUME TypeInv, NEW a \in Finalizing, Return(a), UNCHANGED todo,
           a = Scheduler => pc[a] \notin {"idle", "escSave"}
    PROVE  ProcTypes' /\ FinalizerTypeOK' /\ OnlyMoves(a) /\ Own(a)'
<1>1. a \in Actor
  BY DEF Finalizing, Actor
<1>2. ProcTypes /\ FinalizerTypeOK /\ Own(a)
  BY <1>1, TypeParts
<1>3. FinalizerTypeOK'
  BY <1>2 DEF Return, FinalizerTypeOK, NoLines
<1>4. CASE a = Scheduler
  <2>1. /\ pc' = [pc EXCEPT ![a] = "next"] /\ cur' = [cur EXCEPT ![a] = None]
        /\ rctx' = [rctx EXCEPT ![a] = NoRequestsTracked] /\ UNCHANGED <<bctx, job>>
    BY <1>4 DEF Return
  <2>2. "next" \in Labels /\ NoRequestsTracked \in [Request -> RequestRow \cup {None}]
    BY DEF Labels, SchedulerLabels, NoRequestsTracked
  <2>3. ProcTypes' /\ OnlyMoves(a) /\ pc'[a] = "next" /\ bctx'[a] = bctx[a]
    BY <1>1, <1>2, <2>1, <2>2 DEF ProcTypes, OnlyMoves
  <2>4. Own(a)'
    BY <1>2, <1>4, <2>3, StoreAssumption DEF Own, SchedulerHolds, SchedulerLabels, FinalizerLabels
  <2> QED
    BY <1>3, <2>3, <2>4
<1>5. CASE a # Scheduler
  <2>1. Release(a, "idle")
    BY <1>5 DEF Return
  <2> QED
    BY <1>1, <1>2, <1>3, <1>5, <2>1, ReleaseTypes
<1> QED
  BY <1>4, <1>5

LEMMA ThrowTypes ==
    ASSUME TypeInv, NEW a \in Finalizing, Throw(a), UNCHANGED todo,
           a \in Worker => Busy(a)
    PROVE  ProcTypes' /\ FinalizerTypeOK' /\ OnlyMoves(a) /\ Own(a)'
<1>1. a \in Actor
  BY DEF Finalizing, Actor
<1>2. ProcTypes /\ FinalizerTypeOK /\ Own(a)
  BY <1>1, TypeParts
<1>3. FinalizerTypeOK'
  BY <1>2 DEF Throw, FinalizerTypeOK, NoLines
<1>4. CASE a \in Worker /\ err[a] = "none"
  <2>1. /\ pc' = [pc EXCEPT ![a] = "mfLoad"]
        /\ bctx' = [bctx EXCEPT ![a] = NoBatchesTracked]
        /\ rctx' = [rctx EXCEPT ![a] = NoRequestsTracked] /\ UNCHANGED <<cur, job>>
    BY <1>4 DEF Throw
  <2>2. /\ "mfLoad" \in Labels
        /\ NoBatchesTracked \in [Batch -> BatchRow \cup {None}]
        /\ NoRequestsTracked \in [Request -> RequestRow \cup {None}]
    BY DEF Labels, WorkerLabels, NoBatchesTracked, NoRequestsTracked
  <2>3. ProcTypes' /\ OnlyMoves(a) /\ pc'[a] = "mfLoad"
    BY <1>1, <1>2, <2>1, <2>2 DEF ProcTypes, OnlyMoves
  <2>4. Own(a)'
    BY <1>2, <1>4, <2>1, <2>3, StoreAssumption
       DEF Own, WorkerHolds, Busy, WorkerLabels, FinalizerLabels
  <2> QED
    BY <1>3, <2>3, <2>4
<1>5. CASE ~(a \in Worker /\ err[a] = "none")
  <2>1. CASE a = Scheduler
    <3>1. Release(a, "idle")
      BY <1>5, <2>1 DEF Throw
    <3> QED
      BY <1>1, <1>2, <1>3, <2>1, <3>1, StoreAssumption, ReleaseTypes
  <2>2. CASE a \in Worker
    <3>1. Release(a, "down")
      BY <1>5, <2>2, StoreAssumption DEF Throw
    <3> QED
      BY <1>1, <1>2, <1>3, <2>2, <3>1, StoreAssumption, ReleaseTypes
  <2> QED
    BY <2>1, <2>2 DEF Finalizing
<1> QED
  BY <1>4, <1>5

----------------------------------------------------------------------------
(* Finalization *)

LEMMA FinTypes ==
    ASSUME TypeInv, NEW a \in Finalizing, FinStep(a), UNCHANGED schedVars
    PROVE  TypeInv'
<1> USE StoreAssumption DEF schedVars, finVars, dbVars
<1>1. a \in Actor /\ (a \in Worker \/ a = Scheduler) /\ a \notin Handler
  BY DEF Finalizing, Actor
<1>2. /\ DbTypes /\ ProcTypes /\ FinalizerTypeOK /\ SchedulerTypeOK /\ Own(a)
      /\ SchedulerTypeOK'
  BY <1>1, TypeParts DEF SchedulerTypeOK
<1>3. ASSUME pc[a] \in FinalizerLabels
      PROVE  cur[a] \in Batch /\ (pc[a] # "finLoad" => bctx[a][cur[a]] \in BatchRow)
  BY <1>1, <1>2, <1>3
     DEF Own, WorkerHolds, Busy, SchedulerHolds, ProcTypes, FinalizerLabels
<1>4. ASSUME NEW l \in FinalizerLabels, pc' = [pc EXCEPT ![a] = l], pc[a] \in FinalizerLabels,
             UNCHANGED <<cur, job, rctx>>,
             \/ bctx' = bctx /\ pc[a] # "finLoad"
             \/ bctx' = [bctx EXCEPT ![a][cur[a]] = BatchSeenBy(a, cur[a])]
      PROVE  ProcTypes' /\ OnlyMoves(a) /\ Own(a)'
  <2>1. BatchSeenBy(a, cur[a]) \in BatchRow
    BY <1>1, <1>2, <1>3, <1>4 DEF BatchSeenBy, DbTypes, ProcTypes
  <2>2. /\ bctx' \in [Actor -> [Batch -> BatchRow \cup {None}]]
        /\ bctx'[a][cur[a]] # None
        /\ \A b \in Batch : bctx[a][b] # None => bctx'[a][b] # None
        /\ \A x \in Actor \ {a} : bctx'[x] = bctx[x]
    <3>1. CASE bctx' = bctx /\ pc[a] # "finLoad"
      BY <1>2, <1>3, <1>4, <3>1, RowAssumption DEF ProcTypes
    <3>2. CASE bctx' = [bctx EXCEPT ![a][cur[a]] = BatchSeenBy(a, cur[a])]
      BY <1>1, <1>2, <1>3, <1>4, <2>1, <3>2, RowAssumption DEF ProcTypes
    <3> QED
      BY <1>4, <3>1, <3>2
  <2>3. ProcTypes' /\ OnlyMoves(a) /\ pc'[a] = l
    BY <1>1, <1>2, <1>4, <2>2 DEF ProcTypes, OnlyMoves, Labels, WorkerLabels
  <2>4. Own(a)'
    BY <1>1, <1>2, <1>3, <1>4, <2>2, <2>3
       DEF Own, WorkerHolds, SchedulerHolds, Busy, WorkerLabels, SchedulerLabels, FinalizerLabels,
           SchedulerTypeOK
  <2> QED
    BY <2>3, <2>4
<1>5. CASE FinLoad(a)
  <2>1. CASE Return(a)
    BY <1>1, <1>2, <1>5, <2>1, ReturnTypes, StepTypes DEF FinLoad, At, DbTypes
  <2>2. CASE ~Return(a)
    BY <1>1, <1>2, <1>4, <1>5, <2>2, StepTypes DEF FinLoad, At, DbTypes, FinalizerTypeOK, FinalizerLabels
  <2> QED
    BY <2>1, <2>2
<1>6. CASE FinCount(a)
  <2>1. CASE Return(a)
    BY <1>1, <1>2, <1>6, <2>1, ReturnTypes, StepTypes DEF FinCount, At, DbTypes
  <2>2. CASE ~Return(a)
    BY <1>1, <1>2, <1>4, <1>6, <2>2, StepTypes DEF FinCount, At, DbTypes, FinalizerTypeOK, FinalizerLabels
  <2> QED
    BY <2>1, <2>2
<1>7. CASE FinFailed(a)
  BY <1>1, <1>2, <1>4, <1>7, StepTypes DEF FinFailed, At, DbTypes, FinalizerTypeOK, FinalizerLabels
<1>8. CASE FinRead(a)
  <2>1. \A r \in Request : Line(RequestSeenBy(a, r)) \in Lines
    BY <1>1, <1>2 DEF Line, RequestSeenBy, Lines, DbTypes, ProcTypes, RequestRow
  <2>2. FinalizerTypeOK'
    BY <1>2, <1>8, <2>1 DEF FinRead, FinalizerTypeOK
  <2> QED
    BY <1>1, <1>2, <1>4, <1>8, <2>2, StepTypes DEF FinRead, At, DbTypes, FinalizerLabels
<1>9. CASE FinOpen(a)
  <2>1. DbTypes'
    BY <1>2, <1>3, <1>9 DEF FinOpen, At, DbTypes, OutputFile, NoLines, FinalizerLabels
  <2> QED
    BY <1>1, <1>2, <1>4, <1>9, <2>1, StepTypes DEF FinOpen, At, FinalizerTypeOK, FinalizerLabels
<1>10. CASE FinOpenFails(a)
  BY <1>1, <1>2, <1>10, ThrowTypes, StepTypes DEF FinOpenFails, At, DbTypes, Busy
<1>11. CASE FinWrite(a)
  <2>1. DbTypes'
    BY <1>2, <1>3, <1>11 DEF FinWrite, At, DbTypes, OutputFile, Written, FinalizerTypeOK, FinalizerLabels
  <2> QED
    BY <1>1, <1>2, <1>4, <1>11, <2>1, StepTypes DEF FinWrite, At, FinalizerTypeOK, FinalizerLabels
<1>12. CASE FinSave(a)
  <2>1. bctx[a][cur[a]] \in BatchRow /\ cur[a] \in Batch
    BY <1>3, <1>12 DEF FinSave, At, FinalizerLabels
  <2>2. FinalBatch(a) \in BatchRow
    <3>1. outRows[cur[a]] + 1 \in Nat
      BY <1>2, <2>1 DEF DbTypes
    <3> QED
      BY <2>1, <3>1 DEF FinalBatch, BatchRow, BatchStatus
  <2>3. DbTypes'
    BY <1>2, <1>12, <2>1, <2>2, MergeTypes DEF FinSave, DbTypes
  <2> QED
    BY <1>1, <1>2, <1>12, <2>3, ReturnTypes, StepTypes DEF FinSave, At
<1> QED
  BY <1>5, <1>6, <1>7, <1>8, <1>9, <1>10, <1>11, <1>12 DEF FinStep

----------------------------------------------------------------------------
(* Worker pods *)

LEMMA WorkerTypes ==
    ASSUME TypeInv, NEW w \in Worker,
           WorkerStep(w) \/ WorkerFault(w) \/ WorkerCrash(w), UNCHANGED schedVars
    PROVE  TypeInv'
<1> USE StoreAssumption DEF schedVars, finVars, dbVars
<1>1. w \in Actor /\ w \in Finalizing /\ w \notin Handler /\ w # Scheduler
  BY DEF Finalizing, Actor
<1>2. /\ DbTypes /\ ProcTypes /\ FinalizerTypeOK /\ SchedulerTypeOK /\ Own(w) /\ WorkerHolds(w)
      /\ SchedulerTypeOK'
  BY <1>1, TypeParts DEF SchedulerTypeOK, Own
<1>3. ASSUME Busy(w) PROVE job[w] \in Request /\ requests[job[w]] \in RequestRow
  BY <1>2, <1>3 DEF WorkerHolds, DbTypes
<1>4. ASSUME NEW l \in WorkerLabels \ ({"mcSave", "mfSave"} \cup (FinalizerLabels \ {"finLoad"})),
             pc' = [pc EXCEPT ![w] = l], Busy(w) \/ l = "idle",
             UNCHANGED <<cur, job, bctx>>,
             rctx' \in [Actor -> [Request -> RequestRow \cup {None}]],
             \A x \in Actor \ {w} : rctx'[x] = rctx[x]
      PROVE  ProcTypes' /\ OnlyMoves(w) /\ Own(w)'
  <2>1. ProcTypes' /\ OnlyMoves(w) /\ pc'[w] = l
    BY <1>1, <1>2, <1>4 DEF ProcTypes, OnlyMoves, Labels
  <2> QED
    BY <1>1, <1>2, <1>4, <2>1 DEF Own, WorkerHolds, Busy, WorkerLabels, FinalizerLabels
<1>5. ASSUME NEW new \in RequestRow, rctx[w][job[w]] \in RequestRow, Busy(w), SaveJob(w, new)
      PROVE  requests' \in [Request -> RequestRow]
  BY <1>2, <1>3, <1>5, MergeTypes DEF SaveJob, DbTypes
<1>6. ASSUME NEW new \in RequestRow, Busy(w), rctx' = [rctx EXCEPT ![w][job[w]] = new]
      PROVE  /\ rctx' \in [Actor -> [Request -> RequestRow \cup {None}]]
             /\ \A x \in Actor \ {w} : rctx'[x] = rctx[x]
             /\ rctx'[w][job[w]] # None
  BY <1>1, <1>2, <1>3, <1>6, RowAssumption DEF ProcTypes
<1>7. ASSUME pc[w] \in {"mcSave", "mfSave"} PROVE rctx[w][job[w]] \in RequestRow /\ Busy(w)
  BY <1>1, <1>2, <1>3, <1>7 DEF WorkerHolds, ProcTypes, Busy
<1>8. CASE DequeueSelect(w)
  <2>1. PICK r \in Request : job' = [job EXCEPT ![w] = r] /\ cur' = [cur EXCEPT ![w] = BatchOf[r]]
    BY <1>8 DEF DequeueSelect, Candidates
  <2>2. ProcTypes' /\ OnlyMoves(w) /\ pc'[w] = "locked" /\ job'[w] = r /\ cur'[w] = BatchOf[r]
    BY <1>1, <1>2, <1>8, <2>1 DEF DequeueSelect, ProcTypes, OnlyMoves, Labels, WorkerLabels
  <2>3. Own(w)'
    BY <1>1, <2>2 DEF Own, WorkerHolds, WorkerLabels, FinalizerLabels
  <2> QED
    BY <1>1, <1>2, <1>8, <2>2, <2>3, StepTypes DEF DequeueSelect, DbTypes, FinalizerTypeOK
<1>9. CASE DequeueCommit(w)
  BY <1>1, <1>2, <1>4, <1>9, StepTypes
     DEF DequeueCommit, At, Busy, DbTypes, FinalizerTypeOK, ProcTypes, WorkerLabels, FinalizerLabels
<1>10. CASE MarkRunning(w)
  <2>1. DbTypes'
    BY <1>2, <1>3, <1>10
       DEF MarkRunning, At, Busy, DbTypes, RequestRow, RequestStatus, WorkerIds
  <2> QED
    BY <1>1, <1>2, <1>4, <1>10, <2>1, StepTypes
       DEF MarkRunning, At, Busy, FinalizerTypeOK, ProcTypes, WorkerLabels, FinalizerLabels
<1>11. CASE MarkRunningLost(w)
  <2>1. ProcTypes' /\ OnlyMoves(w) /\ Own(w)'
    BY <1>1, <1>2, <1>11, ReleaseTypes DEF MarkRunningLost
  <2> QED
    BY <1>1, <1>2, <1>11, <2>1, StepTypes DEF MarkRunningLost, DbTypes, FinalizerTypeOK
<1>12. CASE Process(w)
  BY <1>1, <1>2, <1>4, <1>12, StepTypes
     DEF Process, At, Busy, DbTypes, FinalizerTypeOK, ProcTypes, WorkerLabels, FinalizerLabels
<1>13. CASE SpotInterruption(w)
  <2>1. FinalizerTypeOK'
    BY <1>1, <1>2, <1>13 DEF SpotInterruption, FinalizerTypeOK
  <2> QED
    BY <1>1, <1>2, <1>4, <1>13, <2>1, StepTypes
       DEF SpotInterruption, At, Busy, DbTypes, ProcTypes, WorkerLabels, FinalizerLabels
<1>14. ASSUME NEW from \in {"mcLoad", "mfLoad"}, NEW to \in {"mcSave", "mfSave"}, LoadJob(w, from, to)
       PROVE  TypeInv'
  <2>1. Busy(w)
    BY <1>14 DEF LoadJob, At, Busy
  <2>2. /\ rctx' \in [Actor -> [Request -> RequestRow \cup {None}]]
        /\ \A x \in Actor \ {w} : rctx'[x] = rctx[x]
        /\ rctx'[w][job[w]] # None
    BY <1>3, <1>6, <1>14, <2>1 DEF LoadJob
  <2>3. ProcTypes' /\ OnlyMoves(w) /\ pc'[w] = to
    BY <1>1, <1>2, <1>14, <2>2 DEF LoadJob, ProcTypes, OnlyMoves, Labels, WorkerLabels
  <2>4. Own(w)'
    BY <1>1, <1>2, <1>14, <2>1, <2>2, <2>3 DEF LoadJob, Own, WorkerHolds, Busy, WorkerLabels, FinalizerLabels
  <2> QED
    BY <1>1, <1>2, <1>14, <2>3, <2>4, StepTypes DEF LoadJob, DbTypes, FinalizerTypeOK
<1>15. CASE MarkCompletedLoad(w) \/ MarkFailedLoad(w)
  BY <1>14, <1>15 DEF MarkCompletedLoad, MarkFailedLoad
<1>16. ASSUME NEW new \in RequestRow, pc[w] \in {"mcSave", "mfSave"}, SaveJob(w, new),
              rctx' = [rctx EXCEPT ![w][job[w]] = new], pc' = [pc EXCEPT ![w] = "finLoad"],
              UNCHANGED <<batches, outRows, inputs, disk, due, spent, cur, job, bctx, finVars>>
       PROVE  TypeInv'
  <2>1. DbTypes'
    BY <1>2, <1>5, <1>7, <1>16 DEF DbTypes
  <2>2. ProcTypes' /\ OnlyMoves(w) /\ Own(w)'
    BY <1>4, <1>6, <1>7, <1>16 DEF WorkerLabels, FinalizerLabels
  <2> QED
    BY <1>1, <1>2, <1>16, <2>1, <2>2, StepTypes DEF FinalizerTypeOK
<1>17. CASE MarkCompletedSave(w)
  <2>1. CompletedRow(rctx[w][job[w]], job[w]) \in RequestRow
    BY <1>3, <1>7, <1>17 DEF MarkCompletedSave, At, CompletedRow, RequestRow, RequestStatus
  <2> QED
    BY <1>16, <1>17, <2>1 DEF MarkCompletedSave, At
<1>18. CASE MarkFailedSave(w)
  <2>1. FailedRow(rctx[w][job[w]]) \in RequestRow
    BY <1>7, <1>18 DEF MarkFailedSave, At, FailedRow, RequestRow, RequestStatus
  <2> QED
    BY <1>16, <1>18, <2>1 DEF MarkFailedSave, At
<1>19. CASE MarkFailedRequeue(w)
  <2>1. RequeuedRow(rctx[w][job[w]]) \in RequestRow
    BY <1>7, <1>19 DEF MarkFailedRequeue, At, RequeuedRow, RequestRow, RequestStatus, Pools
  <2>2. DbTypes'
    BY <1>2, <1>5, <1>7, <1>19, <2>1 DEF MarkFailedRequeue, At, DbTypes
  <2> QED
    BY <1>1, <1>2, <1>19, <2>2, ReturnTypes, StepTypes DEF MarkFailedRequeue
<1>20. CASE WorkerFault(w)
  <2>1. Busy(w)
    BY <1>20 DEF WorkerFault, Busy, FinalizerLabels
  <2>2. DbTypes'
    BY <1>2, <1>20 DEF WorkerFault, Spend, EventKind, DbTypes
  <2> QED
    BY <1>1, <1>2, <1>20, <2>1, <2>2, ThrowTypes, StepTypes DEF WorkerFault
<1>21. CASE WorkerCrash(w)
  <2>1. DbTypes' /\ FinalizerTypeOK'
    BY <1>1, <1>2, <1>21 DEF WorkerCrash, Spend, EventKind, DbTypes, FinalizerTypeOK, NoLines
  <2>2. ProcTypes' /\ OnlyMoves(w) /\ Own(w)'
    BY <1>1, <1>2, <1>21, ReleaseTypes DEF WorkerCrash
  <2> QED
    BY <1>1, <1>2, <1>21, <2>1, <2>2, StepTypes
<1>22. CASE WorkerRestart(w)
  BY <1>1, <1>2, <1>4, <1>22, StepTypes
     DEF WorkerRestart, DbTypes, FinalizerTypeOK, ProcTypes, WorkerLabels, FinalizerLabels
<1> QED
  BY <1>1, <1>8, <1>9, <1>10, <1>11, <1>12, <1>13, <1>15, <1>17, <1>18, <1>19, <1>20, <1>21, <1>22,
     FinTypes DEF WorkerStep

----------------------------------------------------------------------------
(* The scheduler pod *)

LEMMA SchedulerTypes ==
    ASSUME TypeInv, SchedulerStep \/ SchedulerAbort PROVE TypeInv'
<1> USE StoreAssumption DEF schedVars, finVars, dbVars
<1>1. Scheduler \in Actor /\ Scheduler \in Finalizing /\ Scheduler \notin Worker \cup Handler
  BY DEF Finalizing, Actor
<1>2. DbTypes /\ ProcTypes /\ FinalizerTypeOK /\ SchedulerTypeOK /\ Own(Scheduler) /\ SchedulerHolds
  BY <1>1, TypeParts DEF Own
<1>3. ASSUME ProcTypes', pc'[Scheduler] \in SchedulerLabels, SchedulerHolds' PROVE Own(Scheduler)'
  BY <1>1, <1>3 DEF Own
<1>5. ASSUME NEW B, NEW R, B \in [Batch -> BatchRow \cup {None}], R \in [Request -> RequestRow \cup {None}],
             NEW l \in SchedulerLabels,
             bctx' = [bctx EXCEPT ![Scheduler] = B] \/ (B = bctx[Scheduler] /\ bctx' = bctx),
             rctx' = [rctx EXCEPT ![Scheduler] = R] \/ (R = rctx[Scheduler] /\ rctx' = rctx),
             pc' = [pc EXCEPT ![Scheduler] = l] \/ (l = pc[Scheduler] /\ pc' = pc),
             UNCHANGED <<cur, job>>
      PROVE  /\ ProcTypes' /\ OnlyMoves(Scheduler)
             /\ pc'[Scheduler] = l /\ bctx'[Scheduler] = B /\ rctx'[Scheduler] = R
  <2>1. /\ bctx' \in [Actor -> [Batch -> BatchRow \cup {None}]] /\ bctx'[Scheduler] = B
        /\ \A x \in Actor \ {Scheduler} : bctx'[x] = bctx[x]
    <3>1. bctx \in [Actor -> [Batch -> BatchRow \cup {None}]]
      BY <1>2 DEF ProcTypes
    <3>2. CASE bctx' = [bctx EXCEPT ![Scheduler] = B]
      BY <1>1, <1>5, <3>1, <3>2
    <3>3. CASE B = bctx[Scheduler] /\ bctx' = bctx
      BY <1>1, <1>5, <3>1, <3>3
    <3> QED
      BY <1>5, <3>2, <3>3
  <2>2. /\ rctx' \in [Actor -> [Request -> RequestRow \cup {None}]] /\ rctx'[Scheduler] = R
        /\ \A x \in Actor \ {Scheduler} : rctx'[x] = rctx[x]
    <3>1. rctx \in [Actor -> [Request -> RequestRow \cup {None}]]
      BY <1>2 DEF ProcTypes
    <3>2. CASE rctx' = [rctx EXCEPT ![Scheduler] = R]
      BY <1>1, <1>5, <3>1, <3>2
    <3>3. CASE R = rctx[Scheduler] /\ rctx' = rctx
      BY <1>1, <1>5, <3>1, <3>3
    <3> QED
      BY <1>5, <3>2, <3>3
  <2>3. /\ pc' \in [Actor -> Labels] /\ pc'[Scheduler] = l
        /\ \A x \in Actor \ {Scheduler} : pc'[x] = pc[x]
    <3>1. l \in Labels
      BY <1>5 DEF Labels
    <3> QED
      BY <1>1, <1>2, <1>5, <3>1, UpdateTypes DEF ProcTypes
  <2> QED
    BY <1>1, <1>2, <1>5, <2>1, <2>2, <2>3 DEF ProcTypes, OnlyMoves
<1>6. CASE LoadQueued
  <2>1. PICK T \in SUBSET Batch :
           /\ todo' = T
           /\ bctx' = [bctx EXCEPT ![Scheduler] = [b \in Batch |-> IF b \in T THEN batches[b] ELSE None]]
    BY <1>6 DEF LoadQueued
  <2> DEFINE B == [b \in Batch |-> IF b \in T THEN batches[b] ELSE None]
  <2>2. B \in [Batch -> BatchRow \cup {None}] /\ \A b \in T : B[b] # None
    BY <1>2, RowAssumption DEF DbTypes
  <2>3. rctx[Scheduler] \in [Request -> RequestRow \cup {None}] /\ "next" \in SchedulerLabels
    BY <1>1, <1>2 DEF ProcTypes, SchedulerLabels
  <2> HIDE DEF B
  <2>4. ProcTypes' /\ OnlyMoves(Scheduler) /\ pc'[Scheduler] = "next" /\ bctx'[Scheduler] = B
    BY <1>5, <1>6, <2>1, <2>2, <2>3 DEF LoadQueued, B
  <2>5. SchedulerHolds'
    BY <2>1, <2>2, <2>4 DEF SchedulerHolds, FinalizerLabels
  <2>6. SchedulerTypeOK'
    BY <1>2, <1>6, <2>1 DEF LoadQueued, SchedulerTypeOK
  <2> QED
    BY <1>1, <1>2, <1>3, <1>6, <2>3, <2>4, <2>5, <2>6, StepTypes DEF LoadQueued, DbTypes, FinalizerTypeOK
<1>7. CASE NextBatch
  <2>1. PICK b \in todo :
           /\ todo' = todo \ {b}
           /\ cur' = [cur EXCEPT ![Scheduler] = b]
           /\ pc' = [pc EXCEPT ![Scheduler] = IF inputs[b] = "registered" THEN "lines" ELSE "reject"]
           /\ poolNow' = DetermineGpuPool(due[b], bctx[Scheduler][b].pool)
    BY <1>7 DEF NextBatch
  <2>2. b \in Batch /\ bctx[Scheduler][b] # None /\ bctx[Scheduler][b] \in BatchRow
    BY <1>1, <1>2, <1>7, <2>1 DEF NextBatch, At, SchedulerHolds, SchedulerTypeOK, ProcTypes
  <2>3. SchedulerTypeOK'
    BY <1>2, <2>1, <2>2 DEF SchedulerTypeOK, DetermineGpuPool, Pools, BatchRow
  <2>4. /\ ProcTypes' /\ OnlyMoves(Scheduler)
        /\ pc'[Scheduler] \in {"lines", "reject"} /\ cur'[Scheduler] = b
    BY <1>1, <1>2, <1>7, <2>1, <2>2 DEF NextBatch, ProcTypes, OnlyMoves, Labels, SchedulerLabels
  <2>5. SchedulerHolds'
    BY <1>2, <1>7, <2>1, <2>2, <2>4 DEF NextBatch, At, SchedulerHolds
  <2> QED
    BY <1>1, <1>2, <1>3, <1>7, <2>3, <2>4, <2>5, StepTypes
       DEF NextBatch, DbTypes, FinalizerTypeOK, SchedulerLabels
<1>8. ASSUME pc[Scheduler] \in {"reject", "lines"}
      PROVE  cur[Scheduler] \in Batch /\ bctx[Scheduler][cur[Scheduler]] \in BatchRow
  BY <1>1, <1>2, <1>8 DEF SchedulerHolds, ProcTypes
<1>9. CASE SaveRejected
  <2>1. [bctx[Scheduler][cur[Scheduler]] EXCEPT !.status = "failed"] \in BatchRow
    BY <1>8, <1>9 DEF SaveRejected, At, BatchRow, BatchStatus
  <2>2. DbTypes'
    BY <1>2, <1>8, <1>9, <2>1, MergeTypes DEF SaveRejected, At, DbTypes
  <2> QED
    BY <1>1, <1>2, <1>9, <2>2, ReturnTypes, StepTypes DEF SaveRejected, At, SchedulerTypeOK
<1>10. CASE ReadLine
  <2>1. QueuedLine \in RequestRow
    <3>1. Ingestion \in Nat
      BY FS_Subset, FS_CardinalityType DEF Ingestion
    <3> QED
      BY <1>2, <3>1 DEF QueuedLine, RequestRow, RequestStatus, SchedulerTypeOK
  <2>2. ASSUME NEW r \in Request, NEW d \in Duplicates(r) PROVE DuplicateLine(d) \in RequestRow
    <3>1. d \in Request /\ requests[d].output \in Request \cup {None}
      BY <1>2 DEF Duplicates, DbTypes, RequestRow
    <3> QED
      BY <2>1, <3>1 DEF DuplicateLine, RequestRow, RequestStatus
  <2>3. PICK r \in Request, row \in RequestRow : AddLine(r, row)
    BY <1>10, <2>1, <2>2 DEF ReadLine, LinesLeft, RequestsOf, Duplicates
  <2> DEFINE R == [rctx[Scheduler] EXCEPT ![r] = row]
  <2>4. R \in [Request -> RequestRow \cup {None}] /\ rctx' = [rctx EXCEPT ![Scheduler] = R]
    BY <1>1, <1>2, <2>3 DEF AddLine, ProcTypes
  <2>5. /\ bctx[Scheduler] \in [Batch -> BatchRow \cup {None}] /\ pc[Scheduler] \in SchedulerLabels
        /\ pc[Scheduler] = "lines"
    BY <1>1, <1>2, <1>10 DEF ReadLine, At, ProcTypes, Own
  <2> HIDE DEF R
  <2>6. ProcTypes' /\ OnlyMoves(Scheduler)
    BY <1>5, <1>10, <2>4, <2>5 DEF ReadLine
  <2>7. SchedulerHolds' /\ SchedulerTypeOK'
    BY <1>2, <1>10 DEF ReadLine, SchedulerHolds, SchedulerTypeOK
  <2> QED
    BY <1>1, <1>2, <1>3, <1>10, <2>5, <2>6, <2>7, StepTypes DEF ReadLine, DbTypes, FinalizerTypeOK
<1>11. CASE SaveIngested
  <2> DEFINE b == cur[Scheduler]
             new == [bctx[Scheduler][b] EXCEPT !.status = "running", !.pool = poolNow]
  <2>1. pc[Scheduler] = "lines" /\ b \in Batch /\ bctx[Scheduler][b] \in BatchRow
    BY <1>8, <1>11 DEF SaveIngested, At
  <2>2. new \in BatchRow
    BY <1>2, <2>1 DEF BatchRow, BatchStatus, SchedulerTypeOK
  <2>3. /\ requests' = [r \in Request |-> IF BatchOf[r] = b THEN rctx[Scheduler][r] ELSE requests[r]]
        /\ batches' = [batches EXCEPT ![b] = MergeBatch(@, bctx[Scheduler][b], new)]
        /\ bctx' = [bctx EXCEPT ![Scheduler][b] = new]
        /\ pc' = [pc EXCEPT ![Scheduler] = "finLoad"]
        /\ \A r \in Request : BatchOf[r] = b => rctx[Scheduler][r] # None
    BY <1>11 DEF SaveIngested, LinesLeft, RequestsOf
  <2> HIDE DEF new, b
  <2>4. DbTypes'
    <3>1. requests' \in [Request -> RequestRow]
      BY <1>1, <1>2, <2>3 DEF DbTypes, ProcTypes
    <3>2. batches' \in [Batch -> BatchRow]
      BY <1>2, <2>1, <2>2, <2>3, MergeTypes DEF DbTypes
    <3> QED
      BY <1>2, <1>11, <3>1, <3>2 DEF SaveIngested, DbTypes
  <2>5. /\ bctx' = [bctx EXCEPT ![Scheduler] = [bctx[Scheduler] EXCEPT ![b] = new]]
        /\ [bctx[Scheduler] EXCEPT ![b] = new] \in [Batch -> BatchRow \cup {None}]
        /\ rctx[Scheduler] \in [Request -> RequestRow \cup {None}]
        /\ "finLoad" \in SchedulerLabels
    BY <1>1, <1>2, <2>1, <2>2, <2>3 DEF ProcTypes, SchedulerLabels, FinalizerLabels
  <2>6. /\ ProcTypes' /\ OnlyMoves(Scheduler) /\ pc'[Scheduler] = "finLoad"
        /\ bctx'[Scheduler] = [bctx[Scheduler] EXCEPT ![b] = new] /\ cur'[Scheduler] = b /\ todo' = todo
    BY <1>5, <1>11, <2>3, <2>5 DEF SaveIngested, b
  <2>7. SchedulerHolds' /\ SchedulerTypeOK'
    <3>1. \A c \in Batch : bctx[Scheduler][c] # None => bctx'[Scheduler][c] # None
      BY <1>1, <1>2, <2>1, <2>2, <2>6, RowAssumption DEF ProcTypes
    <3>2. bctx'[Scheduler][b] # None
      BY <1>1, <1>2, <2>1, <2>2, <2>6, RowAssumption DEF ProcTypes
    <3> QED
      BY <1>2, <1>11, <2>1, <2>6, <3>1, <3>2 DEF SaveIngested, SchedulerHolds, SchedulerTypeOK
  <2> QED
    BY <1>1, <1>2, <1>3, <1>11, <2>4, <2>5, <2>6, <2>7, StepTypes DEF SaveIngested, FinalizerTypeOK
<1>12. CASE EscalateLoad
  <2> DEFINE B == [b \in Batch |-> IF b \in {BatchOf[r] : r \in ToEscalate} THEN batches[b] ELSE None]
             R == [r \in Request |-> IF r \in ToEscalate THEN requests[r] ELSE None]
             l == IF ToEscalate = {} THEN "idle" ELSE "escSave"
  <2>1. /\ B \in [Batch -> BatchRow \cup {None}] /\ R \in [Request -> RequestRow \cup {None}]
        /\ l \in SchedulerLabels /\ l \in {"idle", "escSave"}
    BY <1>2 DEF DbTypes, SchedulerLabels
  <2>2. /\ bctx' = [bctx EXCEPT ![Scheduler] = B] /\ rctx' = [rctx EXCEPT ![Scheduler] = R]
        /\ pc' = [pc EXCEPT ![Scheduler] = l]
    BY <1>12 DEF EscalateLoad
  <2> HIDE DEF B, R, l
  <2>3. ProcTypes' /\ OnlyMoves(Scheduler) /\ pc'[Scheduler] = l
    BY <1>5, <1>12, <2>1, <2>2 DEF EscalateLoad
  <2>4. SchedulerHolds' /\ SchedulerTypeOK'
    BY <1>2, <1>12, <2>1, <2>3 DEF EscalateLoad, SchedulerHolds, SchedulerTypeOK, FinalizerLabels
  <2> QED
    BY <1>1, <1>2, <1>3, <1>12, <2>1, <2>3, <2>4, StepTypes DEF EscalateLoad, DbTypes, FinalizerTypeOK
<1>13. CASE EscalateSave
  <2> DEFINE B == bctx[Scheduler]
             R == rctx[Scheduler]
  <2>1. B \in [Batch -> BatchRow \cup {None}] /\ R \in [Request -> RequestRow \cup {None}]
    BY <1>1, <1>2 DEF ProcTypes
  <2>2. /\ \A row \in BatchRow : OnDedicated(row) \in BatchRow
        /\ \A row \in RequestRow : OnDedicated(row) \in RequestRow
    BY DEF OnDedicated, BatchRow, RequestRow, Pools
  <2>3. /\ requests' = [r \in Request |-> IF R[r] = None THEN requests[r]
                                         ELSE MergeRequest(requests[r], R[r], OnDedicated(R[r]))]
        /\ batches' = [b \in Batch |-> IF B[b] = None THEN batches[b]
                                       ELSE MergeBatch(batches[b], B[b], OnDedicated(B[b]))]
    BY <1>13 DEF EscalateSave
  <2> HIDE DEF B, R
  <2>4. DbTypes'
    <3>1. requests' \in [Request -> RequestRow]
      BY <1>2, <2>1, <2>2, <2>3, MergeTypes DEF DbTypes
    <3>2. batches' \in [Batch -> BatchRow]
      BY <1>2, <2>1, <2>2, <2>3, MergeTypes DEF DbTypes
    <3> QED
      BY <1>2, <1>13, <3>1, <3>2 DEF EscalateSave, DbTypes
  <2>5. ProcTypes' /\ OnlyMoves(Scheduler) /\ Own(Scheduler)'
    BY <1>1, <1>2, <1>13, ReleaseTypes DEF EscalateSave
  <2> QED
    BY <1>1, <1>2, <1>13, <2>4, <2>5, StepTypes DEF EscalateSave, FinalizerTypeOK, SchedulerTypeOK
<1>14. CASE SchedulerAbort
  <2>1. DbTypes' /\ FinalizerTypeOK'
    BY <1>1, <1>2, <1>14 DEF SchedulerAbort, Spend, EventKind, DbTypes, FinalizerTypeOK, NoLines
  <2>2. ProcTypes' /\ OnlyMoves(Scheduler) /\ Own(Scheduler)'
    BY <1>1, <1>2, <1>14, ReleaseTypes DEF SchedulerAbort
  <2> QED
    BY <1>1, <1>2, <1>14, <2>1, <2>2, StepTypes DEF SchedulerAbort, SchedulerTypeOK
<1> QED
  BY <1>1, <1>6, <1>7, <1>9, <1>10, <1>11, <1>12, <1>13, <1>14, FinTypes DEF SchedulerStep

----------------------------------------------------------------------------
(* The gateway and the clock *)

LEMMA HandlerTypes ==
    ASSUME TypeInv, NEW h \in Handler,
           HandlerStep(h) \/ HangUp(h) \/ (\E b \in Batch : CancelLoad(h, b))
                          \/ (\E r \in Request : RetryLoad(h, r)),
           UNCHANGED <<finVars, schedVars>>
    PROVE  TypeInv'
<1> USE StoreAssumption DEF schedVars, finVars, dbVars
<1>1. h \in Actor /\ h \notin Worker /\ h # Scheduler
  BY DEF Actor
<1>2. /\ DbTypes /\ ProcTypes /\ FinalizerTypeOK /\ SchedulerTypeOK /\ Own(h) /\ HandlerHolds(h)
      /\ FinalizerTypeOK' /\ SchedulerTypeOK'
  BY <1>1, TypeParts DEF FinalizerTypeOK, SchedulerTypeOK, Own
<1>3. CASE CancelRequests(h)
  <2>1. DbTypes'
    <3>1. \A row \in RequestRow : [row EXCEPT !.status = "Cancelled"] \in RequestRow
      BY DEF RequestRow, RequestStatus
    <3>2. CancelledRows(cur[h]) \in [Request -> RequestRow]
      BY <1>2, <3>1 DEF CancelledRows, DbTypes
    <3> QED
      BY <1>2, <1>3, <3>2 DEF CancelRequests, DbTypes
  <2>2. ProcTypes' /\ OnlyMoves(h) /\ pc'[h] = "cancelSave"
    BY <1>1, <1>2, <1>3 DEF CancelRequests, ProcTypes, OnlyMoves, Labels, HandlerLabels
  <2>3. Own(h)'
    BY <1>1, <1>2, <1>3, <2>2 DEF CancelRequests, Own, HandlerHolds, HandlerLabels
  <2> QED
    BY <1>1, <1>2, <2>1, <2>2, <2>3, StepTypes
<1>4. CASE CancelSave(h)
  <2>1. cur[h] \in Batch /\ bctx[h][cur[h]] \in BatchRow
    BY <1>1, <1>2, <1>4 DEF CancelSave, HandlerHolds, ProcTypes
  <2>2. [bctx[h][cur[h]] EXCEPT !.status = "cancelled"] \in BatchRow
    BY <2>1 DEF BatchRow, BatchStatus
  <2>3. DbTypes'
    BY <1>2, <1>4, <2>1, <2>2, MergeTypes DEF CancelSave, DbTypes
  <2>4. ProcTypes' /\ OnlyMoves(h) /\ Own(h)'
    BY <1>1, <1>2, <1>4, ReleaseTypes DEF CancelSave
  <2> QED
    BY <1>1, <1>2, <2>3, <2>4, StepTypes
<1>5. CASE RetrySave(h)
  <2>1. job[h] \in Request /\ rctx[h][job[h]] \in RequestRow
    BY <1>1, <1>2, <1>5 DEF RetrySave, HandlerHolds, ProcTypes
  <2>2. RetriedRow(rctx[h][job[h]]) \in RequestRow
    BY <2>1 DEF RetriedRow, RequestRow, RequestStatus
  <2>3. DbTypes'
    BY <1>2, <1>5, <2>1, <2>2, MergeTypes DEF RetrySave, DbTypes
  <2>4. ProcTypes' /\ OnlyMoves(h) /\ Own(h)'
    BY <1>1, <1>2, <1>5, ReleaseTypes DEF RetrySave
  <2> QED
    BY <1>1, <1>2, <2>3, <2>4, StepTypes
<1>6. CASE HangUp(h)
  <2>1. DbTypes'
    BY <1>2, <1>6 DEF HangUp, Spend, EventKind, DbTypes
  <2>2. ProcTypes' /\ OnlyMoves(h) /\ Own(h)'
    BY <1>1, <1>2, <1>6, ReleaseTypes DEF HangUp
  <2> QED
    BY <1>1, <1>2, <2>1, <2>2, StepTypes
<1>7. ASSUME NEW b \in Batch, CancelLoad(h, b) PROVE TypeInv'
  <2>1. DbTypes'
    BY <1>2, <1>7 DEF CancelLoad, Spend, EventKind, DbTypes
  <2>2. ProcTypes' /\ OnlyMoves(h)
    BY <1>1, <1>2, <1>7 DEF CancelLoad, ProcTypes, DbTypes, OnlyMoves, Labels, HandlerLabels
  <2>3. pc'[h] = "cancelRequests" /\ cur'[h] = b /\ bctx'[h][b] \in BatchRow
    BY <1>1, <1>2, <1>7 DEF CancelLoad, ProcTypes, DbTypes
  <2>4. Own(h)'
    BY <1>1, <2>3, RowAssumption DEF Own, HandlerHolds, HandlerLabels
  <2> QED
    BY <1>1, <1>2, <2>1, <2>2, <2>4, StepTypes
<1>8. ASSUME NEW r \in Request, RetryLoad(h, r) PROVE TypeInv'
  <2>1. DbTypes'
    BY <1>2, <1>8 DEF RetryLoad, Spend, EventKind, DbTypes
  <2>2. ProcTypes' /\ OnlyMoves(h)
    BY <1>1, <1>2, <1>8 DEF RetryLoad, ProcTypes, DbTypes, OnlyMoves, Labels, HandlerLabels
  <2>3. pc'[h] = "retrySave" /\ job'[h] = r /\ rctx'[h][r] \in RequestRow
    BY <1>1, <1>2, <1>8 DEF RetryLoad, ProcTypes, DbTypes
  <2>4. Own(h)'
    BY <1>1, <2>3, RowAssumption DEF Own, HandlerHolds, HandlerLabels
  <2> QED
    BY <1>1, <1>2, <2>1, <2>2, <2>4, StepTypes
<1> QED
  BY <1>3, <1>4, <1>5, <1>6, <1>7, <1>8 DEF HandlerStep

LEMMA EnvironmentTypes ==
    ASSUME TypeInv, NEW b \in Batch,
           UploadWrite(b) \/ UploadRegister(b) \/ CreateBatch(b) \/ LoseInput(b) \/ DeadlineNears(b),
           UNCHANGED <<finVars, schedVars>>
    PROVE  TypeInv'
<1> USE StoreAssumption DEF schedVars, finVars, dbVars, procVars
<1>1. DbTypes /\ ProcTypes /\ FinalizerTypeOK /\ SchedulerTypeOK /\ \A x \in Actor : Own(x)
  BY TypeParts
<1>2. DbTypes'
  <2>1. CASE CreateBatch(b)
    <3>1. Cardinality({c \in Batch : batches[c].status # "absent"}) \in Nat
      BY FS_Subset, FS_CardinalityType
    <3> QED
      BY <1>1, <2>1, <3>1 DEF CreateBatch, DbTypes, BatchRow, BatchStatus
  <2>2. CASE UploadWrite(b)
    BY <1>1, <2>2 DEF UploadWrite, Spend, EventKind, DbTypes
  <2>3. CASE UploadRegister(b)
    BY <1>1, <2>3 DEF UploadRegister, DbTypes
  <2>4. CASE LoseInput(b)
    BY <1>1, <2>4 DEF LoseInput, Spend, EventKind, DbTypes
  <2>5. CASE DeadlineNears(b)
    BY <1>1, <2>5 DEF DeadlineNears, Spend, EventKind, DbTypes
  <2> QED
    BY <2>1, <2>2, <2>3, <2>4, <2>5
<1>3. UNCHANGED procVars
  BY DEF UploadWrite, UploadRegister, CreateBatch, LoseInput, DeadlineNears
<1>4. ProcTypes' /\ OnlyMoves(Scheduler) /\ Own(Scheduler)' /\ Scheduler \in Actor
  BY <1>1, <1>3 DEF ProcTypes, OnlyMoves, Own, SchedulerHolds, Actor
<1> QED
  BY <1>1, <1>2, <1>4, StepTypes DEF FinalizerTypeOK, SchedulerTypeOK

----------------------------------------------------------------------------
(* Every variable has its type in every reachable state, and every process  *)
(* holds what its next round trip reads (rows loaded, batch and request     *)
(* known), for any number of pods, batches, requests and environment events.*)
LEMMA TypeStep == TypeInv /\ [Next]_vars => TypeInv'
<1> SUFFICES ASSUME TypeInv, [Next]_vars PROVE TypeInv'
  OBVIOUS
<1>1. CASE UNCHANGED vars
  BY <1>1 DEF vars, storeVars, finVars, schedVars, TypeInv, TypeOK, StoreTypeOK, FinalizerTypeOK,
              SchedulerTypeOK, WorkerHolds, Busy, SchedulerHolds, HandlerHolds
<1>2. CASE \E w \in Worker : (WorkerStep(w) \/ WorkerFault(w) \/ WorkerCrash(w)) /\ UNCHANGED schedVars
  BY <1>2, WorkerTypes
<1>3. CASE SchedulerStep \/ SchedulerAbort
  BY <1>3, SchedulerTypes
<1>4. CASE \E h \in Handler : (HandlerStep(h) \/ HangUp(h)) /\ UNCHANGED <<finVars, schedVars>>
  BY <1>4, HandlerTypes
<1>5. CASE ClientStep /\ UNCHANGED <<finVars, schedVars>>
  BY <1>5, HandlerTypes, EnvironmentTypes DEF ClientStep
<1>6. CASE \E b \in Batch : DeadlineNears(b) /\ UNCHANGED <<finVars, schedVars>>
  BY <1>6, EnvironmentTypes
<1> QED
  BY <1>1, <1>2, <1>3, <1>4, <1>5, <1>6 DEF Next

THEOREM TypeInvariant == Spec => []TypeInv
<1>1. Init => TypeInv
  BY InitialTypes
<1>2. TypeInv /\ [Next]_vars => TypeInv'
  BY TypeStep
<1> QED
  BY <1>1, <1>2, PTL DEF Spec

\* Every variable has its type in every reachable state: what no process ever
\* reads or saves is a row it has not loaded.
THEOREM TypeCorrect == Spec => []TypeOK
<1>1. TypeInv => TypeOK
  BY DEF TypeInv
<1> QED
  BY <1>1, TypeInvariant, PTL
============================================================================
