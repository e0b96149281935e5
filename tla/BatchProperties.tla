-------------------------- MODULE BatchProperties --------------------------
(***************************************************************************)
(* What the batch system promises.  Each property says on which instances  *)
(* it holds; README.md relates them to the runs and to the findings.       *)
(***************************************************************************)
EXTENDS BatchSystem

\* A worker between its successful claim and its save of the outcome.
Serving(w) == pc[w] \in {"process", "mcLoad", "mcSave"}

\* A worker reporting the interruption of a request it was serving.
Interrupted(w) == pc[w] \in {"mfLoad", "mfSave"} /\ err[w] = "interruption"

Finished(row) == row.status \in {"completed", "failed", "cancelled"}

\* All requests of a batch are in a final state.
Final == {"Completed", "Failed", "Cancelled"}
Settled(b) == \A r \in RequestsOf(b) : requests[r].status \in Final

\* A process that is finalizing batch b, or that will when it has marked its
\* request failed.
Finalizes(a, b) ==
    /\ cur[a] = b
    /\ \/ pc[a] \in FinalizerLabels
       \/ pc[a] \in {"mfLoad", "mfSave"} /\ err[a] = "error"

----------------------------------------------------------------------------
(* Safety *)

\* A request is served by the one worker that claimed it: while a worker runs
\* it the row says Running and bears that worker's id, no second worker serves
\* it, and no escalation, cancellation or retry has taken it back.
\* (MarkRunningAsync's conditional update against stale saves of other actors.)
ClaimExclusive ==
    \A w \in Worker :
        Serving(w) \/ Interrupted(w) =>
            /\ requests[job[w]].status = "Running"
            /\ requests[job[w]].worker = IdOf[w]
            /\ \A v \in Worker : Serving(v) /\ job[v] = job[w] => v = w

\* The pull loop never serves, on a dedicated worker, a request the table
\* assigns to the spot pool: a pool never goes back from dedicated to spot,
\* whatever stale copy is saved over it.  (Escalation, requeue, retry.)
DedicatedWork ==
    \A w \in Worker :
        (Serving(w) /\ PoolOf[w] = Dedicated) => requests[job[w]].pool = Dedicated

\* A completed request has its output, although its status and its output may
\* come from the saves of different copies of the row.
CompletedHasOutput ==
    \A r \in Request : requests[r].status = "Completed" => requests[r].output # None

\* A request that was answered from an earlier one carries an output computed
\* for the same input, stays completed, and its original still has an output.
DuplicateSound ==
    \A r \in Request : requests[r].orig # None =>
        /\ requests[r].status = "Completed"
        /\ HashOf[requests[r].output] = HashOf[r]
        /\ requests[requests[r].orig].output # None

\* A batch's file is split into requests once: when the scheduler is about to
\* insert them, none of them is in the table, although its list of queued
\* batches may be out of date.
IngestedOnce ==
    At(Scheduler, "lines") =>
        \A r \in RequestsOf(cur[Scheduler]) : requests[r].status = "absent"

\* Without retries, a batch that has an output file has no request left to run.
FinalizedMeansDone ==
    spent["retry"] = 0 => \A r \in Request : batches[BatchOf[r]].out # 0 =>
        requests[r].status \notin {"Queued", "Running"}

\* A running batch all of whose requests are final, and which has no output
\* file yet, is in somebody's hands: a finalizer will give it its file, or a
\* cancellation its status.  Finalization takes no lock and nobody looks for
\* forgotten batches, so the last one to finish a request must not leave: not
\* for what it counted, for a stale copy of the batch or because the file is
\* open.  (A pod that goes down, a tick that is abandoned and a client that
\* hangs up do leave such batches behind.)
LastOneFinalizes ==
    spent["crash"] = 0 /\ spent["abort"] = 0 /\ spent["hangup"] = 0 =>
        \A b \in Batch :
            batches[b].status = "running" /\ batches[b].out = 0 /\ Settled(b) =>
                \/ \E a \in Finalizing : Finalizes(a, b)
                \/ \E h \in Handler : pc[h] = "cancelSave" /\ cur[h] = b

----------------------------------------------------------------------------
(* Action properties *)

\* Cancelling stops queued requests only, and for good: a running request is
\* never taken from its worker, and a cancelled one never runs again.
CancelledStays ==
    [][\A r \in Request :
          /\ requests[r].status = "Running" => requests'[r].status # "Cancelled"
          /\ requests[r].status = "Cancelled" => requests'[r].status = "Cancelled"]_vars

\* A batch receives its output file at a moment when each of its requests is
\* in a final state, several round trips after they were counted.
FinalizedWhenDone ==
    [][\A r \in Request : batches'[BatchOf[r]].out # batches[BatchOf[r]].out =>
          requests[r].status \notin {"Queued", "Running"}]_vars

\* A completed request stays completed.
CompletedStays ==
    [][\A r \in Request :
          requests[r].status = "Completed" => requests'[r].status = "Completed"]_vars

\* An interrupted request goes back to the queue: it does not fail.
InterruptionRequeues ==
    [][\A w \in Worker : (Interrupted(w) /\ requests'[job[w]] # requests[job[w]])
                            => requests'[job[w]].status # "Failed"]_vars

\* A cancelled batch stays cancelled.
CancelIsFinal ==
    [][\A b \in Batch :
          batches[b].status = "cancelled" => batches'[b].status = "cancelled"]_vars

----------------------------------------------------------------------------
(* A claim of the documents that some schedules break *)

\* The output file of a completed batch gives each completed request's output.
OutputComplete ==
    \A b \in Batch : (batches[b].status = "completed" /\ disk[b].state = "written") =>
        \A r \in RequestsOf(b) :
            requests[r].status = "Completed" => disk[b].lines[r] = requests[r].output

----------------------------------------------------------------------------
(* Refinement *)

\* The worker that holds a request: from its claim to its save of the outcome,
\* the report of an interruption or of an error included.
Holds(w, r) ==
    /\ job[w] = r
    /\ Serving(w) \/ pc[w] \in {"mfLoad", "mfSave"}
    /\ requests[r].status = "Running"

HolderOf(r) == IF \E w \in Worker : Holds(w, r)
               THEN CHOOSE w \in Worker : Holds(w, r) ELSE None

PhaseOf(r) ==
    CASE requests[r].status = "absent"    -> "absent"
      [] requests[r].status = "Queued"    -> "waiting"
      [] requests[r].status = "Running"   -> IF HolderOf(r) = None THEN "abandoned" ELSE "held"
      [] requests[r].status = "Completed" -> "done"
      [] requests[r].status = "Failed"    -> "failed"
      [] requests[r].status = "Cancelled" -> "withdrawn"

Queue == INSTANCE WorkQueue WITH
    DedicatedWorker <- {w \in Worker : PoolOf[w] = Dedicated},
    phase <- [r \in Request |-> PhaseOf(r)],
    holder <- [r \in Request |-> HolderOf(r)],
    dedicated <- {r \in Request : requests[r].status # "absent" /\ requests[r].pool = Dedicated}

\* With loads, saves of old copies, faults and crashes of all pods interleaved,
\* the requests still behave as those of an atomic queue: each has one holder
\* at most, and only its holder decides its outcome.  (With two retries of one
\* request at once they do not.)
ImplementsQueue == Queue!Spec

----------------------------------------------------------------------------
(* Liveness, under FairSpec *)

\* Every batch that is not cancelled gets an output file: whichever process is the
\* last to finish a request of the batch sees that nothing remains, although
\* each counts on its own, after its own save, with no lock.
EveryBatchFinalizes ==
    \A b \in Batch :
        batches[b].status = "queued" ~> batches[b].out # 0 \/ batches[b].status = "cancelled"

\* A batch whose requests are all answered from earlier ones is finalized, by
\* the scheduler itself, for no worker ever gets one of its requests: unless the
\* tick is abandoned between the two saves, which nothing makes up for.
DuplicatesFinalize ==
    \A b \in Batch :
        (batches[b].status = "running" /\ \A r \in RequestsOf(b) : requests[r].orig # None)
            ~> batches[b].out # 0 \/ spent["abort"] > 0

\* Every batch reaches a final status when it may also be cancelled.
EveryBatchFinishes ==
    \A b \in Batch : batches[b].status \in {"queued", "running"} ~> Finished(batches[b])

\* A queued request of a batch that nears its deadline is moved to the
\* dedicated pool or is claimed before.
DeadlineEscalates ==
    \A r \in Request :
        (requests[r].status = "Queued" /\ due[BatchOf[r]])
            ~> (requests[r].status # "Queued" \/ requests[r].pool = Dedicated)
============================================================================
