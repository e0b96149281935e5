------------------------------ MODULE Readers ------------------------------
(***************************************************************************)
(* The processes that only read the tables while the system works on them: *)
(* two GET handlers of the gateway, its metrics updater and the portal's   *)
(* list of batches.  Each takes several queries, with no transaction       *)
(* around them, so that what it shows was never the state of the tables.   *)
(* One reader at a time is enough: readers do not see each other.          *)
(***************************************************************************)
EXTENDS BatchSystem, Sequences

VARIABLES
    rpc,        \* where the reader is
    target,     \* the batch it was asked for
    seen,       \* the batch's row as it loaded it
    counted,    \* the metrics updater's count of processed batches
    processed,  \* gauge BatchesProcessedTotal
    shown       \* the portal's StatusCounts, in the order in which it takes them

readerVars == <<rpc, target, seen, counted, processed, shown>>

ReaderInit ==
    /\ rpc = "idle"
    /\ target = None
    /\ seen = None
    /\ counted = 0
    /\ processed = 0
    /\ shown = <<>>

Created == {b \in Batch : batches[b].status # "absent"}

----------------------------------------------------------------------------
(* GET /v1/batches/{id}: the batch, then the counts of its requests.        *)
ReadBatch(b, l) ==
    /\ rpc = "idle"
    /\ b \in Created
    /\ rpc' = l
    /\ target' = b
    /\ seen' = batches[b]
    /\ UNCHANGED <<counted, processed, shown>>

StatusLoad(b) == ReadBatch(b, "status")

\* The response, when the counts are taken now.
StatusReply ==
    LET Counted(s) == Cardinality({r \in RequestsOf(target) : requests[r].status \in s})
    IN  [status |-> seen.status,
         total |-> Counted(RequestStatus \ {"absent"}),
         open |-> Counted({"Queued", "Running"})]

Answer ==
    /\ rpc' = "idle"
    /\ target' = None
    /\ seen' = None
    /\ UNCHANGED <<counted, processed, shown>>

StatusAnswer == rpc = "status" /\ Answer

\* GET /v1/batches/{id}/output: not ready without an OutputFileId; otherwise
\* the file is opened under its path, which finalizers share.
OutputLoad(b) == batches[b].out # 0 /\ ReadBatch(b, "output")

OutputCode == IF disk[target].state = "missing" THEN 404
              ELSE IF Opened(target) THEN 500 ELSE 200

OutputAnswer == rpc = "output" /\ Answer

----------------------------------------------------------------------------
(* BatchMetricsUpdater: the batches, then the requests in two more queries, *)
(* then the gauges; an exception leaves the gauges as they are.             *)
\* (Variant: counts the batches that are running.)
BatchesProcessedVariant == Cardinality({b \in Batch : batches[b].status = "running"})
BatchesProcessed == Cardinality({b \in Created : batches[b].status # "queued"})

MetricsCount ==
    /\ rpc = "idle"
    /\ rpc' = "metrics"
    /\ counted' = BatchesProcessed
    /\ UNCHANGED <<target, seen, processed, shown>>

MetricsSet ==
    /\ rpc = "metrics"
    /\ rpc' = "idle"
    /\ processed' = counted
    /\ counted' = 0
    /\ UNCHANGED <<target, seen, shown>>

MetricsFail ==
    /\ rpc = "metrics"
    /\ rpc' = "idle"
    /\ counted' = 0
    /\ UNCHANGED <<target, seen, processed, shown>>

----------------------------------------------------------------------------
(* The portal's list: the count of all batches, then one query per status.  *)
\* (Variant: running before queued.)
StatusOrderVariant == <<"running", "queued", "completed", "failed", "cancelled">>
StatusOrder == <<"queued", "running", "completed", "failed", "cancelled">>

ListAll ==
    /\ rpc = "idle"
    /\ rpc' = "list"
    /\ shown' = <<Cardinality(Created)>>
    /\ UNCHANGED <<target, seen, counted, processed>>

ListStatus ==
    /\ rpc = "list"
    /\ Len(shown) <= Len(StatusOrder)
    /\ shown' = Append(shown, Cardinality({b \in Created :
                                  batches[b].status = StatusOrder[Len(shown)]}))
    /\ UNCHANGED <<rpc, target, seen, counted, processed>>

ListDone ==
    /\ rpc = "list"
    /\ Len(shown) > Len(StatusOrder)
    /\ rpc' = "idle"
    /\ shown' = <<>>
    /\ UNCHANGED <<target, seen, counted, processed>>

----------------------------------------------------------------------------
ReaderStep ==
    \/ \E b \in Batch : StatusLoad(b) \/ OutputLoad(b)
    \/ StatusAnswer
    \/ OutputAnswer
    \/ MetricsCount
    \/ MetricsSet
    \/ MetricsFail
    \/ ListAll
    \/ ListStatus
    \/ ListDone

ReadersInit == Init /\ ReaderInit

ReadersNext ==
    \/ Next /\ UNCHANGED readerVars
    \/ ReaderStep /\ UNCHANGED vars

ReadersSpec == ReadersInit /\ [][ReadersNext]_<<vars, readerVars>>

----------------------------------------------------------------------------
(* What a client sees, without cancellations and retries *)

\* Although the status is older than the counts: a batch shown as running has
\* all its requests, and one shown as completed has none left to run.
StatusConsistent ==
    rpc = "status" =>
        /\ StatusReply.status \in {"running", "completed"} =>
              StatusReply.total = Cardinality(RequestsOf(target))
        /\ StatusReply.status \in {"completed", "failed"} => StatusReply.open = 0

\* The output endpoint, once it has found an OutputFileId, answers with a whole
\* file, one line for each request, or fails because a second finalizer is
\* rewriting it: never with a part of it, and never with "not found".
OutputServed ==
    rpc = "output" =>
        \/ OutputCode = 500
        \/ /\ OutputCode = 200
           /\ disk[target].state = "written"
           /\ \A r \in RequestsOf(target) : disk[target].lines[r] # None

\* The portal's counts may show a batch twice, or not at all when a second
\* finalizer changes its final status; but a batch that is still open when the
\* last count is taken has been shown as queued or as running, because batches
\* move the way the queries are ordered.
ListShowsOpen ==
    Len(shown) > Len(StatusOrder) =>
        Cardinality({b \in Created : /\ batches[b].at < shown[1]
                                     /\ batches[b].status \in {"queued", "running"}})
            <= shown[2] + shown[3]

\* The gauge of processed batches never drops, as the name BatchesProcessedTotal
\* promises, although it is recounted and set a while later.
ProcessedNeverDrops == [][processed' >= processed]_processed
============================================================================
