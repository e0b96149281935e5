---------------------------- MODULE BatchSystem ----------------------------
(***************************************************************************)
(* The whole system: worker pods, the scheduler pod and the gateway on one *)
(* database and one storage directory.                                     *)
(***************************************************************************)
EXTENDS Worker, SchedulerService, Gateway

vars == <<storeVars, finVars, schedVars>>

Init ==
    /\ StoreInit
    /\ FinalizerInit
    /\ SchedulerInit

\* The clock: a batch comes within the escalation threshold of its deadline.
DeadlineNears(b) ==
    /\ ~due[b]
    /\ Spend("deadline")
    /\ due' = [due EXCEPT ![b] = TRUE]
    /\ UNCHANGED <<dbVars, inputs, disk, procVars>>

Next ==
    \/ \E w \in Worker : (WorkerStep(w) \/ WorkerFault(w) \/ WorkerCrash(w))
                         /\ UNCHANGED schedVars
    \/ SchedulerStep
    \/ SchedulerAbort
    \/ \E h \in Handler : (HandlerStep(h) \/ HangUp(h)) /\ UNCHANGED <<finVars, schedVars>>
    \/ ClientStep /\ UNCHANGED <<finVars, schedVars>>
    \/ \E b \in Batch : DeadlineNears(b) /\ UNCHANGED <<finVars, schedVars>>

\* The loops of the worker and of the scheduler never stop by themselves and
\* every awaited round trip is answered; a pod that went down is restarted and
\* a handler that began ends.  Clients and the environment owe nothing.
Fairness ==
    /\ \A w \in Worker : WF_vars(WorkerStep(w) /\ UNCHANGED schedVars)
    /\ WF_vars(SchedulerStep)
    /\ \A h \in Handler : WF_vars(HandlerStep(h) /\ UNCHANGED <<finVars, schedVars>>)

Spec == Init /\ [][Next]_vars
FairSpec == Spec /\ Fairness

----------------------------------------------------------------------------
(* Every variable, in every reachable state, has the type its column,       *)
(* identity map or control point has in the code.                           *)
TypeOK ==
    /\ StoreTypeOK
    /\ FinalizerTypeOK
    /\ SchedulerTypeOK
    /\ \A w \in Worker : pc[w] \in WorkerLabels
    /\ pc[Scheduler] \in SchedulerLabels
    /\ \A h \in Handler : pc[h] \in HandlerLabels
============================================================================
