----------------------------- MODULE WorkQueue -----------------------------
(***************************************************************************)
(* What IRequestRepository promises to the pull loops, without a database: *)
(* a queue in which every operation is atomic and a request that is being  *)
(* served has exactly one holder.  BatchProperties gives the mapping under *)
(* which the whole system implements it.                                   *)
(***************************************************************************)
CONSTANTS
    Batch, Request, Worker, None,
    BatchOf,            \* the batch of a request
    DedicatedWorker     \* workers that take requests of the dedicated pool only

VARIABLES
    phase,      \* where each request is
    holder,     \* the worker serving it
    dedicated   \* requests that have been moved to the dedicated pool

queueVars == <<phase, holder, dedicated>>

Phase == {"absent", "waiting", "held", "abandoned", "done", "failed", "withdrawn"}

Init ==
    /\ phase = [r \in Request |-> "absent"]
    /\ holder = [r \in Request |-> None]
    /\ dedicated = {}

To(R, p) == phase' = [r \in Request |-> IF r \in R THEN p ELSE phase[r]]

\* The requests of a batch enter together, some of them already answered.
Enter(b) ==
    LET R == {r \in Request : BatchOf[r] = b}
    IN  /\ \A r \in R : phase[r] = "absent"
        /\ \E answered \in SUBSET R :
              phase' = [r \in Request |-> IF r \in answered THEN "done"
                                          ELSE IF r \in R THEN "waiting" ELSE phase[r]]
        /\ \E D \in {{}, R} : dedicated' = dedicated \cup D
        /\ UNCHANGED holder

\* MarkRunningAsync returned true: nobody held the request, now w does.
Claim(w, r) ==
    /\ phase[r] = "waiting"
    /\ \A s \in Request : holder[s] # w
    /\ w \in DedicatedWorker => r \in dedicated
    /\ To({r}, "held")
    /\ holder' = [holder EXCEPT ![r] = w]
    /\ UNCHANGED dedicated

\* The holder, and nobody else, says what became of the request.
Release(r, p) ==
    /\ holder[r] # None
    /\ To({r}, p)
    /\ holder' = [holder EXCEPT ![r] = None]

Finish(r) == Release(r, "done") /\ UNCHANGED dedicated
Fail(r) == Release(r, "failed") /\ UNCHANGED dedicated

\* After a spot interruption the request waits for the other pool.
GiveBack(r) ==
    /\ holder[r] \notin DedicatedWorker
    /\ Release(r, "waiting")
    /\ dedicated' = dedicated \cup {r}

\* The holder is gone; nobody takes over.
Abandon(r) == Release(r, "abandoned") /\ UNCHANGED dedicated

\* Escalation moves requests whether or not they are being served.
Promote ==
    /\ \E R \in SUBSET Request : dedicated' = dedicated \cup R
    /\ UNCHANGED <<phase, holder>>

\* Cancelling takes the waiting requests of a batch away, and no other.
Withdraw(b) ==
    /\ To({r \in Request : BatchOf[r] = b /\ phase[r] = "waiting"}, "withdrawn")
    /\ UNCHANGED <<holder, dedicated>>

Retry(r) ==
    /\ phase[r] = "failed"
    /\ To({r}, "waiting")
    /\ UNCHANGED <<holder, dedicated>>

\* An answered request is marked failed by an error in what follows.
Spoil(r) ==
    /\ phase[r] = "done"
    /\ To({r}, "failed")
    /\ UNCHANGED <<holder, dedicated>>

Next ==
    \/ \E b \in Batch : Enter(b) \/ Withdraw(b)
    \/ \E r \in Request :
          \/ \E w \in Worker : Claim(w, r)
          \/ Finish(r) \/ Fail(r) \/ GiveBack(r) \/ Abandon(r)
          \/ Retry(r) \/ Spoil(r)
    \/ Promote

Spec == Init /\ [][Next]_queueVars
============================================================================
