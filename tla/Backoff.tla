------------------------------ MODULE Backoff ------------------------------
(***************************************************************************)
(* The pull loops of one pool's workers with their idle time:              *)
(* BackoffStrategy and the branches of WorkerPullLoop.RunAsync around it.   *)
(* Module Worker has the same loop without time.  Here a request is just   *)
(* queued or not, and time passes in Task.Delay and while others serve: a   *)
(* round trip takes none, compared to a delay of at least 250 ms.           *)
(***************************************************************************)
EXTENDS Integers

CONSTANTS
    Worker,     \* the pods of the pool
    Request,    \* requests the pool may be given, each of them once
    Nobody,     \* "no request" of a loop that holds none
    Initial,    \* BackoffStrategy._initial
    MaxDelay,   \* BackoffStrategy._max, in the same unit
    FaultLimit  \* bound: how many round trips may fail

ASSUME BackoffAssumption ==
    /\ Initial \in Nat \ {0}
    /\ MaxDelay \in Nat
    /\ Initial <= MaxDelay
    /\ FaultLimit \in Nat
    /\ Nobody \notin Request

VARIABLES
    phase,        \* of a request: it is "new", "queued" or "taken"
    loop,         \* of a worker: where its RunAsync is
    held,         \* the request its DequeueAsync returned
    nextDelay,    \* BackoffStrategy._nextDelay
    initialized,  \* BackoffStrategy._initialized
    left,         \* what is left of its Task.Delay
    slept,        \* history: time it slept since its last claim, up to MaxDelay
    age,          \* history: how long a request was queued while a worker slept
    faults        \* round trips that failed

vars == <<phase, loop, held, nextDelay, initialized, left, slept, age, faults>>
strategy == <<nextDelay, initialized>>
history == <<slept, age>>

Init ==
    /\ phase = [r \in Request |-> "new"]
    /\ loop = [w \in Worker |-> "dequeue"]
    /\ held = [w \in Worker |-> Nobody]
    /\ nextDelay = [w \in Worker |-> Initial]
    /\ initialized = [w \in Worker |-> FALSE]
    /\ left = [w \in Worker |-> 0]
    /\ slept = [w \in Worker |-> 0]
    /\ age = [r \in Request |-> 0]
    /\ faults = 0

Goto(w, l) == loop' = [loop EXCEPT ![w] = l]

----------------------------------------------------------------------------
(* BackoffStrategy *)

\* (Variant: the doubled delay is not capped.)
CappedVariant(d) == d
Capped(d) == IF d < MaxDelay THEN d ELSE MaxDelay

\* The delay NextDelay() returns.
Asked(w) == IF initialized[w] THEN nextDelay[w] ELSE Initial

\* var delay = NextDelay(); await Task.Delay(delay)
BackOff(w) ==
    /\ left' = [left EXCEPT ![w] = Asked(w)]
    /\ nextDelay' = [nextDelay EXCEPT ![w] = Capped(Asked(w) * 2)]
    /\ initialized' = [initialized EXCEPT ![w] = TRUE]
    /\ Goto(w, "delay")

\* (Variant: Reset does nothing.)
ResetVariant(w) == UNCHANGED strategy
Reset(w) ==
    /\ nextDelay' = [nextDelay EXCEPT ![w] = Initial]
    /\ initialized' = [initialized EXCEPT ![w] = FALSE]

----------------------------------------------------------------------------
(* DequeueAsync skips the rows another transaction has locked, an UPDATE    *)
(* waits for them.  The commit unlocks the row, so that several loops may   *)
(* hold one request until one of them claims it.                            *)
Queued == {r \in Request : phase[r] = "queued"}
\* (Variant: the status is not compared.)
UnlockedVariant == {r \in Request : /\ phase[r] # "new"
                                    /\ \A w \in Worker : ~(loop[w] = "locked" /\ held[w] = r)}
Unlocked == {r \in Queued : \A w \in Worker : ~(loop[w] = "locked" /\ held[w] = r)}

Dequeue(w) ==
    /\ loop[w] = "dequeue"
    /\ \E r \in Unlocked : held' = [held EXCEPT ![w] = r]
    /\ Goto(w, "locked")
    /\ UNCHANGED <<phase, strategy, left, history, faults>>

DequeueCommit(w) ==
    /\ loop[w] = "locked"
    /\ Goto(w, "claim")
    /\ UNCHANGED <<phase, held, strategy, left, slept, age, faults>>

\* Nothing to be had: the loop backs off.
DequeueNone(w) ==
    /\ loop[w] = "dequeue"
    /\ Unlocked = {}
    /\ BackOff(w)
    /\ UNCHANGED <<phase, held, slept, age, faults>>

\* An exception of DequeueAsync is logged and treated the same way.
DequeueFails(w) ==
    /\ loop[w] \in {"dequeue", "locked"}
    /\ faults < FaultLimit
    /\ faults' = faults + 1
    /\ BackOff(w)
    /\ held' = [held EXCEPT ![w] = Nobody]
    /\ UNCHANGED <<phase, history>>

----------------------------------------------------------------------------
(* MarkRunningAsync, and the loop's reaction to it. *)
Claim(w) ==
    /\ loop[w] = "claim"
    /\ held[w] \in Queued \cap Unlocked
    /\ phase' = [phase EXCEPT ![held[w]] = "taken"]
    /\ held' = [held EXCEPT ![w] = Nobody]
    /\ Reset(w)
    /\ slept' = [slept EXCEPT ![w] = 0]
    /\ Goto(w, "serve")
    /\ UNCHANGED <<left, age, faults>>

\* A lost claim neither waits nor resets: the loop dequeues again at once.
\* (Variant: it waits.)
LostVariant(w) == BackOff(w)
Lost(w) == Goto(w, "dequeue") /\ UNCHANGED <<strategy, left>>

ClaimLost(w) ==
    /\ loop[w] = "claim"
    /\ held[w] \notin Queued
    /\ held' = [held EXCEPT ![w] = Nobody]
    /\ Lost(w)
    /\ UNCHANGED <<phase, history, faults>>

\* An exception of MarkRunningAsync leaves RunAsync and ends the process; a new
\* one has a new strategy.
ClaimFails(w) ==
    /\ loop[w] = "claim"
    /\ faults < FaultLimit
    /\ faults' = faults + 1
    /\ held' = [held EXCEPT ![w] = Nobody]
    /\ nextDelay' = [nextDelay EXCEPT ![w] = Initial]
    /\ initialized' = [initialized EXCEPT ![w] = FALSE]
    /\ slept' = [slept EXCEPT ![w] = 0]
    /\ Goto(w, "dequeue")
    /\ UNCHANGED <<phase, left, age>>

\* Inference and the report of its outcome, at whatever length.
Finish(w) ==
    /\ loop[w] = "serve"
    /\ Goto(w, "dequeue")
    /\ UNCHANGED <<phase, held, strategy, left, history, faults>>

Wake(w) ==
    /\ loop[w] = "delay"
    /\ left[w] = 0
    /\ Goto(w, "dequeue")
    /\ UNCHANGED <<phase, held, strategy, left, history, faults>>

WorkerStep(w) ==
    \/ Dequeue(w)
    \/ DequeueCommit(w)
    \/ DequeueNone(w)
    \/ Claim(w)
    \/ ClaimLost(w)
    \/ Finish(w)
    \/ Wake(w)

----------------------------------------------------------------------------
(* The rest of the system gives the pool a request (ingestion, escalation,  *)
(* requeue) or takes one that is still queued (cancellation).               *)
Arrive(r) ==
    /\ phase[r] = "new"
    /\ phase' = [phase EXCEPT ![r] = "queued"]
    /\ UNCHANGED <<loop, held, strategy, left, history, faults>>

Withdraw(r) ==
    /\ r \in Queued \cap Unlocked
    /\ phase' = [phase EXCEPT ![r] = "taken"]
    /\ UNCHANGED <<loop, held, strategy, left, history, faults>>

\* Time passes when every loop is in a delay or serving.
Sleeping(w) == loop[w] = "delay"

Tick ==
    /\ \A w \in Worker : loop[w] = "serve" \/ (Sleeping(w) /\ left[w] > 0)
    /\ left' = [w \in Worker |-> IF Sleeping(w) THEN left[w] - 1 ELSE left[w]]
    /\ slept' = [w \in Worker |-> IF Sleeping(w) THEN Capped(slept[w] + 1) ELSE slept[w]]
    /\ age' = [r \in Request |-> IF r \in Queued /\ \E w \in Worker : Sleeping(w)
                                 THEN age[r] + 1 ELSE age[r]]
    /\ UNCHANGED <<phase, loop, held, strategy, faults>>

Next ==
    \/ \E w \in Worker : WorkerStep(w) \/ DequeueFails(w) \/ ClaimFails(w)
    \/ \E r \in Request : Arrive(r) \/ Withdraw(r)
    \/ Tick

Spec == Init /\ [][Next]_vars

\* Loops run, and time passes.
FairSpec == Spec /\ WF_vars(Tick) /\ \A w \in Worker : WF_vars(WorkerStep(w))

----------------------------------------------------------------------------
Loops == {"dequeue", "locked", "claim", "serve", "delay"}

\* Types of the variables.
BackoffTypeOK ==
    /\ phase \in [Request -> {"new", "queued", "taken"}]
    /\ loop \in [Worker -> Loops]
    /\ held \in [Worker -> Request \cup {Nobody}]
    /\ nextDelay \in [Worker -> Nat]
    /\ initialized \in [Worker -> BOOLEAN]
    /\ left \in [Worker -> 0..MaxDelay]
    /\ slept \in [Worker -> 0..MaxDelay]
    /\ age \in [Request -> Nat]
    /\ faults \in 0..FaultLimit

\* The delay a loop will ask for is the time it slept since its last claim, plus
\* the first delay, up to the maximum: a request never waits much longer for a
\* worker than the worker had been waiting for a request.
DelayMatchesIdle ==
    \A w \in Worker : Asked(w) = Capped(slept[w] + left[w] + Initial)

\* A request is not queued for more than one maximal delay while a worker of its
\* pool sleeps, plus one for each round trip that failed: a worker that missed it
\* because another one had it locked left it to that one.
WaitBounded == \A r \in Request : age[r] <= (faults + 1) * MaxDelay

\* A queued request is taken in the end, however long the workers had backed off.
QueuedIsTaken == \A r \in Request : phase[r] = "queued" ~> phase[r] = "taken"
=============================================================================
