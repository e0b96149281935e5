--------------------------- MODULE Backoff_proofs ---------------------------
(***************************************************************************)
(* Delays and waiting times of the pull loops, for any number of workers,  *)
(* requests, failing round trips and any pair of delays.                   *)
(***************************************************************************)
EXTENDS Backoff, TLAPS

\* While a request is queued and no loop is about to claim it, every sleeping
\* loop wakes up before the request has waited too long.
InHand(r) == \E w \in Worker : loop[w] \in {"locked", "claim"} /\ held[w] = r

Budget == (faults + 1) * MaxDelay

WaitInv ==
    \A r \in Queued : InHand(r) \/ \A w \in Worker :
                                      Sleeping(w) => age[r] + left[w] <= Budget

\* The invariant: left is 0 outside a delay, so a new delay starts from what was
\* slept; a new request has not waited.
BackoffInv ==
    /\ BackoffTypeOK
    /\ DelayMatchesIdle
    /\ WaitBounded
    /\ WaitInv
    /\ \A w \in Worker : ~Sleeping(w) => left[w] = 0
    /\ \A r \in Request : phase[r] = "new" => age[r] = 0

\* Capping a delay, for the numbers that occur.
LEMMA CappedFacts ==
    ASSUME NEW d \in Nat
    PROVE  /\ Capped(d) \in 0..MaxDelay
           /\ Capped(d) <= d
           /\ d <= MaxDelay => Capped(d) = d
           /\ d >= MaxDelay => Capped(d) = MaxDelay
BY BackoffAssumption DEF Capped

\* Doubling the capped sum of slept time and first delay gives the capped sum
\* after the delay: the arithmetic of the strategy.
LEMMA Doubling ==
    ASSUME NEW s \in Nat
    PROVE  Capped(Capped(s + Initial) * 2) = Capped(s + Capped(s + Initial) + Initial)
BY BackoffAssumption DEF Capped

\* The budget is a number and grows by a maximal delay with each fault.
LEMMA BudgetFacts ==
    ASSUME NEW f \in Nat
    PROVE  /\ (f + 1) * MaxDelay \in Nat
           /\ (f + 1) * MaxDelay >= MaxDelay
           /\ (f + 1 + 1) * MaxDelay = (f + 1) * MaxDelay + MaxDelay
BY BackoffAssumption

LEMMA BackoffStart == Init => BackoffInv
<1> SUFFICES ASSUME Init PROVE BackoffInv
  OBVIOUS
<1>1. BackoffTypeOK
  BY BackoffAssumption DEF Init, BackoffTypeOK, Loops
<1>2. DelayMatchesIdle
  <2>1. ASSUME NEW w \in Worker
        PROVE  Asked(w) = Initial /\ slept[w] + left[w] + Initial = Initial
    BY BackoffAssumption DEF Init, Asked
  <2> QED
    BY <2>1, CappedFacts, BackoffAssumption DEF DelayMatchesIdle
<1>3. WaitBounded
  BY BackoffAssumption, BudgetFacts DEF Init, WaitBounded
<1>4. WaitInv
  BY DEF Init, WaitInv, Queued
<1> QED
  BY <1>1, <1>2, <1>3, <1>4 DEF BackoffInv, Init

----------------------------------------------------------------------------
\* A loop that asks for a delay: types and the invariant on delays.
LEMMA BacksOff ==
    ASSUME BackoffInv, NEW w \in Worker, ~Sleeping(w), BackOff(w),
           slept' = slept
    PROVE  /\ loop' \in [Worker -> Loops]
           /\ nextDelay' \in [Worker -> Nat]
           /\ initialized' \in [Worker -> BOOLEAN]
           /\ left' \in [Worker -> 0..MaxDelay]
           /\ DelayMatchesIdle'
           /\ \A v \in Worker : ~Sleeping(v)' => left'[v] = 0
<1>1. Asked(w) = Capped(slept[w] + Initial)
  BY BackoffAssumption DEF BackoffInv, BackoffTypeOK, DelayMatchesIdle
<1>2. slept[w] + Initial \in Nat /\ Asked(w) \in 0..MaxDelay
  BY <1>1, CappedFacts, BackoffAssumption DEF BackoffInv, BackoffTypeOK
<1>3. Capped(Asked(w) * 2) = Capped(slept[w] + Asked(w) + Initial)
  BY <1>1, Doubling DEF BackoffInv, BackoffTypeOK
<1>4. Capped(Asked(w) * 2) \in Nat
  BY <1>2, CappedFacts, BackoffAssumption
<1>5. /\ loop' \in [Worker -> Loops]
      /\ nextDelay' \in [Worker -> Nat]
      /\ initialized' \in [Worker -> BOOLEAN]
      /\ left' \in [Worker -> 0..MaxDelay]
  BY <1>2, <1>4 DEF BackOff, BackoffInv, BackoffTypeOK, Loops, Goto
<1>6. ASSUME NEW v \in Worker
      PROVE  Asked(v)' = Capped(slept'[v] + left'[v] + Initial)
  <2>1. CASE v = w
    BY <2>1, <1>3 DEF BackOff, Asked, BackoffInv, BackoffTypeOK
  <2>2. CASE v # w
    BY <2>2 DEF BackOff, Asked, BackoffInv, BackoffTypeOK, DelayMatchesIdle
  <2> QED
    BY <2>1, <2>2
<1>7. DelayMatchesIdle'
  BY <1>6 DEF DelayMatchesIdle, Capped
<1>8. \A v \in Worker : ~Sleeping(v)' => left'[v] = 0
  BY DEF BackOff, BackoffInv, BackoffTypeOK, Sleeping, Goto
<1> QED
  BY <1>5, <1>7, <1>8

\* A loop that stays awake leaves the strategy alone and keeps no request from
\* the others.
LEMMA StaysAwake ==
    ASSUME BackoffInv, NEW w \in Worker, ~Sleeping(w)', left[w] = 0,
           UNCHANGED <<strategy, left, slept>>,
           \A v \in Worker : v # w => loop'[v] = loop[v]
    PROVE  /\ DelayMatchesIdle'
           /\ \A v \in Worker : ~Sleeping(v)' => left'[v] = 0
           /\ \A v \in Worker : Sleeping(v)' => Sleeping(v)
<1>1. DelayMatchesIdle'
  BY DEF BackoffInv, DelayMatchesIdle, Asked, strategy, Capped
<1>2. \A v \in Worker : ~Sleeping(v)' => left'[v] = 0
  BY DEF BackoffInv, Sleeping
<1>3. \A v \in Worker : Sleeping(v)' => Sleeping(v)
  BY DEF Sleeping
<1> QED
  BY <1>1, <1>2, <1>3

\* The strategy of a new process, or after a claim.
LEMMA StartsAnew ==
    ASSUME BackoffInv, NEW w \in Worker, ~Sleeping(w), ~Sleeping(w)',
           nextDelay' = [nextDelay EXCEPT ![w] = Initial],
           initialized' = [initialized EXCEPT ![w] = FALSE],
           slept' = [slept EXCEPT ![w] = 0],
           left' = left,
           \A v \in Worker : v # w => loop'[v] = loop[v]
    PROVE  /\ nextDelay' \in [Worker -> Nat]
           /\ initialized' \in [Worker -> BOOLEAN]
           /\ slept' \in [Worker -> 0..MaxDelay]
           /\ DelayMatchesIdle'
           /\ \A v \in Worker : ~Sleeping(v)' => left'[v] = 0
           /\ \A v \in Worker : Sleeping(v)' => Sleeping(v)
<1>1. /\ nextDelay' \in [Worker -> Nat]
      /\ initialized' \in [Worker -> BOOLEAN]
      /\ slept' \in [Worker -> 0..MaxDelay]
  BY BackoffAssumption DEF BackoffInv, BackoffTypeOK
<1>2. ASSUME NEW v \in Worker
      PROVE  Asked(v)' = Capped(slept'[v] + left'[v] + Initial)
  <2>1. CASE v = w
    <3>1. Asked(v)' = Initial /\ slept'[v] + left'[v] + Initial = Initial
      BY <2>1, BackoffAssumption DEF Asked, BackoffInv, BackoffTypeOK
    <3> QED
      BY <3>1, CappedFacts, BackoffAssumption
  <2>2. CASE v # w
    BY <2>2 DEF Asked, BackoffInv, BackoffTypeOK, DelayMatchesIdle
  <2> QED
    BY <2>1, <2>2
<1>3. DelayMatchesIdle'
  BY <1>2 DEF DelayMatchesIdle, Capped
<1>4. \A v \in Worker : ~Sleeping(v)' => left'[v] = 0
  BY DEF BackoffInv, Sleeping
<1>5. \A v \in Worker : Sleeping(v)' => Sleeping(v)
  BY DEF Sleeping
<1> QED
  BY <1>1, <1>3, <1>4, <1>5

\* A request in the hand of another loop stays there.
LEMMA StaysInHand ==
    ASSUME NEW w \in Worker, NEW r \in Request, InHand(r),
           ~(loop[w] \in {"locked", "claim"} /\ held[w] = r),
           \A v \in Worker : v # w => loop'[v] = loop[v] /\ held'[v] = held[v]
    PROVE  InHand(r)'
BY DEF InHand

\* Waiting times when no delay begins, no request arrives and no time passes.
LEMMA NobodyWaitsMore ==
    ASSUME BackoffInv, UNCHANGED <<left, age, faults>>,
           \A v \in Worker : Sleeping(v)' => Sleeping(v),
           Queued' \subseteq Queued,
           \A r \in Queued' : InHand(r) => InHand(r)'
    PROVE  WaitInv' /\ WaitBounded'
<1>1. WaitBounded'
  BY DEF BackoffInv, WaitBounded
<1>2. ASSUME NEW r \in Queued', ~InHand(r)', NEW v \in Worker, Sleeping(v)'
      PROVE  age'[r] + left'[v] <= Budget'
  <2>1. r \in Queued /\ ~InHand(r) /\ Sleeping(v)
    BY <1>2
  <2> QED
    BY <2>1 DEF BackoffInv, WaitInv, Budget
<1> QED
  BY <1>1, <1>2 DEF WaitInv

\* A round trip that fails pays for one more delay.
LEMMA FaultPays ==
    ASSUME BackoffInv, age' = age, faults' = faults + 1, faults' \in 0..FaultLimit,
           left' \in [Worker -> 0..MaxDelay], Queued' = Queued
    PROVE  WaitInv' /\ WaitBounded'
<1>1. Budget' = Budget + MaxDelay /\ Budget \in Nat
  BY BudgetFacts, BackoffAssumption DEF Budget, BackoffInv, BackoffTypeOK
<1>2. \A r \in Request : age[r] \in Nat /\ age[r] <= Budget
  BY DEF BackoffInv, BackoffTypeOK, WaitBounded, Budget
<1>3. ASSUME NEW r \in Request, NEW v \in Worker
      PROVE  age'[r] + left'[v] <= Budget' /\ age'[r] <= Budget'
  <2>1. left'[v] \in 0..MaxDelay /\ age'[r] = age[r]
    OBVIOUS
  <2> QED
    BY <1>1, <1>2, <2>1, BackoffAssumption
<1>4. \A r \in Request : age'[r] <= Budget'
  BY <1>1, <1>2, BackoffAssumption
<1> QED
  BY <1>3, <1>4 DEF WaitInv, WaitBounded, Budget, Queued

----------------------------------------------------------------------------
\* One step of a loop that round trips do not fail.
LEMMA LoopStep ==
    ASSUME BackoffInv, NEW w \in Worker, WorkerStep(w)
    PROVE  BackoffInv'
<1> USE BackoffAssumption
<1>1. CASE Dequeue(w)
  <2>1. PICK r \in Unlocked : held' = [held EXCEPT ![w] = r]
    BY <1>1 DEF Dequeue
  <2>2. BackoffTypeOK' /\ left[w] = 0 /\ ~Sleeping(w)'
    BY <1>1, <2>1 DEF Dequeue, BackoffInv, BackoffTypeOK, Loops, Goto, strategy, history,
                      Unlocked, Queued, Sleeping
  <2>3. /\ DelayMatchesIdle'
        /\ \A v \in Worker : ~Sleeping(v)' => left'[v] = 0
        /\ \A v \in Worker : Sleeping(v)' => Sleeping(v)
    BY <1>1, <2>2, StaysAwake DEF Dequeue, BackoffInv, BackoffTypeOK, Goto, history
  <2>4. Queued' = Queued /\ \A q \in Queued : InHand(q) => InHand(q)'
    BY <1>1, <2>1, StaysInHand DEF Dequeue, BackoffInv, BackoffTypeOK, Goto, Queued
  <2>5. WaitInv' /\ WaitBounded'
    BY <1>1, <2>3, <2>4, NobodyWaitsMore DEF Dequeue, history
  <2> QED
    BY <1>1, <2>2, <2>3, <2>5 DEF Dequeue, BackoffInv, history
<1>2. CASE DequeueCommit(w)
  <2>1. BackoffTypeOK' /\ left[w] = 0 /\ ~Sleeping(w)'
    BY <1>2 DEF DequeueCommit, BackoffInv, BackoffTypeOK, Loops, Goto, strategy, Sleeping
  <2>2. /\ DelayMatchesIdle'
        /\ \A v \in Worker : ~Sleeping(v)' => left'[v] = 0
        /\ \A v \in Worker : Sleeping(v)' => Sleeping(v)
    BY <1>2, <2>1, StaysAwake DEF DequeueCommit, BackoffInv, BackoffTypeOK, Goto
  <2>3. Queued' = Queued /\ \A q \in Queued : InHand(q) => InHand(q)'
    BY <1>2 DEF DequeueCommit, BackoffInv, BackoffTypeOK, Goto, Queued, InHand
  <2>4. WaitInv' /\ WaitBounded'
    BY <1>2, <2>2, <2>3, NobodyWaitsMore DEF DequeueCommit
  <2> QED
    BY <1>2, <2>1, <2>2, <2>4 DEF DequeueCommit, BackoffInv
<1>3. CASE DequeueNone(w)
  <2>1. /\ loop' \in [Worker -> Loops]
        /\ nextDelay' \in [Worker -> Nat]
        /\ initialized' \in [Worker -> BOOLEAN]
        /\ left' \in [Worker -> 0..MaxDelay]
        /\ DelayMatchesIdle'
        /\ \A v \in Worker : ~Sleeping(v)' => left'[v] = 0
    BY <1>3, BacksOff DEF DequeueNone, Sleeping
  <2>2. BackoffTypeOK'
    BY <1>3, <2>1 DEF DequeueNone, BackoffInv, BackoffTypeOK
  <2>3. ASSUME NEW r \in Queued'
        PROVE  InHand(r)'
    <3>1. r \in Queued
      BY <1>3 DEF DequeueNone, Queued
    <3>2. PICK v \in Worker : loop[v] = "locked" /\ held[v] = r
      BY <1>3, <3>1 DEF DequeueNone, Unlocked
    <3>3. v # w
      BY <1>3, <3>2 DEF DequeueNone
    <3> QED
      BY <1>3, <3>2, <3>3 DEF DequeueNone, InHand, BackOff, Goto, BackoffInv, BackoffTypeOK
  <2>4. WaitInv' /\ WaitBounded'
    BY <1>3, <2>3 DEF DequeueNone, WaitInv, WaitBounded, BackoffInv
  <2> QED
    BY <1>3, <2>1, <2>2, <2>4 DEF DequeueNone, BackoffInv
<1>4. CASE Claim(w)
  <2>1. ~Sleeping(w) /\ ~Sleeping(w)' /\ \A v \in Worker : v # w => loop'[v] = loop[v]
    BY <1>4 DEF Claim, Sleeping, Goto, BackoffInv, BackoffTypeOK
  <2>2. /\ nextDelay' \in [Worker -> Nat]
        /\ initialized' \in [Worker -> BOOLEAN]
        /\ slept' \in [Worker -> 0..MaxDelay]
        /\ DelayMatchesIdle'
        /\ \A v \in Worker : ~Sleeping(v)' => left'[v] = 0
        /\ \A v \in Worker : Sleeping(v)' => Sleeping(v)
    BY <1>4, <2>1, StartsAnew DEF Claim, Reset
  <2>3. BackoffTypeOK'
    BY <1>4, <2>2 DEF Claim, BackoffInv, BackoffTypeOK, Loops, Goto
  <2>4. Queued' = Queued \ {held[w]}
    BY <1>4 DEF Claim, Queued, BackoffInv, BackoffTypeOK
  <2>5. \A q \in Queued' : InHand(q) => InHand(q)'
    BY <1>4, <2>4, StaysInHand DEF Claim, Goto, BackoffInv, BackoffTypeOK, Queued
  <2>6. WaitInv' /\ WaitBounded'
    BY <1>4, <2>2, <2>4, <2>5, NobodyWaitsMore DEF Claim
  <2>7. \A r \in Request : phase'[r] = "new" => phase[r] = "new"
    BY <1>4 DEF Claim, BackoffInv, BackoffTypeOK
  <2> QED
    BY <1>4, <2>2, <2>3, <2>6, <2>7 DEF Claim, BackoffInv
<1>5. CASE ClaimLost(w)
  <2>1. BackoffTypeOK' /\ left[w] = 0 /\ ~Sleeping(w)'
    BY <1>5 DEF ClaimLost, Lost, BackoffInv, BackoffTypeOK, Loops, Goto, strategy, history,
                Sleeping
  <2>2. /\ DelayMatchesIdle'
        /\ \A v \in Worker : ~Sleeping(v)' => left'[v] = 0
        /\ \A v \in Worker : Sleeping(v)' => Sleeping(v)
    BY <1>5, <2>1, StaysAwake
       DEF ClaimLost, Lost, BackoffInv, BackoffTypeOK, Goto, history
  <2>3. Queued' = Queued /\ \A q \in Queued : InHand(q) => InHand(q)'
    BY <1>5, StaysInHand DEF ClaimLost, Lost, BackoffInv, BackoffTypeOK, Goto, Queued
  <2>4. WaitInv' /\ WaitBounded'
    BY <1>5, <2>2, <2>3, NobodyWaitsMore DEF ClaimLost, Lost, history
  <2> QED
    BY <1>5, <2>1, <2>2, <2>4 DEF ClaimLost, BackoffInv, history
<1>6. CASE Finish(w) \/ Wake(w)
  <2>1. BackoffTypeOK' /\ left[w] = 0 /\ ~Sleeping(w)'
    BY <1>6 DEF Finish, Wake, BackoffInv, BackoffTypeOK, Loops, Goto, strategy, history,
                Sleeping
  <2>2. /\ DelayMatchesIdle'
        /\ \A v \in Worker : ~Sleeping(v)' => left'[v] = 0
        /\ \A v \in Worker : Sleeping(v)' => Sleeping(v)
    BY <1>6, <2>1, StaysAwake
       DEF Finish, Wake, BackoffInv, BackoffTypeOK, Goto, history
  <2>3. Queued' = Queued /\ \A q \in Queued : InHand(q) => InHand(q)'
    BY <1>6 DEF Finish, Wake, BackoffInv, BackoffTypeOK, Goto, Queued, InHand
  <2>4. WaitInv' /\ WaitBounded'
    BY <1>6, <2>2, <2>3, NobodyWaitsMore DEF Finish, Wake, history
  <2> QED
    BY <1>6, <2>1, <2>2, <2>4 DEF Finish, Wake, BackoffInv, history
<1> QED
  BY <1>1, <1>2, <1>3, <1>4, <1>5, <1>6 DEF WorkerStep

----------------------------------------------------------------------------
\* A round trip that fails.
LEMMA FaultStep ==
    ASSUME BackoffInv, NEW w \in Worker, DequeueFails(w) \/ ClaimFails(w)
    PROVE  BackoffInv'
<1> USE BackoffAssumption
<1>1. CASE DequeueFails(w)
  <2>1. /\ loop' \in [Worker -> Loops]
        /\ nextDelay' \in [Worker -> Nat]
        /\ initialized' \in [Worker -> BOOLEAN]
        /\ left' \in [Worker -> 0..MaxDelay]
        /\ DelayMatchesIdle'
        /\ \A v \in Worker : ~Sleeping(v)' => left'[v] = 0
    BY <1>1, BacksOff DEF DequeueFails, Sleeping, history
  <2>2. BackoffTypeOK'
    <3>1. faults' \in 0..FaultLimit /\ held' \in [Worker -> Request \cup {Nobody}]
      BY <1>1 DEF DequeueFails, BackoffInv, BackoffTypeOK
    <3>2. phase' = phase /\ slept' = slept /\ age' = age
      BY <1>1 DEF DequeueFails, history
    <3> QED
      BY <2>1, <3>1, <3>2 DEF BackoffInv, BackoffTypeOK
  <2>3. WaitInv' /\ WaitBounded'
    BY <1>1, <2>1, <2>2, FaultPays DEF DequeueFails, Queued, history, BackoffTypeOK
  <2> QED
    BY <1>1, <2>1, <2>2, <2>3 DEF DequeueFails, BackoffInv, history
<1>2. CASE ClaimFails(w)
  <2>1. ~Sleeping(w) /\ ~Sleeping(w)' /\ \A v \in Worker : v # w => loop'[v] = loop[v]
    BY <1>2 DEF ClaimFails, Sleeping, Goto, BackoffInv, BackoffTypeOK
  <2>2. /\ nextDelay' \in [Worker -> Nat]
        /\ initialized' \in [Worker -> BOOLEAN]
        /\ slept' \in [Worker -> 0..MaxDelay]
        /\ DelayMatchesIdle'
        /\ \A v \in Worker : ~Sleeping(v)' => left'[v] = 0
    BY <1>2, <2>1, StartsAnew DEF ClaimFails
  <2>3. BackoffTypeOK'
    BY <1>2, <2>2 DEF ClaimFails, BackoffInv, BackoffTypeOK, Loops, Goto
  <2>4. WaitInv' /\ WaitBounded'
    BY <1>2, <2>3, FaultPays DEF ClaimFails, Queued, BackoffTypeOK
  <2> QED
    BY <1>2, <2>2, <2>3, <2>4 DEF ClaimFails, BackoffInv
<1> QED
  BY <1>1, <1>2

\* A request comes or goes.
LEMMA QueueStep ==
    ASSUME BackoffInv, NEW r \in Request, Arrive(r) \/ Withdraw(r)
    PROVE  BackoffInv'
<1>1. UNCHANGED <<loop, held, strategy, left, history, faults>>
  BY DEF Arrive, Withdraw
<1>2. BackoffTypeOK'
  BY <1>1 DEF Arrive, Withdraw, BackoffInv, BackoffTypeOK, strategy, history
<1>3. DelayMatchesIdle' /\ WaitBounded' /\ \A v \in Worker : ~Sleeping(v)' => left'[v] = 0
  BY <1>1 DEF BackoffInv, DelayMatchesIdle, WaitBounded, Asked, Capped, Sleeping, strategy,
              history
<1>4. ASSUME NEW q \in Queued', ~InHand(q)', NEW v \in Worker, Sleeping(v)'
      PROVE  age'[q] + left'[v] <= Budget'
  <2>1. CASE q \in Queued
    BY <1>1, <1>4, <2>1 DEF BackoffInv, WaitInv, InHand, Sleeping, Budget, history
  <2>2. CASE q \notin Queued
    <3>1. q \in Request /\ phase[q] = "new"
      BY <2>2 DEF Arrive, Withdraw, Queued, BackoffInv, BackoffTypeOK
    <3>2. age[q] = 0 /\ left[v] <= MaxDelay /\ left[v] \in Nat
      BY <3>1 DEF BackoffInv, BackoffTypeOK
    <3> QED
      BY <1>1, <3>2, BudgetFacts, BackoffAssumption
         DEF Budget, history, BackoffInv, BackoffTypeOK
  <2> QED
    BY <2>1, <2>2
<1>5. WaitInv'
  BY <1>4 DEF WaitInv
<1>6. \A q \in Request : phase'[q] = "new" => age'[q] = 0
  BY <1>1 DEF Arrive, Withdraw, BackoffInv, BackoffTypeOK, history
<1> QED
  BY <1>2, <1>3, <1>5, <1>6 DEF BackoffInv

\* Time passes: what a delay loses, the waiting requests gain.
LEMMA TickStep ==
    ASSUME BackoffInv, Tick
    PROVE  BackoffInv'
<1> USE BackoffAssumption
<1>1. BackoffTypeOK'
  BY CappedFacts DEF Tick, BackoffInv, BackoffTypeOK, strategy, Sleeping
<1>2. ASSUME NEW w \in Worker
      PROVE  Asked(w)' = Capped(slept'[w] + left'[w] + Initial)
  <2>1. Asked(w)' = Asked(w) /\ Asked(w) = Capped(slept[w] + left[w] + Initial)
    BY DEF Tick, BackoffInv, DelayMatchesIdle, Asked, strategy
  <2>2. CASE ~Sleeping(w)
    BY <2>1, <2>2 DEF Tick, BackoffInv, BackoffTypeOK
  <2>3. CASE Sleeping(w)
    <3>1. /\ left[w] \in 1..MaxDelay /\ left'[w] = left[w] - 1
          /\ slept[w] \in 0..MaxDelay /\ slept'[w] = Capped(slept[w] + 1)
      BY <2>3 DEF Tick, BackoffInv, BackoffTypeOK, Sleeping
    <3> QED
      BY <2>1, <3>1 DEF Capped
  <2> QED
    BY <2>2, <2>3
<1>3. DelayMatchesIdle'
  BY <1>2 DEF DelayMatchesIdle, Capped
<1>4. /\ \A v \in Worker : ~Sleeping(v)' => left'[v] = 0
      /\ \A r \in Request : phase'[r] = "new" => age'[r] = 0
  BY DEF Tick, BackoffInv, BackoffTypeOK, Sleeping, Queued
<1>5. \A v \in Worker : Sleeping(v)' => Sleeping(v) /\ left[v] > 0
  BY DEF Tick, Sleeping
<1>6. Budget' = Budget /\ Budget \in Nat
  BY BudgetFacts DEF Tick, Budget, BackoffInv, BackoffTypeOK
<1>7. ASSUME NEW r \in Queued, NEW v \in Worker, Sleeping(v)
      PROVE  age'[r] = age[r] + 1 /\ left'[v] = left[v] - 1 /\ age[r] + left[v] <= Budget
  <2>1. ~InHand(r)
    BY DEF Tick, InHand, Sleeping
  <2> QED
    BY <1>7, <2>1 DEF Tick, BackoffInv, WaitInv, Queued
<1>8. WaitInv'
  <2>1. Queued' = Queued
    BY DEF Tick, Queued
  <2>2. ASSUME NEW r \in Queued, NEW v \in Worker, Sleeping(v)'
        PROVE  age'[r] + left'[v] <= Budget'
    <3>1. age[r] \in Nat /\ left[v] \in Nat
      BY DEF BackoffInv, BackoffTypeOK, Queued
    <3> QED
      BY <2>2, <1>5, <1>6, <1>7, <3>1
  <2> QED
    BY <2>1, <2>2 DEF WaitInv
<1>9. ASSUME NEW r \in Request
      PROVE  age'[r] <= Budget'
  <2>1. age[r] \in Nat /\ age[r] <= Budget
    BY DEF BackoffInv, BackoffTypeOK, WaitBounded, Budget
  <2>2. CASE r \in Queued /\ \E v \in Worker : Sleeping(v)
    <3>1. PICK v \in Worker : Sleeping(v)
      BY <2>2
    <3>2. left[v] \in Nat /\ left[v] > 0
      BY <3>1 DEF Tick, BackoffInv, BackoffTypeOK, Sleeping
    <3> QED
      BY <2>1, <2>2, <3>1, <3>2, <1>6, <1>7
  <2>3. CASE ~(r \in Queued /\ \E v \in Worker : Sleeping(v))
    BY <2>1, <2>3, <1>6 DEF Tick
  <2> QED
    BY <2>2, <2>3
<1> QED
  BY <1>1, <1>3, <1>4, <1>8, <1>9 DEF BackoffInv, WaitBounded, Budget

----------------------------------------------------------------------------
LEMMA BackoffStep == BackoffInv /\ [Next]_vars => BackoffInv'
<1> SUFFICES ASSUME BackoffInv, [Next]_vars PROVE BackoffInv'
  OBVIOUS
<1>1. CASE Next
  BY <1>1, LoopStep, FaultStep, QueueStep, TickStep DEF Next
<1>2. CASE UNCHANGED vars
  <2>1. /\ phase' = phase /\ loop' = loop /\ held' = held /\ nextDelay' = nextDelay
        /\ initialized' = initialized /\ left' = left /\ slept' = slept
        /\ age' = age /\ faults' = faults
    BY <1>2 DEF vars
  <2> QED
    BY <2>1 DEF BackoffInv, BackoffTypeOK, DelayMatchesIdle, Asked, Capped, WaitBounded,
                WaitInv, InHand, Queued, Sleeping, Budget
<1> QED
  BY <1>1, <1>2

LEMMA BackoffAlways == Spec => []BackoffInv
BY BackoffStart, BackoffStep, PTL DEF Spec

\* However often the delay is doubled, a pull loop never sleeps longer than the
\* maximal delay, and it is in one of RunAsync's places.
THEOREM BackoffTypes == Spec => []BackoffTypeOK
<1>1. BackoffInv => BackoffTypeOK
  BY DEF BackoffInv
<1> QED
  BY <1>1, BackoffAlways, PTL

\* BackoffStrategy: whatever the two delays, a loop asks for exactly the time it
\* has slept since its last claim plus the first delay, up to the maximum.
THEOREM DelaysMatchIdleTime == Spec => []DelayMatchesIdle
<1>1. BackoffInv => DelayMatchesIdle
  BY DEF BackoffInv
<1> QED
  BY <1>1, BackoffAlways, PTL

\* WorkerPullLoop: for any number of workers and requests, a request is queued for
\* one maximal delay at most while a worker sleeps, and one more for each failure.
THEOREM WaitsAreBounded == Spec => []WaitBounded
<1>1. BackoffInv => WaitBounded
  BY DEF BackoffInv
<1> QED
  BY <1>1, BackoffAlways, PTL
============================================================================
