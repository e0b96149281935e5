--------------------------- MODULE MCBatchSystem ---------------------------
(***************************************************************************)
(* Instances of BatchSystem for TLC: the input files, the pods and the     *)
(* budgets of environment events the configurations choose from.           *)
(***************************************************************************)
EXTENDS BatchProperties, TLC

CONSTANTS b1, b2, r1, r2, r3, w1, w2, w3, h1

\* One batch of two lines.
OneBatchOf == r1 :> b1 @@ r2 :> b1
OneLineOf == r1 :> 1 @@ r2 :> 2
OneHashOf == r1 :> "x" @@ r2 :> "y"

\* Two batches; the second repeats a line of the first.
TwoBatchOf == r1 :> b1 @@ r2 :> b2 @@ r3 :> b2
TwoLineOf == r1 :> 1 @@ r2 :> 1 @@ r3 :> 2
TwoHashOf == r1 :> "x" @@ r2 :> "x" @@ r3 :> "y"

Flat == [b \in Batch |-> 1]
Urgent == [b \in Batch |-> IF b = b1 THEN 1 ELSE 10]

SpotAndDedicated == [w \in Worker |-> IF w = w1 THEN Spot ELSE Dedicated]
DeploymentId == [w \in Worker |-> PoolOf[w]]
AllDedicated == [w \in Worker |-> Dedicated]

Allow(kinds) == [k \in EventKind |-> IF k = "upload" THEN Cardinality(Batch)
                                     ELSE IF k \in kinds THEN 1 ELSE 0]

Calm == Allow({})
Deadlines == Allow({"deadline", "abort"})
Lost == Allow({"lost"})
Cancels == Allow({"cancel", "deadline"})
Rough == Allow({"fault", "crash", "retry", "hangup", "lost"})
Retries == Allow({"fault", "hangup", "retry"})
============================================================================
