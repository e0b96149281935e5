\* A cancellation at any moment.
SPECIFICATION FairSpec
CONSTANTS
  b1 = b1
  b2 = b2
  r1 = r1
  r2 = r2
  r3 = r3
  w1 = w1
  w2 = w2
  w3 = w3
  h1 = h1
  None = None
  Scheduler = scheduler
  Batch = {b1}
  Request = {r1, r2}
  Worker = {w1, w2}
  Handler = {h1}
  BatchOf <- OneBatchOf
  LineOf <- OneLineOf
  HashOf <- OneHashOf
  PriorityOf <- Flat
  PoolOf <- SpotAndDedicated
  IdOf <- DeploymentId
  TakeLimit = 10
  Limit <- Cancels
INVARIANTS
  DedicatedWork
  LastOneFinalizes
PROPERTIES
  CancelledStays
  ImplementsQueue
  EveryBatchFinishes
  FinalizedWhenDone
  EveryBatchFinalizes
CHECK_DEADLOCK FALSE
