\* Two batches sharing a line, of different priorities.
SPECIFICATION FairSpec
CONSTANTS
  b1 = b1
  b2 = b2
  r1 = r1
  r2 = r2
  r3 = r3
  w1 = w1
  w2 = w2
  w3 = w3
  h1 = h1
  None = None
  Scheduler = scheduler
  Batch = {b1, b2}
  Request = {r1, r2, r3}
  Worker = {w2}
  Handler = {h1}
  BatchOf <- TwoBatchOf
  LineOf <- TwoLineOf
  HashOf <- TwoHashOf
  PriorityOf <- Urgent
  PoolOf <- AllDedicated
  IdOf <- DeploymentId
  TakeLimit = 10
  Limit <- Deadlines
INVARIANTS
  DuplicateSound
  IngestedOnce
  CompletedHasOutput
PROPERTIES
  DeadlineEscalates
  DuplicatesFinalize
CHECK_DEADLOCK FALSE
