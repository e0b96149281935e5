\* Two tabs on one batch: five clicks, two faults.
SPECIFICATION FairSpec
CONSTANTS
  t1 = t1
  t2 = t2
  b1 = b1
  None = None
  Tab = {t1, t2}
  Batch = {b1}
  ClickLimit = 5
  FaultLimit = 2
INVARIANTS
  PortalTypeOK
  ToastsAreTrue
PROPERTIES
  RefreshCatchesUp
\* The user stops after so many clicks.
CHECK_DEADLOCK FALSE
