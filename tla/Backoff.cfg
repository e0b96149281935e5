\* Two workers, two requests, delays 1, 2, 4, 5, one failing round trip.
SPECIFICATION FairSpec
CONSTANTS
  w1 = w1
  w2 = w2
  r1 = r1
  r2 = r2
  Nobody = Nobody
  Worker = {w1, w2}
  Request = {r1, r2}
  Initial = 1
  MaxDelay = 5
  FaultLimit = 1
INVARIANTS
  BackoffTypeOK
  DelayMatchesIdle
  WaitBounded
PROPERTIES
  QueuedIsTaken
