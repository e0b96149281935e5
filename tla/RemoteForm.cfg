\* Four inputs: one checked by the server, one that repeats it, one hidden and
\* shown whose rule has no method, one added late; a lost request.
SPECIFICATION FairSpec
CONSTANTS
  Undefined = Undefined
  Field = {"mail", "code", "paper", "note"}
  Input <- FourForm
  Values <- FourValues
  Below <- FourBelow
  Late = {"note"}
  Hideable = {"mail", "code", "paper"}
  Box <- FourBoxes
  HasBypass = TRUE
  HasSummary = TRUE
  SkipAttach = {FALSE}
  EditLimit = 3
  LostLimit = 1
INVARIANTS
  ValidationTypeOK
  SentIsValid
  CountInStep
  RefusalTold
  ErrorIsLive
PROPERTIES
  ClickSettles
\* A form that is sent leaves the page.
CHECK_DEADLOCK FALSE
