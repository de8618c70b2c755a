\* One part of the console at a time; two tabs of one browser, a session
\* that lasts two ticks.  Every part stops when its bounds are used up.
SPECIFICATION Spec
CONSTANTS
  Tab = {"t1", "t2"}
  TTL = 2
  MaxTime = 2
  MaxRows = 3
  MaxMoney = 2
  MaxLost = 1
  Engines <- Consoles
  Loads <- Resources
  Pages <- Screens
INVARIANTS OneRowPerBoot FailsForAReason CheckIsConclusive
  CommitmentShownIsUsed UpToDate
PROPERTIES ReplayMovesNothing NeverBack OldNeverTurnsNew
CHECK_DEADLOCK FALSE
