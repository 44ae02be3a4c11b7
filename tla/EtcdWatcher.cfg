SPECIFICATION FairWatchSpec
CONSTANTS
  o1 = o1 r1 = r1 r2 = r2
  Own = {o1}
  Remote = {r1}
  MaxIndex = 4
INVARIANTS
  WatchTypeOK CaughtUpExact
PROPERTY KeptVisible
\* the node may have stopped
CHECK_DEADLOCK FALSE
