CONSTANTS
  MaxKey = 2
  MaxValue = 3
  Escaped <- MCEscaped
SPECIFICATION AnnounceSpec
CHECK_DEADLOCK FALSE
INVARIANTS ArrivesIfPortable KeyUnderstood
