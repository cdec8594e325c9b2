SPECIFICATION Spec
CONSTANTS
  m1 = m1
  m2 = m2
  s1 = s1
  None = None
  Msg <- MCMsg
  Remote <- MCRemote
  NoClientTxn <- MCNoClientTxn
  FingerprintFeed = TRUE
  MaxCrashes = 1
INVARIANTS
  ReceiptsAreTrue
PROPERTIES
  PausedWhileUnresolved
