SPECIFICATION FairSpec
CONSTANTS
  m1 = m1
  m2 = m2
  s1 = s1
  None = None
  Msg <- MCMsg
  Remote <- MCRemote
  NoClientTxn <- MCNoClientTxn
  FingerprintFeed = FALSE
  MaxCrashes = 2
INVARIANTS
  Associated
  NoEcho
PROPERTIES
  CertainFailureFinal
  KeepsPromise
  RecoveryCompletes
