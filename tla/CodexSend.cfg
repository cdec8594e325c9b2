SPECIFICATION FairSpec
CONSTANTS
  t1 = t1
  c1 = c1
  c2 = c2
  None = None
  Txn <- MCTxn
  Call <- MCCall
INVARIANTS
  SubmitOnce
  AcceptedIsInRollout
PROPERTIES
  NotSentIsTrue
  KeepsPromise
  ReplaySettles
