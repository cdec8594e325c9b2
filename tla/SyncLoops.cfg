SPECIFICATION FairSpec
CONSTANTS
  None = None
  Lane <- MCLane
INVARIANTS
  AskedIsPending
  QuietWhenOff
  ConnectedIsTrue
PROPERTIES
  DisconnectReturns
  AskedIsServed
  CommandRuns
