SPECIFICATION LaneSpec
CONSTANTS
  RemoteChat <- MCRemote
  LocalChat <- MCLocal
  Allowed <- MCAllowed
  Limit = 1
  Time <- MCTime
  Task = 2
  Bound = 2
  None = None
INVARIANTS
  ActiveIsCombinedTop
  UnchangedHidesNothing
PROPERTIES
  InFileOrder
  CaughtUp
  SilentYields
