CONSTANTS
  s1 = s1
  s2 = s2
  p1 = p1
  p2 = p2
  p3 = p3
  i1 = i1
  i2 = i2
  Supervisor <- MCSupervisor
  Pid <- MCPid
  Identity <- MCIdentity
  None = None
SPECIFICATION Spec
INVARIANTS
  OneOwner
  OnlyItsOwn
  StoppedHolds
PROPERTIES
  ServiceReturns
