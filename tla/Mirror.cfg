SPECIFICATION Spec
CONSTANTS
  a = a
  b = b
  None = None
  Bytes = Bytes
  File <- MCFile
  Text <- MCEdited
  Last = 3
  MaxChanges = 4
INVARIANTS
  OneEventPerItem
  RecordedIsShown
PROPERTIES
  BranchNoticed
  InOrder
