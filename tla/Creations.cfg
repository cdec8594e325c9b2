SPECIFICATION FairSpec
CONSTANTS
  n1 = n1
  n2 = n2
  None = None
  Command <- MCCommand
  MaxCrashes = 2
INVARIANTS
  CreationIsRecorded
  CreatedIsTrue
PROPERTIES
  DoneIsFinal
  CreationCompletes
