CONSTANTS
  h1 = h1
  h2 = h2
  a = a
  b = b
  c = c
  d = d
  Rendered <- MCRendered
  Plain <- MCPlain
  MaxParts = 2
  MaxChanges = 4
  Tombstone = Tombstone
  None = None
SPECIFICATION Spec
INVARIANTS
  OneEventPerPart
  OwnReplyIsWhole
  DeliveredIsShown
PROPERTIES
  PartsInOrder
  Resumes
