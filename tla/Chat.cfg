SPECIFICATION Spec
CONSTANTS
  c1 = c1
  c2 = c2
  r1 = r1
  r2 = r2
  None = None
  Chats <- MCChats
  Ids <- MCIds
  Givings <- MCGivings
  TextLength = 2
  MaxAborts = 1
  MaxUnloads = 1
  MaxFaults = 1
  MaxWire = 2
INVARIANTS NoStrayAbort StreamIsWhole LeftNothing
CHECK_DEADLOCK FALSE
PROPERTY AbortEnds
