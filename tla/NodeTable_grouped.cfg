SPECIFICATION FairSpec
CONSTANTS
  Format = 2
  MaxNode = 4
  InfosPerFile = 2
  RoutesPerFile = 3
  IdModulus = 8
  Key = {0, 1, 2, 3, 4, 9}
  d1 = d1
  d2 = d2
  r1 = r1
  r2 = r2
  Device <- MCDevice
  Line <- MCLine
  Node <- MCNodes
  NoNode = NoNode
  NoLine = NoLine
  Blank = Blank
  WritesMayFail = FALSE
INVARIANTS
  UniqueEntriesStored
  MasksMatchEntries
  RoundTrip
PROPERTIES
  ImplementsNetworkMap
CHECK_DEADLOCK FALSE
