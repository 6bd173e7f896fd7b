SPECIFICATION ImageSpec
CONSTANTS
  Format = 2
  MaxNode = 5
  InfosPerFile = 3
  RoutesPerFile = 2
  IdModulus = 8
  Key = {1}
  d1 = d1
  d2 = d2
  r1 = r1
  r2 = r2
  Device <- MCDevice
  Line <- MCSlotLine
  Node <- MCPlainNodes
  NoNode = NoNode
  NoLine = NoLine
  Blank = Blank
  WritesMayFail = FALSE
INVARIANTS
  ExportedRoutesHaveSource
CHECK_DEADLOCK FALSE
