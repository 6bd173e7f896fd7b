SPECIFICATION Spec
CONSTANTS
  Format = 0
  MaxNode = 3
  InfosPerFile = 2
  RoutesPerFile = 3
  IdModulus = 8
  Key = {1, 2, 3, 9}
  d1 = d1
  d2 = d2
  r1 = r1
  r2 = r2
  Device <- MCDevice
  Line <- MCLine
  Node <- MCFewNodes
  NoNode = NoNode
  NoLine = NoLine
  Blank = Blank
  WritesMayFail = TRUE
INVARIANTS
  DroppedNodesReported
CHECK_DEADLOCK FALSE
