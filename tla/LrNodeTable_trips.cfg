SPECIFICATION Spec
CONSTANTS
  Formats = {1, 2, 3, 4}
  MinNodeId = 4
  MaxNode = 3
  InfosPerFile = 2
  PowerBytes = 1
  Key = {3, 4, 5, 6, 20}
  IdModulus = 16
  d1 = d1
  d2 = d2
  b1 = b1
  b2 = b2
  Device <- MCDevice
  Bit <- MCBit
  Node <- MCNodes
  NoNode = NoNode
  Absent = Absent
  DefaultDevice = d1
  Blank = Blank
  MaxTrips = 2
  WritesMayFail = TRUE
INVARIANTS
  RoundTrip
  PowersFromOwnPlace
  LaterTripsStable
CHECK_DEADLOCK FALSE
