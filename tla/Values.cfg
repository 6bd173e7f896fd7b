SPECIFICATION ValuesSpec
CONSTANTS
  RowSize = 4
  SegmentSize = 8
  Paragraph = 4
  Nodes <- MCNodes
  Routes <- MCRoutes
  ByteStrings <- MCByteStrings
  LineLengths = {0, 1, 4, 5, 8, 10, 76}
  HexInputs <- MCHexInputs
  Lines <- MCLines
  Stem <- MCStem
  StemLength <- MCStemLength
  NameSize = 48
  Names <- MCNames
  MaxTrips = 3
INVARIANTS
  NodesComeBack
  NodesSettle
  TextsComeBack
  HexReadsBack
  FieldsAsTyped
  OutputsApart
CHECK_DEADLOCK FALSE
