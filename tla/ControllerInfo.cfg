SPECIFICATION Spec
CONSTANTS
  Target <- MCTarget
  Document <- MCDocument
  ByteSize = 256
  WordSize = 65536
  HomeIdMax = 999
  ListSize = 2
  DataSize = 4
  LongName = "long name"
  CutName = "long"
  SerialApiName = "serial_api_controller"
  Unwritable <- MCUnwritable
PROPERTIES
  ValuesComeBack
  KeysComeBack
  TripsSettle
CHECK_DEADLOCK FALSE
