SPECIFICATION Spec
CONSTANTS
  MaxUpdates = 4
  PerFile = 2
  ParmMax = 3
  ByteModulus = 8
  Mark = 6
  Documents <- MCDocuments
  Tables <- MCTables
  MaxTrips = 2
  WritesMayFail = TRUE
INVARIANTS
  DocumentListsTable
  RoundTrip
  TripsSettle
CHECK_DEADLOCK FALSE
