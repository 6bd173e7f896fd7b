SPECIFICATION Spec
CONSTANTS
  GivenImage <- MCGivenImages
  Target <- MCTargets
  MaxRuns = 3
  OpensMayFail = TRUE
  Parts = {"EFR32XG28", "EFR32XG23", "EFR32XG14"}
  Unwritable = {"ZW_VERSION"}
INVARIANTS
  HandlesFree
  PartsKept
  MadeAsAsked
  CleanImageReadsClean
  NoInstanceMissing
  StatusTellsOutput
CHECK_DEADLOCK FALSE
