SPECIFICATION Spec
CONSTANTS
  GivenImage <- MCGivenImages
  Target <- MCTargets
  MaxRuns = 2
  OpensMayFail = FALSE
  Parts = {"EFR32XG28", "EFR32XG23", "EFR32XG14"}
  Unwritable = {}
INVARIANTS
  ErrorsFailTheConversion
CHECK_DEADLOCK FALSE
