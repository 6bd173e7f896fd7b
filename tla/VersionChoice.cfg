SPECIFICATION ChoiceSpec
CONSTANTS
  Majors = {1, 6, 7, 8, 9, 10}
  Minors = {0, 2, 9, 10, 11, 12, 13, 14, 15, 16, 17, 18, 19, 20, 21, 22, 23, 24, 25, 100, 210, 255, 256}
  Patches = {0, 1, 2, 3, 10, 255, 256, 258, 259}
  Parts = {"EFR32XG28", "EFR32XG23", "EFR32XG14", "EFR32XG13"}
INVARIANTS
  UpgradeAgreesWithImport
  StampTakenBack
  SeriesLimit
  FilesFoundAgain
  ConfigurationShapeAgrees
