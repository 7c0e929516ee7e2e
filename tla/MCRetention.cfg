CONSTANTS
  KeepDays = 1
  KeepCount = 2
  KeepRegexpTags = {3}
  FileTags = {2}
  MaxScanned = 4
  Names = {1, 2, 3, 4}
  RunHour = 100
  Hours = {24, 52, 53, 110}
SPECIFICATION ScanSpec
INVARIANTS
  AgreesWithListProgram
  KeepsExactly
  TopUpIsNewest
  SecondRunPurgesNothing
CHECK_DEADLOCK FALSE
