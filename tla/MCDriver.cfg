CONSTANTS
  NULL = NULL
  UNSET = UNSET
  MapSize = 4
  Reserve = 2
  MaxPool = 3
  MaxFields = 2
  MaxMethods = 3
  Images <- ClassFiles
SPECIFICATION Spec
INVARIANTS PoolAsTheFileMeans FieldsBoundToTheirRefs CodeIntact LabelsAtInstructions ListsInstructions CallsRunTheirMethod OnlyLargeCodeOverruns
PROPERTIES Terminates
CHECK_DEADLOCK FALSE
