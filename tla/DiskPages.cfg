CONSTANTS
  LastPage = 2
  WordSize = 7
  Data <- MCData
  HeaderLoaded = TRUE
  WriteMayFail = TRUE
  MaxVersions = 7
  GoesOnLost = FALSE
SPECIFICATION Spec
INVARIANTS FreeListSound
PROPERTIES RootSurvives ImplementsPagePool
CHECK_DEADLOCK FALSE
