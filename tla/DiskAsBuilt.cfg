CONSTANTS
  LastPage = 2
  WordSize = 7
  Data <- MCData
  HeaderLoaded = FALSE
  WriteMayFail = TRUE
  MaxVersions = 7
  GoesOnLost = FALSE
SPECIFICATION Spec
PROPERTIES ImplementsPagePool
CHECK_DEADLOCK FALSE
