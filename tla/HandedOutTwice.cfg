CONSTANTS
  LastPage = 2
  WordSize = 7
  Data <- MCData
  HeaderLoaded = TRUE
  WriteMayFail = FALSE
  MaxVersions = 7
  GoesOnLost = TRUE
SPECIFICATION Spec
PROPERTIES NeverHandedOutTwice
CHECK_DEADLOCK FALSE
