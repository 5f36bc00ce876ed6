CONSTANTS
  Entries = {"b", "c"}
  Regular = {"b", "c"}
  Unreadable = {}
  Vanishing = {}
  Corpus <- MCCorpus
  Words <- MCWords
  Cleaned <- MCCleaned
  StopWords <- MCStopWords
  Empty = ""
  DirCapacity = 1
  LineCapacity = 1
  ParserCapacity = 1
  Workers = {w1, w2}
  Failures = {}
  IndexPresent = {FALSE}
  MaySignal = TRUE
  MayTimeOut = FALSE
SPECIFICATION Spec
INVARIANTS ValueMeansComplete
CHECK_DEADLOCK FALSE
