CONSTANTS
  Entries = {"a", "b", "sub", "locked"}
  Regular = {"a", "b", "locked"}
  Unreadable = {"locked"}
  Vanishing = {}
  Corpus <- MCCorpus
  Words <- MCWords
  Cleaned <- MCCleaned
  StopWords <- MCStopWords
  Empty = ""
  DirCapacity = 1
  LineCapacity = 1
  ParserCapacity = 1
  Workers = {w1, w2}
  Failures = {}
  IndexPresent = {TRUE, FALSE}
  MaySignal = FALSE
  MayTimeOut = FALSE
SPECIFICATION FairSpec
INVARIANTS TypeOK OnePillPerWorker ServesCompleteIndex
PROPERTIES ImplementsIndexJob BootDecides
