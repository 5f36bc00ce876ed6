CONSTANTS
  Entries = {"b"}
  Regular = {"b"}
  Unreadable = {}
  Vanishing = {"b"}
  Corpus <- MCCorpus
  Words <- MCWords
  Cleaned <- MCCleaned
  StopWords <- MCStopWords
  Empty = ""
  DirCapacity = 4
  LineCapacity = 4
  ParserCapacity = 4
  Workers = {w1, w2}
  Failures = {"corpus", "scan", "reader", "worker", "coordinator", "parser", "engine"}
  IndexPresent = {FALSE}
  MaySignal = TRUE
  MayTimeOut = TRUE
SPECIFICATION AttendedSpec
INVARIANTS EndOfStreamIsLast KernalInv NoThreadOutlives ServesCompleteIndex
PROPERTIES BootDecides StartFailureReturns ShutdownCompletes
