CONSTANTS
  Values = {1, 2, 3, 4}
  SIZE = 2
  IndexValues = 8
  MaxPushes = 9
  Chunks <- MCChunks
  Offsets = {0, 1, 3}
  MaxLength = 5
  Workers = {t1, t2}
  Uids = {alice, bob}
  NoUid = NoUid
  MaxRequests = 4
  MaxStarts = 2
  Letters = 3
  MaxValue = 3
  Width = 3
  ByteBits = 6
  KeyBytes = 2
  HashValues = 4096
  Buckets = 5
SPECIFICATION Spec
INVARIANTS TreeIsSound LockFreeFifo FileHoldsWhatWasWritten SolutionsAgree ConversionsAgree
           ChunksGoToTheMinter ToldIsStored
PROPERTIES ImplementsWordSet
CHECK_DEADLOCK FALSE
