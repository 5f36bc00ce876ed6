\* Two producers and two consumers on two slots: full, empty, wrap of the slots.
CONSTANTS
  Producers = {p1, p2}
  Consumers = {c1, c2}
  Items = {i1, i2}
  Size = 2
  PushCalls = 2
  PopCalls = 2
  Calls <- MCCalls
  NoThread = NoThread
  NoItem = NoItem
SPECIFICATION FairSpec
INVARIANTS NoOverrun IndInv
PROPERTIES ImplementsBoundedQueue EveryCallReturns
