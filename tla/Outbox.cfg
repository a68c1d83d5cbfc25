SPECIFICATION FairSpec
CONSTANTS
  w1 = w1
  w2 = w2
  r1 = r1
  r2 = r2
  n1 = n1
  n2 = n2
  Writer <- TwoWriters
  Replica <- TwoReplicas
  Entity <- TwoEntities
  MaxEvents = 3
  Batch = 2
  Poison <- SecondIsPoison
  MaxCopies = 2
INVARIANT
  HistoryOrder
PROPERTIES
  KeepsPromise
  KeepsPromiseLive
  EventuallyPublished
CHECK_DEADLOCK FALSE
