SPECIFICATION FairSpec
CONSTANTS
  c1 = c1
  c2 = c2
  c3 = c3
  c4 = c4
  c5 = c5
  c6 = c6
  b1 = b1
  x1 = x1
  x2 = x2
  Consumers = {c1, c2, c3, c4, c5, c6}
  Bindings = {b1}
  options <- AllOptions
  Groups <- TwoGroups
  exchanges <- TwoExchanges
  prefetchCount = 1
  channels <- SlowChannel
  consumer <- Batches
  Existing = {x1}
  Disturbances = {"loss", "kill"}
  MaxFaults = 2
CHECK_DEADLOCK FALSE
INVARIANTS
  TypeOK
  PrefetchFirst
  SubscribedOnce
  ReadyMeansSubscribed
PROPERTIES
  EventuallySubscribed
