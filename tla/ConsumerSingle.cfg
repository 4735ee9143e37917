SPECIFICATION FairSpec
CONSTANTS
  m1 = m1
  m2 = m2
  m3 = m3
  c1 = c1
  c2 = c2
  Messages = {m1, m2, m3}
  Body <- TwoGoodOneGarbage
  Consumers = {c1}
  batchSize = 0
  prefetchCount = 2
  Disturbances = {"reject", "loss", "kill"}
  MaxFaults = 1
CHECK_DEADLOCK FALSE
INVARIANTS
  TypeOK
  UnackedAccounted
  SettledOnce
  DuplicatesBounded
PROPERTIES
  EventuallySettled
