SPECIFICATION Spec
CONSTANTS
  m1 = m1
  m2 = m2
  m3 = m3
  c1 = c1
  c2 = c2
  Messages = {m1, m2}
  Body <- TwoGood
  Consumers = {c1, c2}
  batchSize = 0
  prefetchCount = 1
  Disturbances = {"reject", "loss", "cancel", "nack"}
  MaxFaults = 2
CHECK_DEADLOCK FALSE
INVARIANTS
  GoneOnlyIfHandled
  DuplicatesBounded
PROPERTIES
  ImplementsAtLeastOnce
