SPECIFICATION FairSpec
CONSTANTS
  m1 = m1
  m2 = m2
  m3 = m3
  c1 = c1
  c2 = c2
  Messages = {m1, m2, m3}
  Body <- OneOfEach
  Consumers = {c1}
  batchSize = 2
  prefetchCount = 3
  Disturbances = {"reject", "loss", "kill"}
  MaxFaults = 1
CHECK_DEADLOCK FALSE
INVARIANTS
  HandlerLoadBounded
  SettledOnce
PROPERTIES
  EventuallySettled
