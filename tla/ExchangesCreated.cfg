SPECIFICATION FairSpec
CONSTANTS
  c1 = c1
  c2 = c2
  c3 = c3
  c4 = c4
  c5 = c5
  c6 = c6
  b1 = b1
  x1 = x1
  x2 = x2
  Consumers = {c1}
  Bindings = {}
  options <- OneOption
  Groups <- OneGroup
  exchanges <- TwoExchanges
  prefetchCount = 1
  channels <- NoChannels
  consumer <- NoConsumer
  Existing = {}
  Disturbances = {}
  MaxFaults = 0
CHECK_DEADLOCK FALSE
PROPERTY
  ExchangesCreated
