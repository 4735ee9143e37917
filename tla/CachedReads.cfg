SPECIFICATION FairSpec
CONSTANTS
  r1 = r1
  r2 = r2
  r3 = r3
  None = None
  Readers = {r1, r2, r3}
  Way <- EachWay
  Content <- FalsyFirst
  MaxVersion = 1
  enable = TRUE
  Disturbances = {"get", "set", "call"}
  MaxFaults = 1
INVARIANTS
  TypeOK
  NeverOlder
PROPERTIES
  EventuallyFresh
