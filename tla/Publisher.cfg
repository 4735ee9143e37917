SPECIFICATION FairSpec
CONSTANTS
  r1 = r1
  r2 = r2
  r3 = r3
  Requests = {r1, r2, r3}
  Payload <- TwoHalfNone
  Disturbances = {"loss", "close", "nack", "kill"}
  MaxFaults = 3
CHECK_DEADLOCK FALSE
INVARIANTS
  TypeOK
  OkMeansStored
  StoredBounded
PROPERTIES
  EveryRequestAnswered
  WrapperDrains
