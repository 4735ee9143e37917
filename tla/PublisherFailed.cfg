SPECIFICATION Spec
CONSTANTS
  r1 = r1
  r2 = r2
  r3 = r3
  Requests = {r1}
  Payload <- OnePlain
  Disturbances = {}
  MaxFaults = 0
CHECK_DEADLOCK FALSE
INVARIANT
  FailedMeansNotSent
