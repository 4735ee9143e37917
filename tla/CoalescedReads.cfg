SPECIFICATION Spec
CONSTANTS
  r1 = r1
  r2 = r2
  r3 = r3
  undefined = undefined
  rejected = rejected
  Nothing = Nothing
  Readers = {r1, r2, r3}
  MaxVersion = 2
  Nil = {1}
  enable = TRUE
  Disturbances = {"get", "set", "call"}
  MaxFaults = 1
SYMMETRY Symmetry
INVARIANTS
  TypeOK
  NeverOlder
  MissIsFresh
  FailuresForgotten
  OneCallInFlight
