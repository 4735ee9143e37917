SPECIFICATION ConfigSpec
CONSTANTS
  Loads <- TwoLoads
  loadIsArray = TRUE
  Envs <- Environments
CHECK_DEADLOCK FALSE
INVARIANT
  LoadedKept
