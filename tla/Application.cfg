SPECIFICATION FairSpec
CONSTANTS
  None = None
  Loads <- FileLoads
  loadIsArray = FALSE
  Envs <- Environments
  Connections = {"main", "audit"}
  entities <- SharedEntities
  retryAttempts <- Attempts
  Ids = {1, 2}
  Values = {"a", "b"}
  Filters <- SomeFilters
  MaxLoose = 1
  paranoid = TRUE
  rawRows = TRUE
CHECK_DEADLOCK FALSE
INVARIANTS
  TypeOK
  LoadedKept
  ConformsUnlessOverridden
  AttemptsCounted
  ServesReady
  UpdateAnswers
  OkMeansDone
PROPERTIES
  StartDecides
