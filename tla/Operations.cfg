SPECIFICATION OperationsSpec
CONSTANTS
  Seeds = {p1, p2}
  PERSONAS <- MCPersonas
  BULK_USERS = 1
  Debug = TRUE
  MaxEdits = 2
  SAMPLES <- MCSamples
  UnknownKeys = {"typo"}
  Pushes = 3
INVARIANTS
  SeedTypeOK
  BatchAccounted
  LatestServed
PROPERTIES
  UpdatesInPlace
  CommitsWhole
  FailsForCause
  SeedsEnd
CHECK_DEADLOCK FALSE
