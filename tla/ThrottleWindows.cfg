\* Two workers, one of which is replaced, and a cache with room for one key. The bounds stop the model: CHECK_DEADLOCK is off.
SPECIFICATION Spec
CONSTANTS
  Clients <- MCClients
  Rate <- MCRate
  Duration <- MCDuration
  Processes = {p1, p2, p3}
  WorkerCount = 2
  CacheSize = 2
  MaxTime = 3
  MaxRequests = 6
SYMMETRY ProcessSymmetry
INVARIANTS
  TypeOK
  WindowPerProcess
PROPERTIES
  OneLimiter
CHECK_DEADLOCK FALSE
