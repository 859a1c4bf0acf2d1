\* Agents that complete, idle or add tasks; logs with and without quota phrases. The script ends: CHECK_DEADLOCK is off.
SPECIFICATION FairSpec
CONSTANTS
  Offsets <- ResetTimes
  Effects <- AgentEffects
  None = None
  MaxStalled = 3
  MaxQuotaWait = 720
  Fallback = 15
  SameFile = TRUE
  MaxPending = 4
  MaxQuotas = 3
INVARIANTS
  TypeOK
  StallsInARow
  SleepWithinCeiling
PROPERTIES
  Terminates
  DiligentCompletes
CHECK_DEADLOCK FALSE
