\* Agents whose lines the formatter may raise on; quota events of both kinds and one that is only talked about. The script ends: CHECK_DEADLOCK is off.
SPECIFICATION FairRunSpec
CONSTANTS
  Offsets <- ResetTimes
  Effects <- AgentEffects
  Lines <- AgentLines
  None = None
  MaxStalled = 2
  MaxQuotaWait = 720
  Fallback = 15
  SameFile = TRUE
  MaxPending = 2
  MaxQuotas = 1
  PipeSize = 1
  MaxLines = 4
INVARIANTS
  QuotaNotJudged
  WeeklyCapEnds
  AllDelivered
PROPERTIES
  ImplementsLoop
  PipelineEnds
CHECK_DEADLOCK FALSE
