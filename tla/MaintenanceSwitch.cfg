\* Two workers, deployments, operators, the seed command and failing queries.
SPECIFICATION Spec
CONSTANTS
  Workers = {w1, w2}
  Debug = TRUE
  DbFails = TRUE
INVARIANTS
  TypeOK
PROPERTIES
  OnlyOperatorsLift
  DrainedStaysDrained
