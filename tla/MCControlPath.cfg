\* Every component of the control path on the shipped rules.
SPECIFICATION Spec
CONSTANTS
  Metrics      <- MCMetrics
  Rules        <- MCRules
  EvidenceSets <- MCEvidence
  ModelReplies <- MCReplies
  Trajectories <- MCTrajectories
  Unit         = 10
  LeastBound   <- MCLeast
  MaxScale     = 5
INVARIANTS
  ControlTypeOK
  GovernedByEvidence
  GateAgrees
  ShedOnlyWhenExhausted
  BreachAnswered
  ScaleSuffices
