\* A model that times out.
SPECIFICATION Spec
CONSTANTS
  c1 = c1
  c2 = c2
  c3 = c3
  ActionTypes <- Canonical
  Latencies <- MCLatencies
  Cooldown = 2
  CommitCap = 4
  MaxPending = 1
  MinAge = 1
  MaxTime = 3
  MaxStepBack = 0
  MaxCommits = 0
  Cycles <- MCTwoCycles
  Plans <- MCScale
  Signals <- MCNoSignal
  FleetOutcomes <- MCReplies
  MaxInFlight = 2
  LlmMayFail = TRUE
  PromotionSet = FALSE
  MaxLostWrites = 0
  MaxRestarts = 0
PROPERTIES
  InterpreterFallsBack
\* Once every cycle is over and the clock at its bound, nothing is left to do.
CHECK_DEADLOCK FALSE
