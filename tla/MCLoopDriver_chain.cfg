\* Everything that can go wrong with a cycle: failing models, every answer of the
\* fleet and none, a signing error, a ledger write that fails, a crash of the process
\* and a clock set back.
SPECIFICATION Spec
CONSTANTS
  c1 = c1
  c2 = c2
  c3 = c3
  ActionTypes <- Canonical
  Latencies <- MCLatencies
  Cooldown = 1
  CommitCap = 1
  MaxPending = 1
  MinAge = 1
  MaxTime = 1
  MaxStepBack = 1
  MaxCommits = 0
  Cycles <- MCTwoCycles
  Plans <- MCPlans
  Signals <- MCSignal
  FleetOutcomes <- FleetOutcomeTypes
  MaxInFlight = 2
  LlmMayFail = TRUE
  PromotionSet = TRUE
  MaxLostWrites = 1
  MaxRestarts = 1
INVARIANTS
  DriverTypeOK
  AuditTrail
  ProposalsGoverned
PROPERTIES
  CyclesEnd
  DeliveredIsRecorded
  GovernedSpec
\* Once every cycle is over and the clock at its bound, nothing is left to do.
CHECK_DEADLOCK FALSE
