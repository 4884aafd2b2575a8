\* A clock that only moves forward.  CommitCap equals the number of action
\* types, the least the theorem CooldownHolds allows, and MaxCommits exceeds it,
\* so that records are lost.
SPECIFICATION TrackerSpec
CONSTANTS
  ActionTypes <- MCTwoTypes
  Latencies   <- MCLatencies
  Cooldown    = 2
  CommitCap   = 2
  MaxPending  = 1
  MinAge      = 1
  MaxTime     = 5
  MaxStepBack = 0
  MaxCommits  = 4
INVARIANTS
  TrackerTypeOK
  CooldownRespected
  JudgedOnce
PROPERTIES
  LostOnlyToNewer
