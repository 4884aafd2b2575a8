\* Requests of every kind, up to eleven samples, all shapes of trajectory.
SPECIFICATION Spec
CONSTANTS
  HorizonSteps = 10
  SpikeThreshold = 2
  Requests <- MCRequests
  Additional <- MCAdditional
  Records <- MCRecords
  Batches = {0, 1, 3, 5}
  Events <- MCEvents
  Snapshots <- MCSnapshots
CHECK_DEADLOCK FALSE
INVARIANTS
  TrajectoryAccepted
  ConfidenceEarned
  SpikeForeseen
