\* The forecast of a classification does not become the trajectory.
SPECIFICATION Spec
CONSTANTS
  HorizonSteps = 10
  SpikeThreshold = 2
  Requests <- MCRequests
  Additional <- MCAdditional
  Records <- MCRecords
  Batches = {0, 1, 3, 5}
  Events <- MCEvents
  Snapshots <- MCSnapshots
CHECK_DEADLOCK FALSE
INVARIANT ForecastUsed
