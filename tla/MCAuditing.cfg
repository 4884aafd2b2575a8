\* Pages, batches and windows that the records overflow, calls that fail, a restart.
SPECIFICATION Spec
CONSTANTS
  LedgerConfigured = TRUE
  RecordKinds <- MCKinds
  PageSize = 1
  FetchCap = 2
  RateInverse = 1
  Probes = {"none", "overrode"}
  MaxVerdicts = 2
  ResultCap = 2
  Window = 1
  GatewayCap = 2
  MaxRecords = 3
  MaxTime = 2
  MaxEvents = 2
INVARIANTS
  AuditTypeOK
  ProofsAreReal
  OnlySameInstantSkipped
  SampleFair
  AuditorsAgree
  VerdictsNotRepeated
  CompletedAuditCovers
  ResultsBacked
PROPERTIES
  EveryRecordPassed
