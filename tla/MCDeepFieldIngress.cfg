\* Two events of one incident, delivered again, with crashes and resets.
SPECIFICATION Spec
CONSTANTS
  c1 = c1
  c2 = c2
  None = None
  Cycles = {c1, c2}
  MaxCrashes = 1
  LedgerConfigured = TRUE
  Events <- MCEvents
  Production = FALSE
  CredentialSet = TRUE
  DefaultTtl = 3
  MaxTime = 4
  MaxFaults = 1
SYMMETRY MCSymmetry
CHECK_DEADLOCK FALSE
INVARIANTS
  IngressTypeOK
  OneAdmissionPerEvent
  RepeatsAreRepeats
  PackageWithinEvent
  RegisteredCanBeShown
  ProofsAreReal
