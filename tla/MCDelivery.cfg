SPECIFICATION DeliverySpec
CONSTANTS
  Intervals <- MCIntervals
  MaxEventRev = 1
  CaseA = CaseA
  CaseB = CaseB
  Cases <- MCCases
  Kinds = {OBSERVATION, COVERAGE}
  HumanRequests = {h1}
  Requests <- MCRequests
  MaxTime = 0
  Horizon = 1
  NULL = NULL
  Attempts = {a1, a2}
  Canonical = CaseA
  Modes <- MCModes
  Profile <- MCProfile
  Limit <- MCLimit
SYMMETRY Symmetry
CHECK_DEADLOCK FALSE
INVARIANTS
  OneActivePerKind
  RevisionRowsComplete
  OneUnresolved
  AllowanceExact
  SnapshotCurrent
  SourceAcknowledgedOnce
