SPECIFICATION FieldSpec
CONSTANTS
  Intervals <- MCIntervals
  MaxEventRev = 1
  CaseA = CaseA
  Cases <- MCCases
  Kinds = {OBSERVATION}
  Requests = {q1, q2}
  MaxTime = 1
  Horizon = 1
  NULL = NULL
  Registries <- MCRegistries
  References = {x, y}
  EvidenceLimit = 2
  MaxFieldWork = 6
SYMMETRY Symmetry
CHECK_DEADLOCK FALSE
INVARIANTS
  FieldWorkReplays
  VerifiedIsLatest
  WorkFollowsApproval
  SitesKeepMeaning
