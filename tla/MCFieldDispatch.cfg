SPECIFICATION UpgradeSpec
CONSTANTS
  Intervals <- MCIntervals
  MaxEventRev = 2
  CaseA = CaseA
  Cases <- MCCases
  Kinds = {OBSERVATION}
  HumanRequests = {h1}
  Requests <- MCRequests
  MaxTime = 0
  Horizon = 1
  NULL = NULL
  Attempts = {a1, a2}
  Direct = {}
  Runners = {r1}
  Canonical = CaseA
  Modes <- MCModes
  Profile <- MCProfile
  Limit <- MCLimit
  Registries <- MCRegistries
  References = {x}
  EvidenceLimit = 1
  MaxFieldWork = 3
  ShownLimit = 1
SYMMETRY Symmetry
CHECK_DEADLOCK FALSE
INVARIANTS
  FieldDispatchTypeOK
  EveryOperationCounted
  PinnedContextHolds
  AgentPlansProposed
  LegacyEndsAtUpgrade
