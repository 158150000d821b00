SPECIFICATION FairSpec
CONSTANTS
  Intervals <- MCIntervals
  MaxEventRev = 1
  CaseA = CaseA
  Cases <- MCCases
  Kinds = {OBSERVATION}
  HumanRequests = {h1}
  Requests <- MCRequests
  MaxTime = 1
  Horizon = 1
  NULL = NULL
  Attempts = {a1, a2}
  Direct = {}
  Runners = {r1}
  Canonical = CaseA
  Modes <- MCModes
  Profile <- MCProfile
  Limit <- MCLimit
CHECK_DEADLOCK FALSE
PROPERTIES
  KeepsPromise
  EvidenceDisposed
