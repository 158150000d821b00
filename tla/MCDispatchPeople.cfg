SPECIFICATION Spec
CONSTANTS
  Intervals <- MCIntervals
  MaxEventRev = 1
  CaseA = CaseA
  Cases <- MCCases
  Kinds = {OBSERVATION}
  HumanRequests = {h1}
  Requests <- MCRequests
  MaxTime = 2
  Horizon = 1
  NULL = NULL
  Attempts = {a1, a2, a3}
  Direct = {}
  Runners = {r1}
  Canonical = CaseA
  Modes <- MCModes
  Profile <- MCProfile
  Limit <- MCLimit
SYMMETRY Symmetry
CHECK_DEADLOCK FALSE
INVARIANTS
  AdmissionStaysValid
  DueChecksHandledOnce
