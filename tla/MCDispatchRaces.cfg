SPECIFICATION Spec
CONSTANTS
  Intervals <- MCIntervals
  MaxEventRev = 2
  CaseA = CaseA
  Cases <- MCCases
  Kinds = {OBSERVATION}
  HumanRequests = {h1}
  Requests <- MCRequests
  MaxTime = 0
  Horizon = 1
  NULL = NULL
  Attempts = {a1, a2, x1}
  Direct = {x1}
  Runners = {r1, r2}
  Canonical = CaseA
  Modes <- MCModes
  Profile <- MCProfile
  Limit <- MCLimit
SYMMETRY Symmetry
CHECK_DEADLOCK FALSE
INVARIANTS
  OutcomesMatchOutbox
  PointerMatchesJournal
