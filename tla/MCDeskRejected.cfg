SPECIFICATION Spec
CONSTANTS
  Intervals <- MCIntervals
  MaxEventRev = 1
  CaseA = CaseA
  Cases <- MCCases
  Kinds = {OBSERVATION}
  Scripts = {s1}
  Responses = {q1, q2}
  Requests <- MCRequests
  MaxTime = 1
  Horizon = 1
  NULL = NULL
  Offered = {"APPROVE", "DEFER", "DISMISS"}
  Tabs = {b1, b2}
  Calls = {n1, n2, n3}
SYMMETRY Symmetry
CHECK_DEADLOCK FALSE
INVARIANT
  RejectionIsDefinite
