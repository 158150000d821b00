SPECIFICATION Spec
CONSTANTS
  Intervals <- MCIntervals
  MaxEventRev = 2
  Moments = {1, 2}
  Values = {v1, v2}
  Width = 2
  PollTime = 1
  Overlap = 1
  LeaseTime = 2
  Window = 3
  MaxBackoff = 3
  Skew = 1
  StartAt = 0
  MaxTime = 4
  RetryAfters = {0, 3}
  Runners = {r1, r2}
  Erratic = {2}
  Nothing = Nothing
SYMMETRY Symmetry
CHECK_DEADLOCK FALSE
INVARIANTS
  TypeOK
  OverlapSuffices
  SealedIsCurrent
PROPERTIES
  OnlyErraticConflicts
  WholeOrNothing
