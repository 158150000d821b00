SPECIFICATION ServiceSpec
CONSTANTS
  Sessions = {s1}
  Requests = {q1, q2, q3}
  Callers = {c1, c2, c3}
  Kinds <- MCKinds
  Required <- MCRequired
  ClaimLife = 1
  TurnLimit = 3
  NULL = NULL
SYMMETRY Symmetry
CHECK_DEADLOCK FALSE
INVARIANTS
  ServiceTypeOK
  RequestsAppliedOnce
  EvidenceCarriedOnce
  TurnsPaid
PROPERTIES
  TurnUndisturbed
