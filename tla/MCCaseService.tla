--------------------------- MODULE MCCaseService ---------------------------
(* Instances of CaseService for TLC: an earlier and the last packaged      *)
(* window; P2 always reports, P1 is absent from the last.                  *)
EXTENDS CaseService, TLC

MCKinds == {"MONITORING", "GAP"}
MCRequired == <<{"MONITORING"}, {"MONITORING", "GAP"}>>

Symmetry == Permutations(Sessions) \cup Permutations(Requests) \cup Permutations(Callers)
============================================================================
