---------------------------- MODULE MCFieldWork ----------------------------
(* Instances of FieldWork for TLC: one case, one review that a script      *)
(* stages and people decide on, and one site with its configurations: as   *)
(* first approved, withdrawn by a second revision, and redefined.          *)
EXTENDS FieldWork, TLC

CONSTANTS CaseA

MCCases == {CaseA}
MCIntervals == {1}

Entry(rev, text, approved) == [site |-> "S", rev |-> rev, text |-> text, approved |-> approved]
MCRegistries ==
  {{Entry(1, "here", TRUE)},
   {Entry(1, "here", TRUE), Entry(2, "here", FALSE)},
   {Entry(1, "there", TRUE)}}

Symmetry == Permutations(Requests) \cup Permutations(References)
============================================================================
