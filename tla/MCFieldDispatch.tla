-------------------------- MODULE MCFieldDispatch --------------------------
(* Instances of FieldDispatch for TLC: one canonical case, one runner at a *)
(* time, and one site with two configurations: approved, and withdrawn by  *)
(* a second revision.                                                      *)
EXTENDS FieldDispatch, TLC

CONSTANTS HumanRequests, CaseA

MCCases == {CaseA}
MCRequests == HumanRequests \cup (Attempts \X Kinds)
MCIntervals == {1}
MCModes == {"SCRIPTED_SDK"}
MCProfile == [c \in MCCases |-> "SCRIPTED_SDK"]
MCLimit == [m \in MCModes |-> Cardinality(Attempts)]

Entry(rev, approved) == [site |-> "S", rev |-> rev, text |-> "here", approved |-> approved]
MCRegistries == {{Entry(1, TRUE)}, {Entry(1, TRUE), Entry(2, FALSE)}}

Symmetry ==
  Permutations(Attempts) \cup Permutations(HumanRequests) \cup Permutations(Runners)
=============================================================================
