----------------------------- MODULE MCDispatch -----------------------------
(* Instances of Dispatch for TLC: one canonical case, and the bounds.      *)
EXTENDS Dispatch, TLC

CONSTANTS HumanRequests, CaseA

MCCases == {CaseA}
MCRequests == HumanRequests \cup (Attempts \X Kinds)
MCIntervals == {1, 2}
MCModes == {"SCRIPTED_SDK"}
MCProfile == [c \in MCCases |-> "SCRIPTED_SDK"]
MCLimit == [m \in MCModes |-> Cardinality(Attempts)]

Symmetry ==
  Permutations(Attempts \ Direct) \cup Permutations(Direct) \cup Permutations(HumanRequests)
    \cup Permutations(Runners)
=============================================================================
