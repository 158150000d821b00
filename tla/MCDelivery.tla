----------------------------- MODULE MCDelivery -----------------------------
(* Instances of Delivery for TLC: people's request ids are model values,   *)
(* the agent's are the pairs <<attempt, kind>>.                            *)
EXTENDS Delivery, TLC

CONSTANTS HumanRequests, CaseA, CaseB

MCCases == {CaseA, CaseB}
MCRequests == HumanRequests \cup (Attempts \X Kinds)
MCIntervals == {1}
MCProfile == [c \in MCCases |-> "SCRIPTED_SDK"]
MCModes == {"SCRIPTED_SDK"}
MCLimit == [m \in MCModes |-> 2]

Symmetry == Permutations(Attempts) \cup Permutations(HumanRequests)
=============================================================================
