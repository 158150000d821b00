------------------------------ MODULE MCWatch ------------------------------
(* Instances of Watch for TLC: the intervals of the moments.               *)
EXTENDS Watch, TLC

MCIntervals == {m \div Width : m \in Moments}

Symmetry == Permutations(Runners) \cup Permutations(Values)
=============================================================================
