--------------------------- MODULE MCDeskResponse ---------------------------
EXTENDS DeskResponse, TLC
CONSTANTS CaseA, Scripts
MCCases == {CaseA}
MCRequests == Responses \cup Scripts
MCIntervals == {1}
Symmetry == Permutations(Tabs) \cup Permutations(Calls) \cup Permutations(Responses)
              \cup Permutations(Scripts)
=============================================================================
