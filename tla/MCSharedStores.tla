--------------------------- MODULE MCSharedStores ---------------------------
EXTENDS SharedStores, TLC

\* Callers, Users and Processes are the same processes.
StoresSymmetry == UNION {Permutations(S) : S \in {Sessions, Subjects, Processes}}

\* Either limit of live sessions can be the one that is reached first.
TwoLimits == {[all |-> 1, subject |-> 2], [all |-> 2, subject |-> 1]}
=============================================================================
