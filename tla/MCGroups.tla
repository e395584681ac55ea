------------------------------ MODULE MCGroups ------------------------------
EXTENDS Groups, TLC

Symmetry == Permutations(Calls) \cup Permutations(Users) \cup Permutations(Groups)
=============================================================================
