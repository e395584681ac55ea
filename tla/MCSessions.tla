------------------------------ MODULE MCSessions ------------------------------
EXTENDS Sessions, TLC

CONSTANT
    MaxHeld     \* bound: a state with so many tokens given out is not explored further

HeldBound == Cardinality(held) < MaxHeld

Symmetry == Permutations(Calls) \cup Permutations(Users) \cup Permutations(Devices)
=============================================================================
