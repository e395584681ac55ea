------------------------------ MODULE MCOtpStore ------------------------------
EXTENDS OtpStore, TLC

Symmetry == Permutations(Calls)
=============================================================================
