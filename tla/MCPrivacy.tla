----------------------------- MODULE MCPrivacy -----------------------------
EXTENDS Privacy, TLC
Symmetry == Permutations(Accounts) \cup Permutations(Jobs)
=============================================================================
