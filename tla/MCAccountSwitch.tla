-------------------------- MODULE MCAccountSwitch --------------------------
EXTENDS AccountSwitch, TLC
Symmetry == Permutations(Accounts)
=============================================================================
