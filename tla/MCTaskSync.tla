----------------------------- MODULE MCTaskSync -----------------------------
EXTENDS TaskSync, TLC

CONSTANT Creator

Symmetry == Permutations(Devices)

\* The devices are alike and one of them creates the row: Creator is its name.
\* (A symmetry set would not be sound for liveness.)
CreatorCreates == clock = 1 => outbox[Creator] # <<>>
=============================================================================
