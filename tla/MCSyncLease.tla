---------------------------- MODULE MCSyncLease ----------------------------
EXTENDS SyncLease, TLC
Symmetry == Permutations(Devices) \cup Permutations(Writers)
=============================================================================
