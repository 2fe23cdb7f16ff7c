----------------------------- MODULE MCVersionGc -----------------------------
EXTENDS VersionGc, TLC

Symmetry == Permutations(Threads)
=============================================================================
