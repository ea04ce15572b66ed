----------------------------- MODULE MCFreeSpace -----------------------------
EXTENDS FreeSpace, TLC

Symmetry == Permutations(Key)
=============================================================================
