---------------------------- MODULE MCIndexBlock ----------------------------
\* IndexBlock on a small instance; nothing tells two X's or two values apart.
EXTENDS IndexBlock, TLC

Symmetry == Permutations(Key) \cup Permutations(Value)
=============================================================================
