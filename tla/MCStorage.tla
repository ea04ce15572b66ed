------------------------------ MODULE MCStorage ------------------------------
\* Storage on a small instance: every constant is a set of model values.
EXTENDS StorageInvariant, TLC

\* Nothing tells two workers, values, extents or slots apart.
Symmetry == Permutations(Worker) \cup Permutations(Value) \cup Permutations(Key)
            \cup Permutations(Pos) \cup Permutations(Slot)
=============================================================================
