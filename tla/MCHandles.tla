------------------------------ MODULE MCHandles -----------------------------
EXTENDS Handles, TLC

\* Objects are interchangeable, and so are ids.
Symmetry == Permutations(Objects) \cup Permutations(Ids)
=============================================================================
