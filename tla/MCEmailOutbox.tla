--------------------------- MODULE MCEmailOutbox ---------------------------
EXTENDS EmailOutbox, TLC

\* Replicas and rows are interchangeable.
Symmetry == Permutations(Replicas) \cup Permutations(Rows)

=============================================================================
