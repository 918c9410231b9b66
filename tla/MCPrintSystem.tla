--------------------------- MODULE MCPrintSystem ---------------------------
\* Model-checking instances of PrintSystem.
EXTENDS PrintSystem, TLC

Symmetry == Permutations(Agents) \cup Permutations(Jobs)
=============================================================================
