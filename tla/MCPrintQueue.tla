---------------------------- MODULE MCPrintQueue ----------------------------
\* Model-checking instance of PrintQueue.
EXTENDS PrintQueue, TLC

Symmetry == Permutations(Agents) \cup Permutations(Jobs)
=============================================================================
