---------------------------- MODULE MCCashLedger ----------------------------
EXTENDS CashLedger, TLC

CONSTANTS d1, x1, x2, p1, p2

\* One direct sale with its own order and one order split in divisions.
MCPedidoDe == [f \in Directas \cup Divisiones |-> IF f \in Directas THEN p1 ELSE p2]

Symmetry == Permutations(Procs) \cup Permutations(Claves) \cup Permutations(Revisiones) \cup Permutations(Sesiones)
=============================================================================
