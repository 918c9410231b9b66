--------------------------- MODULE MCCashSessions ---------------------------
(* An instance of CashSessions for TLC. *)
EXTENDS CashSessions, TLC

Simetria == Permutations(Sesiones) \cup Permutations(Conexiones) \cup Permutations(Cajas)
=============================================================================
