----------------------------- MODULE MCPurchases ----------------------------
EXTENDS Purchases, TLC

\* Requests, connections and the keys of a reception are interchangeable.
Simetria ==
  Permutations(Solicitudes) \cup Permutations(Conexiones) \cup Permutations(Recibos)
=============================================================================
