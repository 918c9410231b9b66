-------------------------- MODULE MCOrderLifecycle --------------------------
EXTENDS OrderLifecycle

\* Order 1 has a line for the kitchen; order 2 is a product, consumed on the
\* premises.
SoloPrimero == {1}
SoloSegundo == {2}
Todos       == {1, 2}
Todas       == {"listar", "confirmar", "estado", "cocina", "descontar"}
DelPago     == {"listar", "confirmar"}
=============================================================================
