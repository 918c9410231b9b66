SPECIFICATION Spec
CONSTANTS
  d1 = d1  x1 = x1  x2 = x2  p1 = p1  p2 = p2
  Procs = {c1, c2}
  Sesiones = {s1, s2}
  Directas = {d1}
  Divisiones = {x1}
  Pedidos = {p1, p2}
  PedidoDe <- MCPedidoDe
  Claves = {k1, k2, k3}
  Revisiones = {r1}
  Unidades = 2
  MaxMovs = 1
  Nada = Nada
SYMMETRY Symmetry
INVARIANTS ClosedLedgerFrozen CloseWasReviewed NoOverReversal
PROPERTIES PaidOnce OneEffectPerKey ReplaySurvivesClose
