SPECIFICATION FairSpec
CONSTANTS
  d1 = d1  x1 = x1  x2 = x2  p1 = p1  p2 = p2
  Procs = {c1, c2}
  Sesiones = {s1}
  Directas = {}
  Divisiones = {x1, x2}
  Pedidos = {p2}
  PedidoDe <- MCPedidoDe
  Claves = {k1, k2, k3}
  Revisiones = {r1}
  Unidades = 1
  MaxMovs = 0
  Nada = Nada
PROPERTIES RequestsEnd
