SPECIFICATION Spec
CONSTANTS
  Cajas = {c1, c2}
  Usuarios = {1, 2}
  Supers = {1}
  Sesiones = {s1, s2}
  Conexiones = {t1, t2}
  Nada = Nada
INVARIANTS NobodyInTwoTills TeamEndsWithSession PayFollowsDecision
SYMMETRY Simetria
CHECK_DEADLOCK FALSE
