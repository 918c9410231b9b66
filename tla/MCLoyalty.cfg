SPECIFICATION FairSpec
CONSTANTS
  NumFacturas = 3
  PedidoDe <- DirectaYCuenta
  Puntos <- UnPunto
  ConContacto = {2, 3}
  Veneno = {2}
  Webs = {w1}
  Reconciliador = r
  Limite = 2
  MaxCola = 1
  Unidades = 1
  MaxFallos = 1
  Corregibles = {1}
  Nada = Nada
INVARIANTS PointsOnce JudgedAsPaid NoCreditWithDebt
PROPERTIES NoneLeftBehind
CHECK_DEADLOCK FALSE
