SPECIFICATION FairSpec
CONSTANTS
  NumPedidos = 2
  ConCocina <- SoloPrimero
  EnLocal <- SoloSegundo
  Operaciones <- DelPago
  Peticiones = {t1, t2}
  MaxCreados = 2
  Mostrador <- SoloSegundo
  ControlMenu = "PENDIENTE_VALIDACION"
  Unidades = 1
  Libre = Libre
PROPERTIES RequestsEnd
CHECK_DEADLOCK FALSE
