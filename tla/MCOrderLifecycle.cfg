SPECIFICATION Spec
CONSTANTS
  NumPedidos = 2
  ConCocina <- SoloPrimero
  EnLocal <- SoloSegundo
  Operaciones <- Todas
  Peticiones = {t1, t2}
  MaxCreados = 1
  Mostrador <- Todos
  ControlMenu = "PENDIENTE_PAGO"
  Unidades = 2
  Libre = Libre
INVARIANTS DiscountedOnce ReturnsWhatWasTaken ReturnedIsNotCooked
PROPERTIES SettledStays
CHECK_DEADLOCK FALSE
