SPECIFICATION Spec
CONSTANTS
  Solicitudes = {s1, s2}
  Capturas = {c1}
  Claves = {k1}
  SinClave = SinClave
  Envios = {e1}
  Recibos = {r1, r2}
  Conexiones = {t1, t2}
  Nada = Nada
  MaxFacturas = 2
  MaxObjetos = 2
  MaxFallos = 1
INVARIANTS GoodsEnterOnce OneRequestPerSubmission ReceivedWithInvoice StorageMatchesRows
PROPERTIES SentIsFrozen
SYMMETRY Simetria
CHECK_DEADLOCK FALSE
