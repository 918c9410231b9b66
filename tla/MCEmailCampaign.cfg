SPECIFICATION FairSpec
CONSTANTS
  Correos = {a, b}
  Peticiones = {w1, w2}
  Planificador = p
  MaxEnvios = 2
  MaxEdiciones = 1
  MaxFallos = 1
  Nada = Nada
INVARIANTS DuplicatesHaveCause SentReachedAll CancelHolds
CHECK_DEADLOCK FALSE
PROPERTIES Closes
