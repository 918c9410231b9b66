----------------------------- MODULE Purchases ------------------------------
(***************************************************************************)
(* Purchase requests and quick captures: a branch asks for goods, the      *)
(* administration reviews the request, the branch uploads the invoices and *)
(* receives; or it sends the invoice of what it has bought already and the *)
(* administration makes an order of it (services/solicitudesCompra*.js,    *)
(* services/capturasCompraRapida*.js).                                     *)
(*                                                                         *)
(* The rows are in PostgreSQL, the images in object storage, and no        *)
(* transaction spans both: an upload comes before the COMMIT that refers   *)
(* to it and is removed again when that fails; a removal comes after the   *)
(* COMMIT that gave the image up.  What a transaction writes is applied at *)
(* its COMMIT: until then only its own row lock can be noticed.  Users may *)
(* do what they ask for and every line is valid, or Deshacer refuses it.   *)
(***************************************************************************)
EXTENDS Naturals, FiniteSets

CONSTANTS
  Solicitudes,  \* rows solicitudes_compra may get
  Capturas,     \* rows capturas_compra_rapida may get
  Claves,       \* client_request_id of the submissions that carry one
  SinClave,     \* the submission without one, told by user, store and content
  Envios,       \* upload_request_id of the invoices
  Recibos,      \* reception_request_id
  Conexiones,   \* requests served at a time
  Nada,         \* NULL
  MaxFacturas,  \* MAX_FACTURA_EVIDENCES, MAX_EVIDENCES
  MaxObjetos,   \* bound: images that reach the storage
  MaxFallos     \* bound: crashes, lost answers and failed removals

ASSUME PurchasesAssumption ==
  /\ MaxFacturas \in Nat \ {0} /\ MaxObjetos \in Nat /\ MaxFallos \in Nat
  /\ SinClave \notin Claves
  /\ Nada \notin Solicitudes \cup Capturas \cup Claves \cup {SinClave} \cup Envios \cup Recibos
  /\ Solicitudes \cap Capturas = {}
  /\ (Solicitudes \cup Capturas) \cap (Claves \cup {SinClave}) = {}

Objetos == 1..MaxObjetos
Llaves  == Claves \cup {SinClave}
Filas   == Solicitudes \cup Capturas \cup Llaves

VARIABLES
  estado,     \* solicitudes_compra.estado; "ausente" before the INSERT
  clave,      \* client_request_id; Nada for an order made of a capture
  reciente,   \* fecha_creacion lies within the window of five minutes
  recibo,     \* reception_request_id
  entradas,   \* times its goods entered the stock
  captura,    \* capturas_compra_rapida.estado, "descartada" after the DELETE
  orden,      \* id_solicitud_compra of a capture
  factura,    \* per image, the evidence rows that refer to it
  guardado,   \* images in the storage
  subidos,    \* number of images ever uploaded
  peticion,   \* per connection, the request it serves
  inciertos,  \* history: images whose COMMIT was effective and not answered
  conCausa,   \* history: images left behind by a fault that can be named
  fallos      \* history: faults so far

solicitud == <<estado, clave, reciente, recibo, entradas>>
rapida    == <<captura, orden>>
archivo   == <<factura, guardado, subidos>>
historia  == <<inciertos, conCausa, fallos>>
vars      == <<solicitud, rapida, archivo, peticion, historia>>

-----------------------------------------------------------------------------
DeSolicitud == {"aprobar", "rechazar", "subir", "quitar"}
DeCaptura   == {"subirCaptura", "quitarCaptura", "descartar", "enviar",
                "rechazarCaptura", "formalizar"}

\* paso: fila -> guardar -> confirmar, then limpiar or retirar the
\* images in resto.  k is the key of the request, o the image it removes, con
\* that a reception brings its invoice along.
Peticion ==
  [op : DeSolicitud \cup DeCaptura \cup {"recibir", "crear"}, x : Filas,
   k : Envios \cup Recibos \cup {Nada}, o : Objetos \cup {0}, con : BOOLEAN,
   paso : {"fila", "guardar", "confirmar", "limpiar", "retirar"},
   resto : SUBSET Objetos]

Ninguna  == [op |-> "ninguna", paso |-> "ninguno", resto |-> {}]
SinFilas == [sol |-> Nada, cap |-> Nada, envio |-> Nada]

Init ==
  /\ estado = [s \in Solicitudes |-> "ausente"]
  /\ clave = [s \in Solicitudes |-> Nada]
  /\ reciente = [s \in Solicitudes |-> FALSE]
  /\ recibo = [s \in Solicitudes |-> Nada]
  /\ entradas = [s \in Solicitudes |-> 0]
  /\ captura = [c \in Capturas |-> "ausente"]
  /\ orden = [c \in Capturas |-> Nada]
  /\ factura = [o \in Objetos |-> SinFilas]
  /\ guardado = {} /\ subidos = 0
  /\ peticion = [t \in Conexiones |-> Ninguna]
  /\ inciertos = {} /\ conCausa = {} /\ fallos = 0

En(t, ops, paso) == peticion[t].op \in ops /\ peticion[t].paso = paso

FacturasDe(x)  == {o \in Objetos : factura[o].sol = x \/ factura[o].cap = x}
Referido(o)    == factura[o].sol # Nada \/ factura[o].cap # Nada
HayLugar(x)    == Cardinality(FacturasDe(x)) < MaxFacturas

\* A row is locked, and a key reserved, from its statement to the end of the
\* transaction.
Libre(t, x) ==
  \A u \in Conexiones \ {t} : peticion[u].paso \in {"guardar", "confirmar"} => peticion[u].x # x

\* Mutant of EnEspera: a submission without a key takes no advisory lock.
LocklessEnEspera(t, k) == k # SinClave /\ ~ Libre(t, k)

EnEspera(t, k) == ~ Libre(t, k)

\* The transaction of t is over and its row free; what is left is to remove
\* the images R.
Sigue(t, paso, R) ==
  peticion' = [peticion EXCEPT ![t] =
                 IF R = {} THEN Ninguna ELSE [@ EXCEPT !.paso = paso, !.resto = R]]

\* Mutant of Fin: an error is answered without removing what was uploaded.
UncleanFin(t) ==
  /\ peticion' = [peticion EXCEPT ![t] = Ninguna]
  /\ UNCHANGED <<solicitud, rapida, archivo, historia>>

\* ROLLBACK, and the compensation of what was uploaded.
Fin(t) ==
  /\ Sigue(t, "limpiar", peticion[t].resto)
  /\ UNCHANGED <<solicitud, rapida, archivo, historia>>

-----------------------------------------------------------------------------
(* Before the COMMIT. *)

\* Mutant of PorRecibir: it does not look at what was applied already.
RepeatablePorRecibir(s) == estado[s] \in {"APROBADA", "RECIBIDA"}

\* assertHeader, with the guard of the UPDATE that ends a reception.
PorRecibir(s) == estado[s] = "APROBADA"

\* Mutant of Borrador: the owner may change a capture that was sent.
OwnedBorrador(c) == captura[c] # "descartada"

\* assertOwnerDraft.
Borrador(c) == captura[c] = "BORRADOR"

\* The checks of rechazar and formalizar and the WHERE of their UPDATE.
PorGestionar(c) == captura[c] = "PENDIENTE" /\ orden[c] = Nada

\* The same reception or upload again, found by its key, which is unique.
YaRecibida(s, k) == estado[s] = "RECIBIDA" /\ recibo[s] = k
YaSubida(k)      == \E o \in Objetos : factura[o].envio = k

\* Mutant of FacturaLista: the invoices were counted before the row was locked.
EarlyFacturaLista(t, s) == TRUE

FacturaLista(t, s) == peticion[t].con \/ FacturasDe(s) # {}

\* What a request must find when it has the row it names.
Procede(p) ==
  LET x == p.x IN
  \/ p.op \in {"aprobar", "rechazar"} /\ x \in Solicitudes /\ estado[x] = "PENDIENTE"
  \/ p.op = "subir" /\ x \in Solicitudes /\ PorRecibir(x) /\ HayLugar(x) /\ ~ YaSubida(p.k)
  \/ p.op = "quitar" /\ x \in Solicitudes /\ PorRecibir(x) /\ p.o \in FacturasDe(x)
  \/ p.op = "recibir" /\ x \in Solicitudes /\ ~ YaRecibida(x, p.k) /\ PorRecibir(x)
  \/ p.op = "subirCaptura" /\ x \in Capturas /\ Borrador(x) /\ HayLugar(x)
  \/ p.op = "quitarCaptura" /\ x \in Capturas /\ Borrador(x) /\ p.o \in FacturasDe(x)
  \/ p.op = "descartar" /\ x \in Capturas /\ Borrador(x)
  \/ p.op = "enviar" /\ x \in Capturas /\ Borrador(x) /\ FacturasDe(x) # {}
  \/ p.op = "rechazarCaptura" /\ x \in Capturas /\ PorGestionar(x)
  \/ p.op = "formalizar" /\ x \in Capturas /\ PorGestionar(x) /\ FacturasDe(x) # {}

Empieza(t, op, x, k, o, con, paso) ==
  /\ peticion' = [peticion EXCEPT ![t] =
       [op |-> op, x |-> x, k |-> k, o |-> o, con |-> con, paso |-> paso, resto |-> {}]]
  /\ UNCHANGED <<solicitud, rapida, archivo, historia>>

\* SELECT ... FOR UPDATE and the checks under the lock.  A request that finds
\* the row in another state, or its own effect, is answered and changes nothing.
Tomar(t, op, x, k, o) ==
  LET sube == op \in {"subir", "subirCaptura"} IN
  /\ peticion[t] = Ninguna /\ Libre(t, x)
  /\ k \in (IF op = "subir" THEN Envios ELSE {Nada})
  /\ o \in (IF op \in {"quitar", "quitarCaptura"} THEN Objetos ELSE {0})
  /\ Procede([op |-> op, x |-> x, k |-> k, o |-> o])
  /\ Empieza(t, op, x, k, o, FALSE, IF sube THEN "guardar" ELSE "confirmar")

\* A reception looks first without the lock, then again with it.
Leer(t, s, k, con) ==
  /\ peticion[t] = Ninguna
  /\ Procede([op |-> "recibir", x |-> s, k |-> k])
  /\ Empieza(t, "recibir", s, k, 0, con, "fila")

TomarRecepcion(t) ==
  LET p == peticion[t] IN
  /\ p.paso = "fila" /\ Libre(t, p.x)
  /\ Procede(p) /\ FacturaLista(t, p.x) /\ (p.con => HayLugar(p.x))
  /\ peticion' = [peticion EXCEPT ![t].paso = IF p.con THEN "guardar" ELSE "confirmar"]
  /\ UNCHANGED <<solicitud, rapida, archivo, historia>>

\* A submission reserves its key by INSERT ... ON CONFLICT, or takes the
\* advisory lock of its content and looks for the same within the window.
\* One that is found is answered instead.
Enviada(k) ==
  \E s \in Solicitudes : IF k = SinClave THEN clave[s] # Nada /\ reciente[s] ELSE clave[s] = k

Reservar(t, k) ==
  /\ peticion[t] = Ninguna /\ ~ EnEspera(t, k) /\ ~ Enviada(k)
  /\ Empieza(t, "crear", k, Nada, 0, FALSE, "confirmar")

\* The image goes to the storage under a new name.
Guardar(t) ==
  /\ peticion[t].paso = "guardar" /\ subidos < MaxObjetos
  /\ guardado' = guardado \cup {subidos + 1} /\ subidos' = subidos + 1
  /\ peticion' = [peticion EXCEPT ![t].paso = "confirmar", ![t].resto = {subidos + 1}]
  /\ UNCHANGED <<solicitud, rapida, factura, historia>>

NoGuardar(t) == peticion[t].paso = "guardar" /\ Fin(t)

\* The storage answers with an error and has kept the image: a capture removes
\* it by its name, a request does not know that there is one.
GuardarSinRespuesta(t) ==
  LET o == subidos + 1 IN
  /\ peticion[t].paso = "guardar" /\ subidos < MaxObjetos /\ fallos < MaxFallos
  /\ guardado' = guardado \cup {o} /\ subidos' = o /\ fallos' = fallos + 1
  /\ IF peticion[t].op = "subirCaptura"
       THEN Sigue(t, "limpiar", {o}) /\ UNCHANGED conCausa
       ELSE peticion' = [peticion EXCEPT ![t] = Ninguna] /\ conCausa' = conCausa \cup {o}
  /\ UNCHANGED <<solicitud, rapida, factura, inciertos>>

\* The row has changed before the lock, a line, a provider or a write is
\* refused (a key that another request has by now), or the COMMIT fails.
Deshacer(t) == peticion[t].paso \in {"fila", "confirmar"} /\ Fin(t)

-----------------------------------------------------------------------------
(* The COMMIT. *)

\* Its answer may be lost: then the handler takes it for a failure, removes
\* what it uploaded and leaves what it meant to remove.
Concluye(t, perdida, borrados) ==
  IF perdida
    THEN /\ fallos < MaxFallos /\ fallos' = fallos + 1
         /\ inciertos' = inciertos \cup peticion[t].resto
         /\ conCausa' = conCausa \cup borrados
         /\ Sigue(t, "limpiar", peticion[t].resto)
    ELSE Sigue(t, "retirar", borrados) /\ UNCHANGED historia

\* The rows of evidence that a transaction writes of its own upload.
ConFila(t, sol, cap) ==
  factura' = [o \in Objetos |-> IF o \in peticion[t].resto
                                  THEN [sol |-> sol, cap |-> cap, envio |->
                                          IF peticion[t].op = "subir" THEN peticion[t].k ELSE Nada]
                                  ELSE factura[o]]

Listo(t, op) == peticion[t].op = op /\ peticion[t].paso = "confirmar"

ConfirmarCrear(t, s) ==
  /\ Listo(t, "crear") /\ estado[s] = "ausente"
  /\ estado' = [estado EXCEPT ![s] = "PENDIENTE"]
  /\ clave' = [clave EXCEPT ![s] = peticion[t].x]
  /\ reciente' = [reciente EXCEPT ![s] = TRUE]
  /\ peticion' = [peticion EXCEPT ![t] = Ninguna]
  /\ UNCHANGED <<recibo, entradas, rapida, archivo, historia>>

ConfirmarRevision(t) ==
  /\ En(t, {"aprobar", "rechazar"}, "confirmar")
  /\ estado' = [estado EXCEPT ![peticion[t].x] =
                  IF peticion[t].op = "aprobar" THEN "APROBADA" ELSE "RECHAZADA"]
  /\ peticion' = [peticion EXCEPT ![t] = Ninguna]
  /\ UNCHANGED <<clave, reciente, recibo, entradas, rapida, archivo, historia>>

ConfirmarSubida(t, perdida) ==
  /\ Listo(t, "subir") /\ ~ YaSubida(peticion[t].k)
  /\ ConFila(t, peticion[t].x, Nada) /\ Concluye(t, perdida, {})
  /\ UNCHANGED <<solicitud, rapida, guardado, subidos>>

ConfirmarQuita(t, perdida) ==
  LET o == peticion[t].o IN
  /\ Listo(t, "quitar")
  /\ factura' = [factura EXCEPT ![o].sol = Nada, ![o].envio = Nada]
  /\ Concluye(t, perdida, {o})
  /\ UNCHANGED <<solicitud, rapida, guardado, subidos>>

\* The goods enter the stock with the change of state, or not at all.
ConfirmarRecepcion(t, perdida) ==
  LET s == peticion[t].x IN
  /\ Listo(t, "recibir") /\ PorRecibir(s)
  /\ \A s2 \in Solicitudes \ {s} : recibo[s2] # peticion[t].k
  /\ estado' = [estado EXCEPT ![s] = "RECIBIDA"]
  /\ recibo' = [recibo EXCEPT ![s] = peticion[t].k]
  /\ entradas' = [entradas EXCEPT ![s] = @ + 1]
  /\ ConFila(t, s, Nada) /\ Concluye(t, perdida, {})
  /\ UNCHANGED <<clave, reciente, rapida, guardado, subidos>>

-----------------------------------------------------------------------------
(* Quick captures. *)

CrearCaptura(c) ==
  /\ captura[c] = "ausente"
  /\ captura' = [captura EXCEPT ![c] = "BORRADOR"]
  /\ UNCHANGED <<solicitud, orden, archivo, peticion, historia>>

ConfirmarSubidaCaptura(t, perdida) ==
  /\ Listo(t, "subirCaptura")
  /\ ConFila(t, Nada, peticion[t].x) /\ Concluye(t, perdida, {})
  /\ UNCHANGED <<solicitud, rapida, guardado, subidos>>

ConfirmarQuitaCaptura(t, perdida) ==
  LET o == peticion[t].o IN
  /\ Listo(t, "quitarCaptura")
  /\ factura' = [factura EXCEPT ![o].cap = Nada]
  /\ Concluye(t, perdida, {o})
  /\ UNCHANGED <<solicitud, rapida, guardado, subidos>>

\* The rows of its evidence go with it (ON DELETE CASCADE).
ConfirmarDescarte(t, perdida) ==
  LET c == peticion[t].x IN
  /\ Listo(t, "descartar")
  /\ captura' = [captura EXCEPT ![c] = "descartada"]
  /\ factura' = [o \in Objetos |-> IF o \in FacturasDe(c) THEN SinFilas ELSE factura[o]]
  /\ Concluye(t, perdida, FacturasDe(c))
  /\ UNCHANGED <<solicitud, orden, guardado, subidos>>

ConfirmarEnvio(t) ==
  /\ Listo(t, "enviar") /\ Borrador(peticion[t].x)
  /\ captura' = [captura EXCEPT ![peticion[t].x] = "PENDIENTE"]
  /\ peticion' = [peticion EXCEPT ![t] = Ninguna]
  /\ UNCHANGED <<solicitud, orden, archivo, historia>>

ConfirmarRechazo(t) ==
  /\ Listo(t, "rechazarCaptura") /\ PorGestionar(peticion[t].x)
  /\ captura' = [captura EXCEPT ![peticion[t].x] = "RECHAZADA"]
  /\ peticion' = [peticion EXCEPT ![t] = Ninguna]
  /\ UNCHANGED <<solicitud, orden, archivo, historia>>

\* An order is born received, shares the images of the capture and enters the
\* stock in the same transaction.
ConfirmarFormalizacion(t, s) ==
  LET c == peticion[t].x IN
  /\ Listo(t, "formalizar") /\ PorGestionar(c) /\ estado[s] = "ausente"
  /\ estado' = [estado EXCEPT ![s] = "RECIBIDA"]
  /\ entradas' = [entradas EXCEPT ![s] = @ + 1]
  /\ captura' = [captura EXCEPT ![c] = "FORMALIZADA"]
  /\ orden' = [orden EXCEPT ![c] = s]
  /\ factura' = [o \in Objetos |-> IF factura[o].cap = c THEN [factura[o] EXCEPT !.sol = s]
                                                          ELSE factura[o]]
  /\ peticion' = [peticion EXCEPT ![t] = Ninguna]
  /\ UNCHANGED <<clave, reciente, recibo, guardado, subidos, historia>>

-----------------------------------------------------------------------------
(* After it, and the environment. *)

\* storage.remove of one image after another; a failure is only logged.
Limpiar(t, o, falla) ==
  /\ peticion[t].paso \in {"limpiar", "retirar"} /\ o \in peticion[t].resto
  /\ IF falla
       THEN /\ fallos < MaxFallos /\ fallos' = fallos + 1
            /\ conCausa' = conCausa \cup {o} /\ UNCHANGED guardado
       ELSE guardado' = guardado \ {o} /\ UNCHANGED <<conCausa, fallos>>
  /\ Sigue(t, peticion[t].paso, peticion[t].resto \ {o})
  /\ UNCHANGED <<solicitud, rapida, factura, subidos, inciertos>>

\* The process ends: PostgreSQL rolls back, nobody compensates.
Caer(t) ==
  /\ peticion[t] # Ninguna /\ fallos < MaxFallos
  /\ fallos' = fallos + 1 /\ conCausa' = conCausa \cup peticion[t].resto
  /\ peticion' = [peticion EXCEPT ![t] = Ninguna]
  /\ UNCHANGED <<solicitud, rapida, archivo, inciertos>>

VenceVentana(s) ==
  /\ reciente[s] /\ reciente' = [reciente EXCEPT ![s] = FALSE]
  /\ UNCHANGED <<estado, clave, recibo, entradas, rapida, archivo, peticion, historia>>

Next ==
  \/ \E s \in Solicitudes : VenceVentana(s)
  \/ \E c \in Capturas : CrearCaptura(c)
  \/ \E t \in Conexiones :
       \/ \E op \in DeSolicitud \cup DeCaptura, x \in Solicitudes \cup Capturas,
             k \in Envios \cup {Nada}, o \in Objetos \cup {0} : Tomar(t, op, x, k, o)
       \/ \E s \in Solicitudes, k \in Recibos, con \in BOOLEAN : Leer(t, s, k, con)
       \/ \E k \in Llaves : Reservar(t, k)
       \/ TomarRecepcion(t)
       \/ Guardar(t) \/ NoGuardar(t) \/ GuardarSinRespuesta(t) \/ Deshacer(t)
       \/ ConfirmarRevision(t) \/ ConfirmarEnvio(t) \/ ConfirmarRechazo(t)
       \/ \E s \in Solicitudes : ConfirmarCrear(t, s) \/ ConfirmarFormalizacion(t, s)
       \/ \E perdida \in BOOLEAN :
            \/ ConfirmarSubida(t, perdida) \/ ConfirmarQuita(t, perdida)
            \/ ConfirmarRecepcion(t, perdida) \/ ConfirmarSubidaCaptura(t, perdida)
            \/ ConfirmarQuitaCaptura(t, perdida) \/ ConfirmarDescarte(t, perdida)
       \/ \E o \in Objetos, falla \in BOOLEAN : Limpiar(t, o, falla)
       \/ Caer(t)

Spec == Init /\ [][Next]_vars

-----------------------------------------------------------------------------
(* Correctness. *)

\* Type invariant.
TypeOK ==
  /\ estado \in [Solicitudes -> {"ausente", "PENDIENTE", "APROBADA", "RECHAZADA", "RECIBIDA"}]
  /\ clave \in [Solicitudes -> Llaves \cup {Nada}]
  /\ reciente \in [Solicitudes -> BOOLEAN]
  /\ recibo \in [Solicitudes -> Recibos \cup {Nada}]
  /\ entradas \in [Solicitudes -> Nat]
  /\ captura \in [Capturas -> {"ausente", "BORRADOR", "PENDIENTE", "FORMALIZADA",
                               "RECHAZADA", "descartada"}]
  /\ orden \in [Capturas -> Solicitudes \cup {Nada}]
  /\ factura \in [Objetos -> [sol : Solicitudes \cup {Nada}, cap : Capturas \cup {Nada},
                              envio : Envios \cup {Nada}]]
  /\ guardado \subseteq Objetos /\ subidos \in 0..MaxObjetos
  /\ peticion \in [Conexiones -> Peticion \cup {Ninguna}]
  /\ inciertos \subseteq Objetos /\ conCausa \subseteq Objetos
  /\ fallos \in 0..MaxFallos

DeCapturas == {s \in Solicitudes : estado[s] # "ausente" /\ clave[s] = Nada}

\* However a reception is repeated, with its key or a new one, and whatever of
\* it was answered, the goods enter the stock exactly once, with the state; and
\* two administrators make at most one order of a capture, none of a rejected
\* one, so that what was bought with it does not enter twice either.
GoodsEnterOnce ==
  /\ \A s \in Solicitudes : entradas[s] = IF estado[s] = "RECIBIDA" THEN 1 ELSE 0
  /\ Cardinality(DeCapturas) = Cardinality({c \in Capturas : captura[c] = "FORMALIZADA"})

\* A submission that is repeated makes one request: under its key for ever,
\* without one within the window.
OneRequestPerSubmission ==
  \A s1, s2 \in Solicitudes :
    clave[s1] = clave[s2] /\ clave[s1] # Nada /\ (clave[s1] = SinClave => reciente[s1] /\ reciente[s2])
      => s1 = s2

\* No request is received without an invoice, although one may be removed
\* while the reception is under way.
ReceivedWithInvoice == \A s \in Solicitudes : estado[s] = "RECIBIDA" => FacturasDe(s) # {}

\* Rows and storage agree although no transaction spans them: the image a row
\* refers to is there, unless the answer to the COMMIT that recorded it was
\* lost, and an image nobody refers to is being dealt with or was left by a
\* fault that can be named.
StorageMatchesRows ==
  \A o \in Objetos :
    /\ Referido(o) => o \in guardado \cup inciertos
    /\ o \in guardado => \/ Referido(o) \/ o \in conCausa
                         \/ \E t \in Conexiones : o \in peticion[t].resto

\* What was sent is read-only with its invoices, and so is what was received:
\* an upload or a removal that was under way comes too late.
SentIsFrozen ==
  [][/\ \A c \in Capturas : captura[c] \notin {"ausente", "BORRADOR"} =>
          /\ FacturasDe(c)' = FacturasDe(c)
          /\ captura'[c] # captura[c] =>
               captura[c] = "PENDIENTE" /\ captura'[c] \in {"FORMALIZADA", "RECHAZADA"}
     /\ \A s \in Solicitudes : estado[s] = "RECIBIDA" => FacturasDe(s)' = FacturasDe(s)]_vars
=============================================================================
