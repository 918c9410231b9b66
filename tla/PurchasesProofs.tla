-------------------------- MODULE PurchasesProofs ---------------------------
(***************************************************************************)
(* Theorems of Purchases for any requests, captures, keys, images,         *)
(* connections and faults.  Two arguments meet: a request that holds a row *)
(* finds it at the COMMIT as it was when the lock was taken (FilaBuena),   *)
(* and an image is either referred to, or in the hands of one request that *)
(* still has to refer to it or to remove it (ImagenBuena).                 *)
(***************************************************************************)
EXTENDS Purchases, FiniteSetTheorems, TLAPS

\* The steps in which a request holds the row or the key it names.
Trabaja(p) == p.paso \in {"guardar", "confirmar"}

\* Whether the request stores an image.
Sube(p) == p.op \in {"subir", "subirCaptura"} \/ (p.op = "recibir" /\ p.con)

\* Nobody made a request of the submission k, or its window is over.
SinEnviar(k) == \A s \in Solicitudes : clave[s] = k => k = SinClave /\ ~ reciente[s]

\* Two requests never hold the same row.
Exclusion ==
  \A t, u \in Conexiones :
    t # u /\ Trabaja(peticion[t]) /\ Trabaja(peticion[u]) => peticion[t].x # peticion[u].x

\* What a request found of its row is still so while it holds it.
FilaBuena(p) ==
  Trabaja(p) =>
    \/ p.op \in {"aprobar", "rechazar"} /\ p.x \in Solicitudes /\ estado[p.x] = "PENDIENTE"
    \/ p.op = "subir" /\ p.x \in Solicitudes /\ estado[p.x] = "APROBADA" /\ p.k \in Envios
    \/ p.op = "quitar" /\ p.x \in Solicitudes /\ estado[p.x] = "APROBADA" /\ p.o \in FacturasDe(p.x)
    \/ /\ p.op = "recibir" /\ p.x \in Solicitudes /\ estado[p.x] = "APROBADA" /\ p.k \in Recibos
       /\ p.con \/ FacturasDe(p.x) # {}
    \/ p.op \in {"subirCaptura", "descartar", "enviar"} /\ p.x \in Capturas /\ captura[p.x] = "BORRADOR"
    \/ p.op = "quitarCaptura" /\ p.x \in Capturas /\ captura[p.x] = "BORRADOR" /\ p.o \in FacturasDe(p.x)
    \/ p.op = "rechazarCaptura" /\ p.x \in Capturas /\ captura[p.x] = "PENDIENTE"
    \/ /\ p.op = "formalizar" /\ p.x \in Capturas /\ captura[p.x] = "PENDIENTE"
       /\ FacturasDe(p.x) # {}
    \/ p.op = "crear" /\ p.x \in Llaves /\ SinEnviar(p.x)

\* What a request may still refer to or has still to remove.
ImagenBuena(p) ==
  /\ p.paso = "fila" => p.op = "recibir" /\ p.x \in Solicitudes /\ p.k \in Recibos
  /\ p.paso \in {"fila", "guardar"} => p.resto = {}
  /\ p.paso = "guardar" => Sube(p)
  /\ p.paso = "confirmar" =>
       (p.resto # {} <=> Sube(p)) /\ \A o \in p.resto : o \in guardado /\ ~ Referido(o)
  /\ p.paso \in {"limpiar", "retirar"} => \A o \in p.resto : Referido(o) => o \in inciertos
  /\ \A o \in p.resto : o <= subidos

\* An image on its way to a row is in nobody else's hands.
Unica ==
  \A t, u \in Conexiones :
    t # u /\ peticion[t].paso = "confirmar" => peticion[t].resto \cap peticion[u].resto = {}

\* A name that was never used is that of no image.
Nuevas == \A o \in Objetos : o > subidos => ~ Referido(o) /\ o \notin guardado

\* Only the images of a capture that became an order have rows of both kinds.
Compartida ==
  \A o \in Objetos : LET f == factura[o] IN
    f.sol # Nada /\ f.cap # Nada => captura[f.cap] = "FORMALIZADA" /\ estado[f.sol] = "RECIBIDA"

Ausentes == \A s \in Solicitudes : estado[s] = "ausente" => clave[s] = Nada /\ entradas[s] = 0

Formalizadas == {c \in Capturas : captura[c] = "FORMALIZADA"}

\* The orders made of captures and those captures grow together.
Ordenes ==
  /\ IsFiniteSet(DeCapturas) /\ IsFiniteSet(Formalizadas)
  /\ Cardinality(DeCapturas) = Cardinality(Formalizadas)

Entradas == \A s \in Solicitudes : entradas[s] = IF estado[s] = "RECIBIDA" THEN 1 ELSE 0

IInv ==
  /\ TypeOK
  /\ Exclusion
  /\ \A t \in Conexiones : FilaBuena(peticion[t]) /\ ImagenBuena(peticion[t])
  /\ Unica /\ Nuevas /\ Compartida /\ Ausentes
  /\ Entradas /\ Ordenes
  /\ OneRequestPerSubmission /\ ReceivedWithInvoice /\ StorageMatchesRows

USE PurchasesAssumption
-----------------------------------------------------------------------------
(* Facts of a state that satisfies the invariant. *)

\* A connection serves a request or none; the one that serves none holds nothing.
LEMMA Servida ==
  ASSUME IInv, NEW t \in Conexiones
  PROVE  /\ peticion[t] \in Peticion \/ peticion[t] = Ninguna
         /\ peticion[t].paso # "ninguno" => peticion[t] \in Peticion
         /\ peticion[t].resto \subseteq Objetos
BY DEF IInv, TypeOK, Peticion, Ninguna

\* A row of evidence names a request, a capture or both, never one for the other.
LEMMA Clases ==
  ASSUME IInv, NEW o \in Objetos
  PROVE  /\ factura[o].sol \in Solicitudes \cup {Nada} /\ factura[o].sol \notin Capturas
         /\ factura[o].cap \in Capturas \cup {Nada} /\ factura[o].cap \notin Solicitudes
BY DEF IInv, TypeOK

\* A request that only takes a row, or gives it back with what it has stored,
\* keeps the invariant.
LEMMA RequestStep ==
  ASSUME IInv, NEW t \in Conexiones, NEW r \in Peticion \cup {Ninguna},
         peticion' = [peticion EXCEPT ![t] = r],
         UNCHANGED <<solicitud, rapida, archivo, historia>>,
         FilaBuena(r), ImagenBuena(r),
         Trabaja(r) => Libre(t, r.x),
         r.resto = peticion[t].resto, r.paso = "confirmar" => r.resto = {}
  PROVE  IInv'
<1>. USE DEF IInv, solicitud, rapida, archivo, historia
<1>1. \A u \in Conexiones : peticion'[u] = IF u = t THEN r ELSE peticion[u]
  BY DEF TypeOK
<1>2. TypeOK'
  BY DEF TypeOK
<1>3. Exclusion'
  BY <1>1 DEF Exclusion, Libre, Trabaja
<1>4. ASSUME NEW u \in Conexiones PROVE (FilaBuena(peticion[u]) /\ ImagenBuena(peticion[u]))'
  <2>1. CASE u = t
    BY <1>1, <2>1 DEF FilaBuena, ImagenBuena, Trabaja, Sube, SinEnviar, FacturasDe, Referido
  <2>2. CASE u # t
    BY <1>1, <2>2 DEF FilaBuena, ImagenBuena, Trabaja, Sube, SinEnviar, FacturasDe, Referido
  <2>. QED  BY <2>1, <2>2
<1>5. Unica'
  BY <1>1 DEF Unica
<1>6. (Nuevas /\ Compartida /\ Ausentes /\ Entradas /\ Ordenes /\ OneRequestPerSubmission
        /\ ReceivedWithInvoice)'
  BY DEF Nuevas, Compartida, Ausentes, Entradas, Ordenes, DeCapturas, Formalizadas,
         OneRequestPerSubmission, ReceivedWithInvoice, FacturasDe, Referido
<1>7. StorageMatchesRows'
  BY <1>1 DEF StorageMatchesRows, Referido
<1>. QED  BY <1>2, <1>3, <1>4, <1>5, <1>6, <1>7

\* ROLLBACK: what was uploaded, to which no row refers, is left to be removed.
LEMMA FinStep ==
  ASSUME IInv, NEW t \in Conexiones, peticion[t].paso \in {"fila", "guardar", "confirmar"}, Fin(t)
  PROVE  IInv'
<1>. DEFINE p == peticion[t]
            r == IF p.resto = {} THEN Ninguna ELSE [p EXCEPT !.paso = "limpiar", !.resto = p.resto]
<1>1. p \in Peticion /\ FilaBuena(p) /\ ImagenBuena(p)
  BY Servida DEF IInv
<1>2. r \in Peticion \cup {Ninguna} /\ r.resto = p.resto /\ r.paso \in {"ninguno", "limpiar"}
  BY <1>1 DEF Peticion, Ninguna
<1>3. ImagenBuena(r)
  BY <1>1, <1>2 DEF ImagenBuena, Sube, Ninguna
<1>4. FilaBuena(r) /\ ~ Trabaja(r)
  BY <1>2 DEF FilaBuena, Trabaja
<1>5. /\ peticion' = [peticion EXCEPT ![t] = r]
      /\ UNCHANGED <<solicitud, rapida, archivo, historia>>
  BY DEF Fin, Sigue
<1>. HIDE DEF r
<1>. QED  BY <1>2, <1>3, <1>4, <1>5, RequestStep

LEMMA StepTomar ==
  ASSUME IInv, NEW t \in Conexiones,
         NEW op \in DeSolicitud \cup DeCaptura, NEW x \in Solicitudes \cup Capturas,
         NEW k \in Envios \cup {Nada}, NEW o \in Objetos \cup {0}, Tomar(t, op, x, k, o)
  PROVE  IInv'
<1>. DEFINE r == [op |-> op, x |-> x, k |-> k, o |-> o, con |-> FALSE,
                  paso |-> IF op \in {"subir", "subirCaptura"} THEN "guardar" ELSE "confirmar",
                  resto |-> {}]
            q == [op |-> op, x |-> x, k |-> k, o |-> o]
<1>1. /\ peticion[t] = Ninguna /\ Libre(t, x) /\ k \in (IF op = "subir" THEN Envios ELSE {Nada})
      /\ Procede(q) /\ peticion' = [peticion EXCEPT ![t] = r]
      /\ UNCHANGED <<solicitud, rapida, archivo, historia>>
  BY DEF Tomar, Empieza
<1>2. r \in Peticion
  BY DEF Peticion, Filas
<1>3. ImagenBuena(r)
  BY DEF ImagenBuena, Sube, DeSolicitud, DeCaptura
<1>4. FilaBuena(r)
  BY <1>1 DEF FilaBuena, Procede, PorRecibir, Borrador, PorGestionar, DeSolicitud, DeCaptura
<1>5. r.x = x /\ r.resto = {} /\ peticion[t].resto = {}
  BY <1>1 DEF Ninguna
<1>. HIDE DEF r
<1>. QED  BY <1>1, <1>2, <1>3, <1>4, <1>5, RequestStep

LEMMA StepLeer ==
  ASSUME IInv, NEW t \in Conexiones, NEW s \in Solicitudes, NEW k \in Recibos, NEW con \in BOOLEAN,
         Leer(t, s, k, con)
  PROVE  IInv'
<1>. DEFINE r == [op |-> "recibir", x |-> s, k |-> k, o |-> 0, con |-> con, paso |-> "fila",
                  resto |-> {}]
<1>1. /\ peticion[t] = Ninguna /\ peticion' = [peticion EXCEPT ![t] = r]
      /\ UNCHANGED <<solicitud, rapida, archivo, historia>>
  BY DEF Leer, Empieza
<1>2. r \in Peticion
  BY DEF Peticion, Filas
<1>3. ImagenBuena(r) /\ FilaBuena(r) /\ ~ Trabaja(r)
  BY DEF ImagenBuena, FilaBuena, Trabaja
<1>4. r.resto = peticion[t].resto /\ r.paso # "confirmar"
  BY <1>1 DEF Ninguna
<1>. HIDE DEF r
<1>. QED  BY <1>1, <1>2, <1>3, <1>4, RequestStep

LEMMA StepReservar ==
  ASSUME IInv, NEW t \in Conexiones, NEW k \in Llaves, Reservar(t, k)
  PROVE  IInv'
<1>. DEFINE r == [op |-> "crear", x |-> k, k |-> Nada, o |-> 0, con |-> FALSE,
                  paso |-> "confirmar", resto |-> {}]
<1>1. /\ peticion[t] = Ninguna /\ Libre(t, k) /\ ~ Enviada(k)
      /\ peticion' = [peticion EXCEPT ![t] = r]
      /\ UNCHANGED <<solicitud, rapida, archivo, historia>>
  BY DEF Reservar, Empieza, EnEspera
<1>2. r \in Peticion
  BY DEF Peticion, Filas
<1>3. SinEnviar(k)
  BY <1>1 DEF SinEnviar, Enviada, Llaves
<1>4. ImagenBuena(r) /\ FilaBuena(r)
  BY <1>3 DEF ImagenBuena, FilaBuena, Sube
<1>5. r.x = k /\ r.resto = {} /\ peticion[t].resto = {}
  BY <1>1 DEF Ninguna
<1>. HIDE DEF r
<1>. QED  BY <1>1, <1>2, <1>4, <1>5, RequestStep

LEMMA StepTomarRecepcion ==
  ASSUME IInv, NEW t \in Conexiones, TomarRecepcion(t)
  PROVE  IInv'
<1>. DEFINE p == peticion[t]
            r == [p EXCEPT !.paso = IF p.con THEN "guardar" ELSE "confirmar"]
<1>1. /\ p.paso = "fila" /\ Libre(t, p.x) /\ Procede(p) /\ FacturaLista(t, p.x)
      /\ peticion' = [peticion EXCEPT ![t].paso = IF p.con THEN "guardar" ELSE "confirmar"]
      /\ UNCHANGED <<solicitud, rapida, archivo, historia>>
  BY DEF TomarRecepcion
<1>2. p \in Peticion /\ ImagenBuena(p)
  BY <1>1, Servida DEF IInv
<1>3. r \in Peticion /\ peticion' = [peticion EXCEPT ![t] = r]
  BY <1>1, <1>2 DEF Peticion, IInv, TypeOK
<1>4. /\ r.op = p.op /\ r.x = p.x /\ r.k = p.k /\ r.con = p.con /\ r.resto = p.resto
      /\ r.paso = IF p.con THEN "guardar" ELSE "confirmar"
  BY <1>2 DEF Peticion
<1>5. p.op = "recibir" /\ p.x \in Solicitudes /\ p.k \in Recibos /\ p.resto = {}
  BY <1>1, <1>2 DEF ImagenBuena
<1>6. estado[p.x] = "APROBADA" /\ (p.con \/ FacturasDe(p.x) # {})
  BY <1>1, <1>5 DEF Procede, PorRecibir, FacturaLista
<1>. HIDE DEF r
<1>7. ImagenBuena(r)
  BY <1>4, <1>5 DEF ImagenBuena, Sube
<1>8. FilaBuena(r)
  BY <1>4, <1>5, <1>6 DEF FilaBuena
<1>. QED  BY <1>1, <1>3, <1>4, <1>5, <1>7, <1>8, RequestStep
-----------------------------------------------------------------------------
(* The storage, the clock and a new capture. *)

\* A request that stores an image under a new name, or removes, gives up or
\* forgets images of its own, keeps the invariant, as long as what it stops
\* holding is gone, named or referred to.
LEMMA StorageStep ==
  ASSUME IInv, NEW t \in Conexiones, NEW r \in Peticion \cup {Ninguna},
         peticion' = [peticion EXCEPT ![t] = r],
         UNCHANGED <<solicitud, rapida, factura>>,
         guardado' \subseteq Objetos, subidos' \in 0..MaxObjetos, subidos <= subidos',
         inciertos' \subseteq Objetos, conCausa' \subseteq Objetos, fallos' \in 0..MaxFallos,
         inciertos \subseteq inciertos', conCausa \subseteq conCausa',
         \A o \in guardado \ guardado' : o \in peticion[t].resto /\ (Referido(o) => o \in inciertos'),
         \A o \in guardado' \ guardado :
            o > subidos /\ o <= subidos' /\ o \in r.resto \cup conCausa',
         FilaBuena(r), ImagenBuena(r)',
         Trabaja(r) => Trabaja(peticion[t]) /\ r.x = peticion[t].x,
         \A o \in r.resto : o \in peticion[t].resto \/ o > subidos,
         r.paso = "confirmar" => \A o \in r.resto : o > subidos,
         \A o \in peticion[t].resto \ r.resto :
            o \in guardado' => o \in conCausa' \/ Referido(o)
  PROVE  IInv'
<1>. USE DEF IInv, solicitud, rapida
<1>1. \A u \in Conexiones : peticion'[u] = IF u = t THEN r ELSE peticion[u]
  BY DEF TypeOK
<1>2. TypeOK'
  BY DEF TypeOK
<1>3. Exclusion'
  BY <1>1 DEF Exclusion, Trabaja
<1>4. \A u \in Conexiones : peticion[u].resto \subseteq Objetos /\ \A o \in peticion[u].resto : o <= subidos
  BY Servida DEF ImagenBuena
<1>5. subidos \in Nat /\ subidos' \in Nat
  BY DEF TypeOK
<1>6. ASSUME NEW u \in Conexiones PROVE (FilaBuena(peticion[u]) /\ ImagenBuena(peticion[u]))'
  <2>1. CASE u = t
    <3>1. FilaBuena(peticion[u])'
      BY <1>1, <2>1 DEF FilaBuena, Trabaja, SinEnviar, FacturasDe
    <3>2. ImagenBuena(peticion[u])'
      BY <1>1, <2>1 DEF ImagenBuena, Sube, Referido
    <3>. QED  BY <3>1, <3>2
  <2>2. CASE u # t
    <3>1. FilaBuena(peticion[u])'
      BY <1>1, <2>2 DEF FilaBuena, Trabaja, SinEnviar, FacturasDe
    <3>2. peticion'[u] = peticion[u] /\ ImagenBuena(peticion[u])
      BY <1>1, <2>2
    <3>3. peticion[u].paso = "confirmar" =>
            \A o \in peticion[u].resto : o \in guardado' /\ ~ Referido(o)
      BY <2>2, <3>2 DEF ImagenBuena, Unica
    <3>4. \A o \in peticion[u].resto : o <= subidos'
      BY <1>4, <1>5 DEF Objetos
    <3>5. ImagenBuena(peticion[u])'
      BY <3>2, <3>3, <3>4 DEF ImagenBuena, Sube, Referido
    <3>. QED  BY <3>1, <3>5
  <2>. QED  BY <2>1, <2>2
<1>7. Unica'
  <2>1. SUFFICES ASSUME NEW u \in Conexiones, NEW v \in Conexiones, u # v,
                        peticion'[u].paso = "confirmar", NEW o \in peticion'[u].resto \cap peticion'[v].resto
                 PROVE  FALSE
    BY DEF Unica
  <2>2. CASE u = t
    <3>1. o > subidos /\ o \in peticion[v].resto
      BY <1>1, <2>1, <2>2
    <3>. QED  BY <3>1, <1>4, <1>5 DEF Objetos
  <2>3. CASE v = t
    <3>1. o \in peticion[u].resto /\ (o \in peticion[t].resto \/ o > subidos)
      BY <1>1, <2>1, <2>3
    <3>2. o \notin peticion[t].resto
      BY <1>1, <2>1, <2>3, <3>1 DEF Unica
    <3>. QED  BY <3>1, <3>2, <1>4, <1>5 DEF Objetos
  <2>4. CASE u # t /\ v # t
    BY <1>1, <2>1, <2>4 DEF Unica
  <2>. QED  BY <2>2, <2>3, <2>4
<1>8. Nuevas'
  BY <1>5 DEF Nuevas, Referido, Objetos
<1>9. (Compartida /\ Ausentes /\ Entradas /\ Ordenes /\ OneRequestPerSubmission /\ ReceivedWithInvoice)'
  BY DEF Compartida, Ausentes, Entradas, Ordenes, DeCapturas, Formalizadas,
         OneRequestPerSubmission, ReceivedWithInvoice, FacturasDe
<1>10. StorageMatchesRows'
  <2>1. SUFFICES ASSUME NEW o \in Objetos
                 PROVE  /\ Referido(o) => o \in guardado' \cup inciertos'
                        /\ o \in guardado' => \/ Referido(o) \/ o \in conCausa'
                                              \/ \E u \in Conexiones : o \in peticion'[u].resto
    BY DEF StorageMatchesRows, Referido
  <2>2. Referido(o) => o \in guardado' \cup inciertos'
    BY DEF StorageMatchesRows
  <2>3. CASE o \in guardado' \ guardado
    BY <1>1, <2>2, <2>3
  <2>4. CASE o \in guardado' \cap guardado
    BY <1>1, <2>2, <2>4 DEF StorageMatchesRows
  <2>. QED  BY <2>2, <2>3, <2>4
<1>. QED  BY <1>2, <1>3, <1>6, <1>7, <1>8, <1>9, <1>10

LEMMA StepGuardar ==
  ASSUME IInv, NEW t \in Conexiones, Guardar(t)
  PROVE  IInv'
<1>. DEFINE p == peticion[t]
<1>1. PICK n : n = subidos + 1
  OBVIOUS
<1>2. /\ p.paso = "guardar" /\ subidos < MaxObjetos
      /\ guardado' = guardado \cup {n} /\ subidos' = n
      /\ peticion' = [peticion EXCEPT ![t].paso = "confirmar", ![t].resto = {n}]
      /\ UNCHANGED <<solicitud, rapida, factura, historia>>
  BY <1>1 DEF Guardar
<1>3. p \in Peticion /\ FilaBuena(p) /\ ImagenBuena(p)
  BY <1>2, Servida DEF IInv
<1>4. TypeOK /\ n \in Objetos /\ n \in 0..MaxObjetos /\ subidos <= n /\ n > subidos /\ n <= n
  BY <1>1, <1>2 DEF IInv, TypeOK, Objetos
<1>5. PICK r : r = [p EXCEPT !.paso = "confirmar", !.resto = {n}]
  OBVIOUS
<1>6. r \in Peticion /\ peticion' = [peticion EXCEPT ![t] = r]
  BY <1>2, <1>3, <1>4, <1>5 DEF Peticion, TypeOK
<1>7. /\ r.op = p.op /\ r.x = p.x /\ r.k = p.k /\ r.o = p.o /\ r.con = p.con
      /\ r.paso = "confirmar" /\ r.resto = {n}
  BY <1>3, <1>5 DEF Peticion
<1>8. Sube(p) /\ p.resto = {}
  BY <1>2, <1>3 DEF ImagenBuena
<1>9. FilaBuena(r) /\ Trabaja(p) /\ r.x = p.x
  BY <1>2, <1>3, <1>7 DEF FilaBuena, Trabaja
<1>10. ImagenBuena(r)'
  <2>1. Sube(r)
    BY <1>7, <1>8 DEF Sube
  <2>2. ~ Referido(n)' /\ n \in guardado'
    BY <1>2, <1>4 DEF Referido, IInv, Nuevas
  <2>. QED  BY <1>2, <1>4, <1>7, <2>1, <2>2 DEF ImagenBuena, Sube
<1>11. /\ guardado' \subseteq Objetos /\ inciertos' \subseteq Objetos /\ conCausa' \subseteq Objetos
       /\ fallos' \in 0..MaxFallos /\ inciertos \subseteq inciertos' /\ conCausa \subseteq conCausa'
  BY <1>2, <1>4 DEF TypeOK, historia
<1>. QED  BY <1>2, <1>4, <1>6, <1>7, <1>8, <1>9, <1>10, <1>11, StorageStep

LEMMA StepGuardarSinRespuesta ==
  ASSUME IInv, NEW t \in Conexiones, GuardarSinRespuesta(t)
  PROVE  IInv'
<1>. DEFINE p == peticion[t]
<1>1. PICK n : n = subidos + 1
  OBVIOUS
<1>2. PICK r : r = IF p.op = "subirCaptura" THEN [p EXCEPT !.paso = "limpiar", !.resto = {n}] ELSE Ninguna
  OBVIOUS
<1>3. /\ p.paso = "guardar" /\ subidos < MaxObjetos /\ fallos < MaxFallos
      /\ guardado' = guardado \cup {n} /\ subidos' = n /\ fallos' = fallos + 1
      /\ peticion' = [peticion EXCEPT ![t] = r]
      /\ conCausa' = IF p.op = "subirCaptura" THEN conCausa ELSE conCausa \cup {n}
      /\ UNCHANGED <<solicitud, rapida, factura, inciertos>>
  BY <1>1, <1>2 DEF GuardarSinRespuesta, Sigue
<1>4. p \in Peticion /\ ImagenBuena(p)
  BY <1>3, Servida DEF IInv
<1>5. TypeOK /\ n \in Objetos /\ n \in 0..MaxObjetos /\ subidos <= n /\ n > subidos /\ n <= n
      /\ fallos' \in 0..MaxFallos
  BY <1>1, <1>3 DEF IInv, TypeOK, Objetos
<1>6. r \in Peticion \cup {Ninguna}
  BY <1>2, <1>4, <1>5 DEF Peticion
<1>7. /\ r.paso \in {"limpiar", "ninguno"}
      /\ r.resto = IF p.op = "subirCaptura" THEN {n} ELSE {}
  BY <1>2, <1>4 DEF Peticion, Ninguna
<1>8. p.resto = {}
  BY <1>3, <1>4 DEF ImagenBuena
<1>9. FilaBuena(r) /\ ~ Trabaja(r)
  BY <1>7 DEF FilaBuena, Trabaja
<1>10. ImagenBuena(r)'
  <2>1. ~ Referido(n)'
    BY <1>3, <1>5 DEF Referido, IInv, Nuevas
  <2>2. \A o \in r.resto : o = n
    BY <1>7
  <2>. QED  BY <1>3, <1>5, <1>7, <2>1, <2>2 DEF ImagenBuena
<1>11. guardado' \subseteq Objetos /\ conCausa' \subseteq Objetos /\ inciertos' \subseteq Objetos
       /\ conCausa \subseteq conCausa' /\ inciertos \subseteq inciertos'
  BY <1>3, <1>5 DEF TypeOK
<1>12. /\ \A o \in guardado' \ guardado : o = n /\ o \in r.resto \cup conCausa'
       /\ \A o \in r.resto : o > subidos
  BY <1>3, <1>5, <1>7
<1>. QED  BY <1>3, <1>5, <1>6, <1>7, <1>8, <1>9, <1>10, <1>11, <1>12, StorageStep

LEMMA StepLimpiar ==
  ASSUME IInv, NEW t \in Conexiones, NEW o \in Objetos, NEW falla \in BOOLEAN, Limpiar(t, o, falla)
  PROVE  IInv'
<1>. DEFINE p == peticion[t]
<1>1. PICK R : R = p.resto \ {o}
  OBVIOUS
<1>2. PICK r : r = IF R = {} THEN Ninguna ELSE [p EXCEPT !.paso = p.paso, !.resto = R]
  OBVIOUS
<1>3. /\ p.paso \in {"limpiar", "retirar"} /\ o \in p.resto
      /\ peticion' = [peticion EXCEPT ![t] = r]
      /\ UNCHANGED <<solicitud, rapida, factura, subidos, inciertos>>
  BY <1>1, <1>2 DEF Limpiar, Sigue
<1>4. TypeOK /\ subidos \in 0..MaxObjetos /\ subidos <= subidos
  BY DEF IInv, TypeOK
<1>5. /\ guardado' \subseteq guardado /\ guardado \ guardado' \subseteq {o}
      /\ conCausa \subseteq conCausa' /\ conCausa' \subseteq Objetos /\ fallos' \in 0..MaxFallos
      /\ o \in guardado' => o \in conCausa'
  <2>1. CASE falla
    BY <1>4, <2>1 DEF Limpiar, TypeOK
  <2>2. CASE ~ falla
    BY <1>4, <2>2 DEF Limpiar, TypeOK
  <2>. QED  BY <2>1, <2>2
<1>6. p \in Peticion /\ ImagenBuena(p)
  BY <1>3, Servida DEF IInv
<1>7. r \in Peticion \cup {Ninguna} /\ r.resto = R /\ r.paso \in {"limpiar", "retirar", "ninguno"}
  BY <1>1, <1>2, <1>3, <1>6 DEF Peticion, Ninguna
<1>8. FilaBuena(r) /\ ~ Trabaja(r)
  BY <1>7 DEF FilaBuena, Trabaja
<1>9. ImagenBuena(r)'
  BY <1>1, <1>3, <1>6, <1>7 DEF ImagenBuena, Referido
<1>10. \A a \in guardado \ guardado' : a \in p.resto /\ (Referido(a) => a \in inciertos')
  BY <1>3, <1>5, <1>6 DEF ImagenBuena
<1>11. \A a \in p.resto \ r.resto : a \in guardado' => a \in conCausa' \/ Referido(a)
  BY <1>1, <1>5, <1>7
<1>12. guardado' \subseteq Objetos /\ inciertos' \subseteq Objetos /\ inciertos \subseteq inciertos'
       /\ subidos' \in 0..MaxObjetos /\ subidos <= subidos'
  BY <1>3, <1>4, <1>5 DEF TypeOK
<1>. QED  BY <1>1, <1>3, <1>5, <1>7, <1>8, <1>9, <1>10, <1>11, <1>12, StorageStep

LEMMA StepCaer ==
  ASSUME IInv, NEW t \in Conexiones, Caer(t)
  PROVE  IInv'
<1>. DEFINE p == peticion[t]
<1>1. PICK r : r = Ninguna
  OBVIOUS
<1>2. /\ peticion' = [peticion EXCEPT ![t] = r] /\ conCausa' = conCausa \cup p.resto
      /\ fallos < MaxFallos /\ fallos' = fallos + 1
      /\ UNCHANGED <<solicitud, rapida, factura, guardado, subidos, inciertos>>
  BY <1>1 DEF Caer, archivo
<1>3. TypeOK /\ p.resto \subseteq Objetos
  BY Servida DEF IInv
<1>4. /\ fallos' \in 0..MaxFallos /\ subidos' \in 0..MaxObjetos /\ subidos <= subidos'
      /\ guardado' \subseteq Objetos /\ inciertos' \subseteq Objetos /\ conCausa' \subseteq Objetos
      /\ inciertos \subseteq inciertos' /\ conCausa \subseteq conCausa'
  BY <1>2, <1>3 DEF TypeOK
<1>5. r \in Peticion \cup {Ninguna} /\ r.resto = {} /\ r.paso = "ninguno"
  BY <1>1 DEF Ninguna
<1>6. FilaBuena(r) /\ ~ Trabaja(r) /\ ImagenBuena(r)'
  BY <1>5 DEF FilaBuena, Trabaja, ImagenBuena
<1>. QED  BY <1>2, <1>4, <1>5, <1>6, StorageStep

LEMMA StepVenceVentana ==
  ASSUME IInv, NEW s \in Solicitudes, VenceVentana(s)
  PROVE  IInv'
<1>. USE DEF IInv, rapida, archivo, historia
<1>1. /\ reciente' = [reciente EXCEPT ![s] = FALSE]
      /\ UNCHANGED <<estado, clave, recibo, entradas, rapida, archivo, peticion, historia>>
  BY DEF VenceVentana
<1>2. \A a \in Solicitudes : reciente'[a] => reciente[a]
  BY <1>1 DEF TypeOK
<1>3. TypeOK'
  BY <1>1 DEF TypeOK
<1>4. (Exclusion /\ Unica /\ Nuevas /\ Compartida /\ Ausentes /\ Entradas /\ Ordenes
        /\ ReceivedWithInvoice /\ StorageMatchesRows)'
  BY <1>1 DEF Exclusion, Trabaja, Unica, Nuevas, Compartida, Ausentes, Entradas, Ordenes,
              DeCapturas, Formalizadas, ReceivedWithInvoice, StorageMatchesRows, FacturasDe, Referido
<1>5. ASSUME NEW u \in Conexiones PROVE (FilaBuena(peticion[u]) /\ ImagenBuena(peticion[u]))'
  <2>1. \A k \in Llaves : SinEnviar(k) => SinEnviar(k)'
    BY <1>1, <1>2 DEF SinEnviar
  <2>2. FilaBuena(peticion[u])'
    BY <1>1, <2>1 DEF FilaBuena, Trabaja, FacturasDe
  <2>3. ImagenBuena(peticion[u])'
    BY <1>1 DEF ImagenBuena, Sube, Referido
  <2>. QED  BY <2>2, <2>3
<1>6. OneRequestPerSubmission'
  BY <1>1, <1>2 DEF OneRequestPerSubmission
<1>. QED  BY <1>3, <1>4, <1>5, <1>6

LEMMA StepCrearCaptura ==
  ASSUME IInv, NEW c \in Capturas, CrearCaptura(c)
  PROVE  IInv'
<1>. USE DEF IInv, solicitud, archivo, historia
<1>1. /\ captura[c] = "ausente" /\ captura' = [captura EXCEPT ![c] = "BORRADOR"]
      /\ UNCHANGED <<solicitud, orden, archivo, peticion, historia>>
  BY DEF CrearCaptura
<1>2. \A a \in Capturas : captura'[a] = captura[a] \/ (a = c /\ captura'[a] = "BORRADOR")
  BY <1>1 DEF TypeOK
<1>3. TypeOK'
  BY <1>1 DEF TypeOK
<1>4. (Exclusion /\ Unica /\ Nuevas /\ Ausentes /\ Entradas /\ OneRequestPerSubmission
        /\ ReceivedWithInvoice /\ StorageMatchesRows)'
  BY <1>1 DEF Exclusion, Trabaja, Unica, Nuevas, Ausentes, Entradas, OneRequestPerSubmission,
              ReceivedWithInvoice, StorageMatchesRows, FacturasDe, Referido
<1>5. Compartida'
  BY <1>1, <1>2 DEF Compartida, TypeOK
<1>6. Formalizadas' = Formalizadas /\ DeCapturas' = DeCapturas
  BY <1>1, <1>2 DEF Formalizadas, DeCapturas
<1>7. Ordenes'
  BY <1>6 DEF Ordenes
<1>8. ASSUME NEW u \in Conexiones PROVE (FilaBuena(peticion[u]) /\ ImagenBuena(peticion[u]))'
  <2>1. \A a \in Capturas : captura[a] # "ausente" => captura'[a] = captura[a]
    BY <1>1, <1>2
  <2>2. FilaBuena(peticion[u])'
    BY <1>1, <2>1 DEF FilaBuena, Trabaja, SinEnviar, FacturasDe
  <2>3. ImagenBuena(peticion[u])'
    BY <1>1 DEF ImagenBuena, Sube, Referido
  <2>. QED  BY <2>2, <2>3
<1>. QED  BY <1>3, <1>4, <1>5, <1>7, <1>8
-----------------------------------------------------------------------------
(* The COMMIT. *)

\* What a request does with its images at the COMMIT: it ends, or goes on to
\* remove images that it uploaded or that the COMMIT gave up; those given up
\* are in its hands or left by the fault.
Cierra(t) ==
  \E r \in Peticion \cup {Ninguna} :
    /\ peticion' = [peticion EXCEPT ![t] = r]
    /\ r.paso \in {"limpiar", "retirar", "ninguno"}
    /\ \A o \in r.resto : /\ o \in peticion[t].resto \/ Referido(o)
                          /\ Referido(o)' => o \in inciertos'
    /\ \A o \in Objetos : Referido(o) /\ ~ Referido(o)' => o \in r.resto \cup conCausa'
    /\ inciertos \subseteq inciertos' /\ inciertos' \subseteq Objetos
    /\ conCausa \subseteq conCausa' /\ conCausa' \subseteq Objetos
    /\ fallos' \in 0..MaxFallos

\* The types of the rows.
Tablas ==
  /\ estado \in [Solicitudes -> {"ausente", "PENDIENTE", "APROBADA", "RECHAZADA", "RECIBIDA"}]
  /\ clave \in [Solicitudes -> Llaves \cup {Nada}]
  /\ reciente \in [Solicitudes -> BOOLEAN]
  /\ recibo \in [Solicitudes -> Recibos \cup {Nada}]
  /\ entradas \in [Solicitudes -> Nat]
  /\ captura \in [Capturas -> {"ausente", "BORRADOR", "PENDIENTE", "FORMALIZADA",
                               "RECHAZADA", "descartada"}]
  /\ orden \in [Capturas -> Solicitudes \cup {Nada}]
  /\ factura \in [Objetos -> [sol : Solicitudes \cup {Nada}, cap : Capturas \cup {Nada},
                              envio : Envios \cup {Nada}]]

\* What a step may never do to a capture that was sent or an order received.
Congela ==
  /\ \A c \in Capturas : captura[c] \notin {"ausente", "BORRADOR"} =>
       /\ FacturasDe(c)' = FacturasDe(c)
       /\ captura'[c] # captura[c] =>
            captura[c] = "PENDIENTE" /\ captura'[c] \in {"FORMALIZADA", "RECHAZADA"}
  /\ \A s \in Solicitudes : estado[s] = "RECIBIDA" => FacturasDe(s)' = FacturasDe(s)

\* Concluye does what Cierra says, when it is told exactly the images the COMMIT gives up.
LEMMA Conclusion ==
  ASSUME IInv, NEW t \in Conexiones, NEW perdida \in BOOLEAN, NEW B \in SUBSET Objetos,
         peticion[t].paso = "confirmar", Concluye(t, perdida, B),
         \A o \in Objetos : o \in B <=> Referido(o) /\ ~ Referido(o)'
  PROVE  Cierra(t)
<1>. DEFINE p == peticion[t]
<1>1. p \in Peticion /\ TypeOK /\ p.resto \subseteq Objetos
  BY Servida DEF IInv
<1>2. CASE perdida
  <2>1. PICK r : r = IF p.resto = {} THEN Ninguna ELSE [p EXCEPT !.paso = "limpiar", !.resto = p.resto]
    OBVIOUS
  <2>2. /\ fallos < MaxFallos /\ fallos' = fallos + 1
        /\ inciertos' = inciertos \cup p.resto /\ conCausa' = conCausa \cup B
        /\ peticion' = [peticion EXCEPT ![t] = r]
    BY <1>2, <2>1 DEF Concluye, Sigue
  <2>3. r \in Peticion \cup {Ninguna} /\ r.paso \in {"limpiar", "ninguno"} /\ r.resto = p.resto
    BY <1>1, <2>1 DEF Peticion, Ninguna
  <2>4. fallos' \in 0..MaxFallos /\ inciertos' \subseteq Objetos /\ conCausa' \subseteq Objetos
    BY <1>1, <2>2 DEF TypeOK
  <2>5. \A o \in r.resto : o \in p.resto /\ o \in inciertos'
    BY <2>2, <2>3
  <2>. QED  BY <2>2, <2>3, <2>4, <2>5 DEF Cierra
<1>3. CASE ~ perdida
  <2>1. PICK r : r = IF B = {} THEN Ninguna ELSE [p EXCEPT !.paso = "retirar", !.resto = B]
    OBVIOUS
  <2>2. peticion' = [peticion EXCEPT ![t] = r] /\ UNCHANGED <<inciertos, conCausa, fallos>>
    BY <1>3, <2>1 DEF Concluye, Sigue, historia
  <2>3. r \in Peticion \cup {Ninguna} /\ r.paso \in {"retirar", "ninguno"} /\ r.resto = B
    BY <1>1, <2>1 DEF Peticion, Ninguna
  <2>4. fallos' \in 0..MaxFallos /\ inciertos' \subseteq Objetos /\ conCausa' \subseteq Objetos
    BY <1>1, <2>2 DEF TypeOK
  <2>. QED  BY <2>2, <2>3, <2>4 DEF Cierra
<1>. QED  BY <1>2, <1>3

\* A COMMIT that touches the row or key it holds, its own images and rows that
\* did not exist keeps what every other request found, and the images in order.
LEMMA CommitStep ==
  ASSUME IInv, NEW t \in Conexiones, peticion[t].paso = "confirmar", Cierra(t),
         UNCHANGED <<guardado, subidos>>, NEW x, x = peticion[t].x,
         Tablas',
         \A s \in Solicitudes : s = x \/ estado[s] = "ausente" \/ estado'[s] = estado[s],
         \A c \in Capturas : c = x \/ captura'[c] = captura[c],
         \A k \in Llaves : k = x \/ (SinEnviar(k) => SinEnviar(k)'),
         \A s \in Solicitudes : s = x \/ estado[s] = "ausente" \/ FacturasDe(s)' = FacturasDe(s),
         \A c \in Capturas : c = x \/ FacturasDe(c)' = FacturasDe(c),
         \A o \in Objetos : Referido(o)' => Referido(o) \/ o \in peticion[t].resto,
         \A o \in peticion[t].resto : o \in Objetos => Referido(o)',
         \A c \in Capturas : c = x /\ captura[c] = "PENDIENTE" =>
            FacturasDe(c)' = FacturasDe(c) /\ captura'[c] \in {"PENDIENTE", "FORMALIZADA", "RECHAZADA"},
         Compartida', Ausentes', Entradas', Ordenes', OneRequestPerSubmission', ReceivedWithInvoice'
  PROVE  IInv' /\ Congela
<1>. DEFINE p == peticion[t]
<1>1. PICK r \in Peticion \cup {Ninguna} :
        /\ peticion' = [peticion EXCEPT ![t] = r]
        /\ r.paso \in {"limpiar", "retirar", "ninguno"}
        /\ \A o \in r.resto : (o \in p.resto \/ Referido(o)) /\ (Referido(o)' => o \in inciertos')
        /\ \A o \in Objetos : Referido(o) /\ ~ Referido(o)' => o \in r.resto \cup conCausa'
        /\ inciertos \subseteq inciertos' /\ inciertos' \subseteq Objetos
        /\ conCausa \subseteq conCausa' /\ conCausa' \subseteq Objetos
        /\ fallos' \in 0..MaxFallos
  BY DEF Cierra
<1>2. TypeOK /\ p \in Peticion /\ p.resto \subseteq Objetos /\ FilaBuena(p) /\ ImagenBuena(p)
  BY Servida DEF IInv
<1>3. \A u \in Conexiones : peticion'[u] = IF u = t THEN r ELSE peticion[u]
  BY <1>1, <1>2 DEF TypeOK
<1>4. TypeOK'
  BY <1>1, <1>2 DEF TypeOK, Tablas
<1>5. Exclusion'
  BY <1>1, <1>3 DEF IInv, Exclusion, Trabaja
<1>6. subidos \in Nat /\ r.resto \subseteq Objetos
  BY <1>1, <1>2 DEF TypeOK, Peticion, Ninguna
<1>7. \A o \in Objetos : Referido(o) \/ o \in p.resto => o <= subidos
  BY <1>2, <1>6 DEF IInv, Nuevas, ImagenBuena, Objetos
<1>8. \A u \in Conexiones \ {t} : peticion[u].resto \cap p.resto = {} /\ peticion[u].resto \subseteq Objetos
  BY Servida DEF IInv, Unica
<1>9. ASSUME NEW u \in Conexiones PROVE ImagenBuena(peticion[u])'
  <2>1. CASE u = t
    <3>1. \A o \in r.resto : o <= subidos'
      BY <1>1, <1>6, <1>7
    <3>2. ImagenBuena(r)'
      BY <1>1, <3>1 DEF ImagenBuena
    <3>. QED  BY <1>3, <2>1, <3>2 DEF ImagenBuena, Sube, Referido
  <2>2. CASE u # t
    <3>1. peticion'[u] = peticion[u] /\ ImagenBuena(peticion[u])
      BY <1>3, <2>2 DEF IInv
    <3>2. \A o \in peticion[u].resto : Referido(o)' => Referido(o)
      BY <1>8, <2>2
    <3>. QED  BY <1>1, <3>1, <3>2 DEF ImagenBuena, Sube
  <2>. QED  BY <2>1, <2>2
<1>10. ASSUME NEW u \in Conexiones PROVE FilaBuena(peticion[u])'
  <2>1. CASE u = t
    BY <1>1, <1>3, <2>1 DEF FilaBuena, Trabaja
  <2>2. CASE u # t
    <3>. DEFINE q == peticion[u]
    <3>1. SUFFICES ASSUME Trabaja(q) PROVE FilaBuena(q)'
      BY <1>3, <2>2 DEF FilaBuena, Trabaja
    <3>2. peticion'[u] = q /\ FilaBuena(q) /\ q.x # x
      BY <1>3, <2>2, <3>1 DEF IInv, Exclusion, Trabaja
    <3>3. ASSUME q.x \in Solicitudes, estado[q.x] # "ausente"
          PROVE  estado'[q.x] = estado[q.x] /\ FacturasDe(q.x)' = FacturasDe(q.x)
      <4>1. PICK s \in Solicitudes : s = q.x
        BY <3>3
      <4>2. FacturasDe(s)' = FacturasDe(s) /\ estado'[s] = estado[s]
        BY <3>2, <3>3, <4>1
      <4>. QED  BY <3>2, <4>1, <4>2 DEF FacturasDe
    <3>4. ASSUME q.x \in Capturas
          PROVE  captura'[q.x] = captura[q.x] /\ FacturasDe(q.x)' = FacturasDe(q.x)
      <4>1. PICK c \in Capturas : c = q.x
        BY <3>4
      <4>2. FacturasDe(c)' = FacturasDe(c) /\ captura'[c] = captura[c]
        BY <3>2, <4>1
      <4>. QED  BY <3>2, <4>1, <4>2 DEF FacturasDe
    <3>5. ASSUME q.x \in Llaves, SinEnviar(q.x) PROVE SinEnviar(q.x)'
      <4>1. PICK k \in Llaves : k = q.x
        BY <3>5
      <4>2. SinEnviar(k)'
        BY <3>2, <3>5, <4>1
      <4>. QED  BY <3>2, <4>1, <4>2 DEF SinEnviar
    <3>. QED  BY <3>1, <3>2, <3>3, <3>4, <3>5 DEF FilaBuena
  <2>. QED  BY <2>1, <2>2
<1>11. Unica'
  <2>1. SUFFICES ASSUME NEW u \in Conexiones, NEW v \in Conexiones, u # v,
                        peticion'[u].paso = "confirmar",
                        NEW o \in peticion'[u].resto \cap peticion'[v].resto
                 PROVE  FALSE
    BY DEF Unica
  <2>2. u # t /\ peticion'[u] = peticion[u]
    BY <1>1, <1>3, <2>1
  <2>3. CASE v = t
    <3>1. o \in p.resto \/ Referido(o)
      BY <1>1, <1>3, <2>1, <2>3
    <3>2. ~ Referido(o)
      BY <2>1, <2>2 DEF IInv, ImagenBuena
    <3>. QED  BY <1>8, <2>1, <2>2, <3>1, <3>2
  <2>4. CASE v # t
    BY <1>3, <2>1, <2>2, <2>4 DEF IInv, Unica
  <2>. QED  BY <2>3, <2>4
<1>12. Nuevas'
  <2>1. SUFFICES ASSUME NEW o \in Objetos, o > subidos
                 PROVE  ~ Referido(o)' /\ o \notin guardado
    BY DEF Nuevas
  <2>2. o \notin p.resto /\ ~ Referido(o)
    BY <1>6, <1>7, <2>1 DEF Objetos
  <2>. QED  BY <2>1, <2>2 DEF IInv, Nuevas
<1>13. StorageMatchesRows'
  <2>1. SUFFICES ASSUME NEW o \in Objetos
                 PROVE  /\ Referido(o)' => o \in guardado \cup inciertos'
                        /\ o \in guardado => \/ Referido(o)' \/ o \in conCausa'
                                             \/ \E u \in Conexiones : o \in peticion'[u].resto
    BY DEF StorageMatchesRows
  <2>2. o \in p.resto => o \in guardado
    BY <1>2 DEF ImagenBuena
  <2>3. Referido(o)' => o \in guardado \cup inciertos'
    BY <1>1, <2>2 DEF IInv, StorageMatchesRows
  <2>4. CASE o \in guardado /\ ~ Referido(o)'
    <3>1. CASE Referido(o)
      BY <1>1, <1>3, <2>4, <3>1
    <3>2. CASE ~ Referido(o)
      <4>1. o \in conCausa \/ \E u \in Conexiones : o \in peticion[u].resto
        BY <2>4, <3>2 DEF IInv, StorageMatchesRows
      <4>2. o \notin p.resto
        BY <2>4
      <4>3. CASE o \in conCausa
        BY <1>1, <2>3, <4>3
      <4>4. ASSUME NEW u \in Conexiones, o \in peticion[u].resto
            PROVE  u \in Conexiones /\ o \in peticion'[u].resto
        BY <1>3, <4>2, <4>4
      <4>. QED  BY <2>3, <4>1, <4>3, <4>4
    <3>. QED  BY <3>1, <3>2
  <2>. QED  BY <2>3, <2>4
<1>14. Congela
  <2>1. x \in Solicitudes => estado[x] # "RECIBIDA"
    BY <1>2 DEF FilaBuena, Trabaja, Llaves
  <2>2. x \in Capturas => captura[x] \in {"BORRADOR", "PENDIENTE"}
    BY <1>2 DEF FilaBuena, Trabaja, Llaves
  <2>3. \A s \in Solicitudes : estado[s] = "RECIBIDA" => FacturasDe(s)' = FacturasDe(s)
    BY <2>1
  <2>4. ASSUME NEW c \in Capturas, captura[c] \notin {"ausente", "BORRADOR"}
        PROVE  /\ FacturasDe(c)' = FacturasDe(c)
               /\ captura'[c] # captura[c] =>
                    captura[c] = "PENDIENTE" /\ captura'[c] \in {"FORMALIZADA", "RECHAZADA"}
    <3>1. CASE c = x
      BY <2>2, <2>4, <3>1
    <3>2. CASE c # x
      BY <2>4, <3>2
    <3>. QED  BY <3>1, <3>2
  <2>. QED  BY <2>3, <2>4 DEF Congela
<1>. QED  BY <1>4, <1>5, <1>9, <1>10, <1>11, <1>12, <1>13, <1>14 DEF IInv

\* A request that ends with its COMMIT and gives no image up.
LEMMA Termina ==
  ASSUME IInv, NEW t \in Conexiones, peticion' = [peticion EXCEPT ![t] = Ninguna],
         UNCHANGED historia, \A o \in Objetos : Referido(o) => Referido(o)'
  PROVE  Cierra(t)
<1>1. Ninguna.paso = "ninguno" /\ Ninguna.resto = {}
  BY DEF Ninguna
<1>. QED  BY <1>1 DEF Cierra, IInv, TypeOK, historia

\* A COMMIT that changes no evidence.
LEMMA RowStep ==
  ASSUME IInv, NEW t \in Conexiones, peticion[t].paso = "confirmar", ~ Sube(peticion[t]),
         peticion' = [peticion EXCEPT ![t] = Ninguna], UNCHANGED <<archivo, historia>>,
         NEW x, x = peticion[t].x,
         Tablas',
         \A s \in Solicitudes : s = x \/ estado[s] = "ausente" \/ estado'[s] = estado[s],
         \A c \in Capturas \ {x} : captura'[c] = captura[c],
         \A c \in Capturas : captura'[c] = captura[c] \/ captura[c] = "BORRADOR" \/ captura'[c] = "RECHAZADA",
         \A k \in Llaves : k = x \/ (SinEnviar(k) => SinEnviar(k)'),
         Compartida', Ausentes', Entradas', Ordenes', OneRequestPerSubmission', ReceivedWithInvoice'
  PROVE  IInv' /\ Congela
<1>1. UNCHANGED <<factura, guardado, subidos>>
  BY DEF archivo
<1>2. peticion[t].resto = {}
  BY DEF IInv, ImagenBuena
<1>3. \A y : FacturasDe(y)' = FacturasDe(y)
  BY <1>1 DEF FacturasDe
<1>4. \A o \in Objetos : Referido(o)' <=> Referido(o)
  BY <1>1 DEF Referido
<1>5. Cierra(t)
  BY <1>4, Termina
<1>6. \A c \in Capturas : c = x /\ captura[c] = "PENDIENTE" =>
         FacturasDe(c)' = FacturasDe(c) /\ captura'[c] \in {"PENDIENTE", "FORMALIZADA", "RECHAZADA"}
  BY <1>3
<1>. QED  BY <1>1, <1>2, <1>3, <1>4, <1>5, <1>6, CommitStep

LEMMA StepConfirmarCrear ==
  ASSUME IInv, NEW t \in Conexiones, NEW s \in Solicitudes, ConfirmarCrear(t, s)
  PROVE  IInv' /\ Congela
<1>. DEFINE p == peticion[t]
<1>1. PICK x : x = p.x
  OBVIOUS
<1>2. /\ p.op = "crear" /\ p.paso = "confirmar" /\ estado[s] = "ausente"
      /\ estado' = [estado EXCEPT ![s] = "PENDIENTE"]
      /\ clave' = [clave EXCEPT ![s] = x]
      /\ reciente' = [reciente EXCEPT ![s] = TRUE]
      /\ peticion' = [peticion EXCEPT ![t] = Ninguna]
      /\ UNCHANGED <<recibo, entradas, captura, orden, factura, guardado, subidos, archivo, historia>>
  BY <1>1 DEF ConfirmarCrear, Listo, rapida, archivo
<1>3. TypeOK /\ x \in Llaves /\ SinEnviar(x) /\ ~ Sube(p) /\ x # Nada /\ x \notin Capturas
  BY <1>1, <1>2 DEF IInv, FilaBuena, Trabaja, Sube, Llaves
<1>4. \A a \in Solicitudes :
        /\ estado'[a] = IF a = s THEN "PENDIENTE" ELSE estado[a]
        /\ clave'[a] = IF a = s THEN x ELSE clave[a]
        /\ reciente'[a] = IF a = s THEN TRUE ELSE reciente[a]
  BY <1>2, <1>3 DEF TypeOK
<1>5. Tablas'
  BY <1>2, <1>3 DEF TypeOK, Tablas
<1>6. \A k \in Llaves : k = x \/ (SinEnviar(k) => SinEnviar(k)')
  BY <1>4 DEF SinEnviar
<1>7. Compartida'
  BY <1>2, <1>3, <1>4 DEF IInv, Compartida, TypeOK
<1>8. Ausentes' /\ Entradas'
  <2>1. entradas' = entradas /\ entradas[s] = 0
    BY <1>2 DEF IInv, Ausentes
  <2>2. Ausentes'
    BY <1>4, <2>1 DEF IInv, Ausentes
  <2>3. Entradas'
    BY <1>4, <2>1 DEF IInv, Entradas
  <2>. QED  BY <2>2, <2>3
<1>9. Ordenes'
  <2>1. DeCapturas' = DeCapturas
    BY <1>2, <1>3, <1>4 DEF DeCapturas
  <2>2. Formalizadas' = Formalizadas
    BY <1>2 DEF Formalizadas
  <2>. QED  BY <2>1, <2>2 DEF IInv, Ordenes
<1>10. OneRequestPerSubmission'
  <2>1. \A a \in Solicitudes : clave[a] = x => x = SinClave /\ ~ reciente[a]
    BY <1>3 DEF SinEnviar
  <2>. QED  BY <1>4, <2>1 DEF IInv, OneRequestPerSubmission
<1>11. ReceivedWithInvoice'
  BY <1>2, <1>4 DEF IInv, ReceivedWithInvoice, FacturasDe
<1>12. /\ \A a \in Solicitudes : a = x \/ estado[a] = "ausente" \/ estado'[a] = estado[a]
       /\ \A c \in Capturas \ {x} : captura'[c] = captura[c]
       /\ \A c \in Capturas : captura'[c] = captura[c] \/ captura[c] = "BORRADOR" \/ captura'[c] = "RECHAZADA"
  BY <1>2, <1>4
<1>13. /\ peticion[t].paso = "confirmar" /\ ~ Sube(peticion[t]) /\ x = peticion[t].x
       /\ peticion' = [peticion EXCEPT ![t] = Ninguna] /\ UNCHANGED <<archivo, historia>>
  BY <1>1, <1>2, <1>3
<1>. HIDE DEF p
<1>. QED  BY <1>5, <1>6, <1>7, <1>8, <1>9, <1>10, <1>11, <1>12, <1>13, RowStep

LEMMA StepConfirmarRevision ==
  ASSUME IInv, NEW t \in Conexiones, ConfirmarRevision(t)
  PROVE  IInv' /\ Congela
<1>. DEFINE p == peticion[t]
<1>1. PICK x : x = p.x
  OBVIOUS
<1>2. PICK e : e = IF p.op = "aprobar" THEN "APROBADA" ELSE "RECHAZADA"
  OBVIOUS
<1>3. /\ p.op \in {"aprobar", "rechazar"} /\ p.paso = "confirmar"
      /\ estado' = [estado EXCEPT ![x] = e]
      /\ peticion' = [peticion EXCEPT ![t] = Ninguna]
      /\ UNCHANGED <<clave, reciente, recibo, entradas, captura, orden, factura, guardado, subidos,
                     archivo, historia>>
  BY <1>1, <1>2 DEF ConfirmarRevision, En, rapida, archivo
<1>4. TypeOK /\ x \in Solicitudes /\ estado[x] = "PENDIENTE" /\ ~ Sube(p) /\ e \in {"APROBADA", "RECHAZADA"}
  BY <1>1, <1>2, <1>3 DEF IInv, FilaBuena, Trabaja, Sube
<1>5. \A a \in Solicitudes : estado'[a] = IF a = x THEN e ELSE estado[a]
  BY <1>3, <1>4 DEF TypeOK
<1>6. Tablas'
  BY <1>3, <1>4 DEF TypeOK, Tablas
<1>7. \A k \in Llaves : k = x \/ (SinEnviar(k) => SinEnviar(k)')
  BY <1>3 DEF SinEnviar
<1>8. Compartida'
  BY <1>3, <1>4, <1>5 DEF IInv, Compartida, TypeOK
<1>9. Ausentes' /\ Entradas' /\ OneRequestPerSubmission'
  BY <1>3, <1>4, <1>5 DEF IInv, Ausentes, Entradas, OneRequestPerSubmission
<1>10. Ordenes'
  <2>1. DeCapturas' = DeCapturas /\ Formalizadas' = Formalizadas
    BY <1>3, <1>4, <1>5 DEF DeCapturas, Formalizadas
  <2>. QED  BY <2>1 DEF IInv, Ordenes
<1>11. ReceivedWithInvoice'
  BY <1>3, <1>4, <1>5 DEF IInv, ReceivedWithInvoice, FacturasDe
<1>12. /\ \A a \in Solicitudes : a = x \/ estado[a] = "ausente" \/ estado'[a] = estado[a]
       /\ \A c \in Capturas \ {x} : captura'[c] = captura[c]
       /\ \A c \in Capturas : captura'[c] = captura[c] \/ captura[c] = "BORRADOR" \/ captura'[c] = "RECHAZADA"
  BY <1>3, <1>5
<1>13. /\ peticion[t].paso = "confirmar" /\ ~ Sube(peticion[t]) /\ x = peticion[t].x
       /\ peticion' = [peticion EXCEPT ![t] = Ninguna] /\ UNCHANGED <<archivo, historia>>
  BY <1>1, <1>3, <1>4
<1>. HIDE DEF p
<1>. QED  BY <1>6, <1>7, <1>8, <1>9, <1>10, <1>11, <1>12, <1>13, RowStep

\* A capture that is sent or rejected.
LEMMA CaptureStep ==
  ASSUME IInv, NEW t \in Conexiones, peticion[t].paso = "confirmar", ~ Sube(peticion[t]),
         NEW x \in Capturas, x = peticion[t].x, captura[x] \in {"BORRADOR", "PENDIENTE"},
         NEW e \in {"PENDIENTE", "RECHAZADA"}, captura' = [captura EXCEPT ![x] = e],
         peticion' = [peticion EXCEPT ![t] = Ninguna],
         UNCHANGED <<solicitud, orden, archivo, historia>>
  PROVE  IInv' /\ Congela
<1>. USE DEF solicitud
<1>1. TypeOK /\ UNCHANGED <<factura, guardado, subidos>>
  BY DEF IInv, archivo
<1>2. \A c \in Capturas : captura'[c] = IF c = x THEN e ELSE captura[c]
  BY <1>1 DEF TypeOK
<1>3. Tablas'
  BY <1>1 DEF TypeOK, Tablas
<1>4. \A k \in Llaves : SinEnviar(k) => SinEnviar(k)'
  BY DEF SinEnviar
<1>5. Compartida'
  BY <1>1, <1>2 DEF IInv, Compartida, TypeOK
<1>6. Ausentes' /\ Entradas' /\ OneRequestPerSubmission' /\ ReceivedWithInvoice'
  BY <1>1 DEF IInv, Ausentes, Entradas, OneRequestPerSubmission, ReceivedWithInvoice, FacturasDe
<1>7. Ordenes'
  <2>1. DeCapturas' = DeCapturas /\ Formalizadas' = Formalizadas
    BY <1>2 DEF DeCapturas, Formalizadas
  <2>. QED  BY <2>1 DEF IInv, Ordenes
<1>8. /\ \A a \in Solicitudes : a = x \/ estado[a] = "ausente" \/ estado'[a] = estado[a]
      /\ \A c \in Capturas \ {x} : captura'[c] = captura[c]
      /\ \A c \in Capturas : captura'[c] = captura[c] \/ captura[c] = "BORRADOR" \/ captura'[c] = "RECHAZADA"
  BY <1>2
<1>. QED  BY <1>3, <1>4, <1>5, <1>6, <1>7, <1>8, RowStep

LEMMA StepConfirmarEnvio ==
  ASSUME IInv, NEW t \in Conexiones, ConfirmarEnvio(t)
  PROVE  IInv' /\ Congela
<1>1. PICK x : x = peticion[t].x
  OBVIOUS
<1>2. /\ peticion[t].op = "enviar" /\ peticion[t].paso = "confirmar"
      /\ captura[x] = "BORRADOR" /\ captura' = [captura EXCEPT ![x] = "PENDIENTE"]
      /\ peticion' = [peticion EXCEPT ![t] = Ninguna]
      /\ UNCHANGED <<solicitud, orden, archivo, historia>>
  BY <1>1 DEF ConfirmarEnvio, Listo, Borrador
<1>3. x \in Capturas /\ ~ Sube(peticion[t])
  BY <1>1, <1>2 DEF IInv, FilaBuena, Trabaja, Sube
<1>. QED  BY <1>1, <1>2, <1>3, CaptureStep

LEMMA StepConfirmarRechazo ==
  ASSUME IInv, NEW t \in Conexiones, ConfirmarRechazo(t)
  PROVE  IInv' /\ Congela
<1>1. PICK x : x = peticion[t].x
  OBVIOUS
<1>2. /\ peticion[t].op = "rechazarCaptura" /\ peticion[t].paso = "confirmar"
      /\ captura[x] = "PENDIENTE" /\ captura' = [captura EXCEPT ![x] = "RECHAZADA"]
      /\ peticion' = [peticion EXCEPT ![t] = Ninguna]
      /\ UNCHANGED <<solicitud, orden, archivo, historia>>
  BY <1>1 DEF ConfirmarRechazo, Listo, PorGestionar
<1>3. x \in Capturas /\ ~ Sube(peticion[t])
  BY <1>1, <1>2 DEF IInv, FilaBuena, Trabaja, Sube
<1>. QED  BY <1>1, <1>2, <1>3, CaptureStep

\* What the rows written for an upload change: its images, that nobody refers
\* to, are referred to by the row it holds, and nothing else is.
LEMMA Evidencia ==
  ASSUME IInv, NEW t \in Conexiones, peticion[t].paso = "confirmar",
         NEW sol \in Solicitudes \cup {Nada}, NEW cap \in Capturas \cup {Nada},
         sol # Nada \/ cap # Nada, sol = Nada \/ cap = Nada, ConFila(t, sol, cap)
  PROVE  /\ factura' \in [Objetos -> [sol : Solicitudes \cup {Nada}, cap : Capturas \cup {Nada},
                                      envio : Envios \cup {Nada}]]
         /\ \A o \in Objetos : o \notin peticion[t].resto => factura'[o] = factura[o]
         /\ \A o \in peticion[t].resto :
              o \in Objetos /\ ~ Referido(o) /\ factura'[o].sol = sol /\ factura'[o].cap = cap
         /\ \A o \in Objetos : Referido(o)' <=> Referido(o) \/ o \in peticion[t].resto
         /\ \A y \in Solicitudes \cup Capturas :
              y # sol /\ y # cap => FacturasDe(y)' = FacturasDe(y)
         /\ \A y \in Solicitudes \cup Capturas : FacturasDe(y) \subseteq FacturasDe(y)'
         /\ \A y \in {sol, cap} : y # Nada => peticion[t].resto \subseteq FacturasDe(y)'
<1>. DEFINE p == peticion[t]
            e == IF p.op = "subir" THEN p.k ELSE Nada
<1>1. TypeOK /\ p.resto \subseteq Objetos /\ FilaBuena(p) /\ ImagenBuena(p)
  BY Servida DEF IInv
<1>2. e \in Envios \cup {Nada}
  BY <1>1 DEF FilaBuena, Trabaja
<1>3. factura' = [o \in Objetos |-> IF o \in p.resto THEN [sol |-> sol, cap |-> cap, envio |-> e]
                                                     ELSE factura[o]]
  BY DEF ConFila
<1>4. \A o \in Objetos : o \notin p.resto => factura'[o] = factura[o]
  BY <1>3
<1>5. \A o \in p.resto : o \in Objetos /\ ~ Referido(o) /\ factura'[o].sol = sol /\ factura'[o].cap = cap
  BY <1>1, <1>3 DEF ImagenBuena
<1>6. factura' \in [Objetos -> [sol : Solicitudes \cup {Nada}, cap : Capturas \cup {Nada},
                                envio : Envios \cup {Nada}]]
  <2>. HIDE DEF e
  <2>. QED  BY <1>1, <1>2, <1>3 DEF TypeOK
<1>7. \A o \in Objetos : Referido(o)' <=> Referido(o) \/ o \in p.resto
  BY <1>4, <1>5 DEF Referido
<1>8. \A y \in Solicitudes \cup Capturas : y # sol /\ y # cap => FacturasDe(y)' = FacturasDe(y)
  <2>. HIDE DEF p
  <2>. QED  BY <1>4, <1>5 DEF FacturasDe, Referido
<1>9. \A y \in Solicitudes \cup Capturas : FacturasDe(y) \subseteq FacturasDe(y)'
  <2>. HIDE DEF p
  <2>. QED  BY <1>4, <1>5 DEF FacturasDe, Referido
<1>10. \A y \in {sol, cap} : y # Nada => p.resto \subseteq FacturasDe(y)'
  BY <1>5 DEF FacturasDe
<1>. QED  BY <1>4, <1>5, <1>6, <1>7, <1>8, <1>9, <1>10

\* An upload that leaves the row as it is.
LEMMA UploadStep ==
  ASSUME IInv, NEW t \in Conexiones, NEW perdida \in BOOLEAN, peticion[t].paso = "confirmar",
         NEW x, x = peticion[t].x, NEW sol, NEW cap,
         (sol = x /\ cap = Nada /\ x \in Solicitudes /\ estado[x] = "APROBADA")
           \/ (sol = Nada /\ cap = x /\ x \in Capturas /\ captura[x] = "BORRADOR"),
         ConFila(t, sol, cap), Concluye(t, perdida, {}),
         UNCHANGED <<solicitud, rapida, guardado, subidos>>
  PROVE  IInv' /\ Congela
<1>. USE DEF solicitud, rapida
<1>. DEFINE p == peticion[t]
<1>1. /\ sol \in Solicitudes \cup {Nada} /\ cap \in Capturas \cup {Nada}
      /\ sol # Nada \/ cap # Nada
      /\ sol = Nada \/ cap = Nada
  OBVIOUS
<1>2. /\ factura' \in [Objetos -> [sol : Solicitudes \cup {Nada}, cap : Capturas \cup {Nada},
                                   envio : Envios \cup {Nada}]]
      /\ \A o \in Objetos : o \notin p.resto => factura'[o] = factura[o]
      /\ \A o \in p.resto :
           o \in Objetos /\ ~ Referido(o) /\ factura'[o].sol = sol /\ factura'[o].cap = cap
      /\ \A o \in Objetos : Referido(o)' <=> Referido(o) \/ o \in p.resto
      /\ \A y \in Solicitudes \cup Capturas : y # sol /\ y # cap => FacturasDe(y)' = FacturasDe(y)
      /\ \A y \in Solicitudes \cup Capturas : FacturasDe(y) \subseteq FacturasDe(y)'
  BY <1>1, Evidencia
<1>3. TypeOK
  BY DEF IInv
<1>4. Cierra(t)
  <2>1. \A o \in Objetos : o \in {} <=> Referido(o) /\ ~ Referido(o)'
    BY <1>2
  <2>. QED  BY <2>1, Conclusion
<1>5. Compartida'
  <2>1. SUFFICES ASSUME NEW o \in Objetos, factura'[o].sol # Nada, factura'[o].cap # Nada
                 PROVE  captura[factura'[o].cap] = "FORMALIZADA" /\ estado[factura'[o].sol] = "RECIBIDA"
    BY DEF Compartida
  <2>2. factura'[o] = factura[o]
    BY <1>1, <1>2, <2>1
  <2>. QED  BY <2>1, <2>2 DEF IInv, Compartida
<1>6. Ausentes' /\ Entradas' /\ OneRequestPerSubmission'
  BY DEF IInv, Ausentes, Entradas, OneRequestPerSubmission
<1>7. Ordenes'
  <2>1. DeCapturas' = DeCapturas /\ Formalizadas' = Formalizadas
    BY DEF DeCapturas, Formalizadas
  <2>. QED  BY <2>1 DEF IInv, Ordenes
<1>8. ReceivedWithInvoice'
  BY <1>2 DEF IInv, ReceivedWithInvoice
<1>9. \A k \in Llaves : k = x \/ (SinEnviar(k) => SinEnviar(k)')
  BY DEF SinEnviar
<1>10. Tablas'
  BY <1>2, <1>3 DEF TypeOK, Tablas
<1>11. /\ \A s \in Solicitudes : s = x \/ estado[s] = "ausente" \/ estado'[s] = estado[s]
       /\ \A c \in Capturas : c = x \/ captura'[c] = captura[c]
  OBVIOUS
<1>12. /\ \A s \in Solicitudes : s = x \/ estado[s] = "ausente" \/ FacturasDe(s)' = FacturasDe(s)
       /\ \A c \in Capturas : c = x \/ FacturasDe(c)' = FacturasDe(c)
  BY <1>1, <1>2
<1>13. /\ \A o \in Objetos : Referido(o)' => Referido(o) \/ o \in p.resto
       /\ \A o \in p.resto : o \in Objetos => Referido(o)'
       /\ UNCHANGED <<guardado, subidos>>
       /\ \A c \in Capturas : c = x /\ captura[c] = "PENDIENTE" =>
            FacturasDe(c)' = FacturasDe(c) /\ captura'[c] \in {"PENDIENTE", "FORMALIZADA", "RECHAZADA"}
  BY <1>2
<1>. QED  BY <1>2, <1>4, <1>5, <1>6, <1>7, <1>8, <1>9, <1>10, <1>11, <1>12, <1>13, CommitStep

LEMMA StepConfirmarSubida ==
  ASSUME IInv, NEW t \in Conexiones, NEW perdida \in BOOLEAN, ConfirmarSubida(t, perdida)
  PROVE  IInv' /\ Congela
<1>1. PICK x : x = peticion[t].x
  OBVIOUS
<1>2. /\ peticion[t].op = "subir" /\ peticion[t].paso = "confirmar"
      /\ ConFila(t, x, Nada) /\ Concluye(t, perdida, {})
      /\ UNCHANGED <<solicitud, rapida, guardado, subidos>>
  BY <1>1 DEF ConfirmarSubida, Listo
<1>3. x \in Solicitudes /\ estado[x] = "APROBADA"
  BY <1>1, <1>2 DEF IInv, FilaBuena, Trabaja
<1>. QED  BY <1>1, <1>2, <1>3, UploadStep

LEMMA StepConfirmarSubidaCaptura ==
  ASSUME IInv, NEW t \in Conexiones, NEW perdida \in BOOLEAN, ConfirmarSubidaCaptura(t, perdida)
  PROVE  IInv' /\ Congela
<1>1. PICK x : x = peticion[t].x
  OBVIOUS
<1>2. /\ peticion[t].op = "subirCaptura" /\ peticion[t].paso = "confirmar"
      /\ ConFila(t, Nada, x) /\ Concluye(t, perdida, {})
      /\ UNCHANGED <<solicitud, rapida, guardado, subidos>>
  BY <1>1 DEF ConfirmarSubidaCaptura, Listo
<1>3. x \in Capturas /\ captura[x] = "BORRADOR"
  BY <1>1, <1>2 DEF IInv, FilaBuena, Trabaja
<1>. QED  BY <1>1, <1>2, <1>3, UploadStep

LEMMA StepConfirmarRecepcion ==
  ASSUME IInv, NEW t \in Conexiones, NEW perdida \in BOOLEAN, ConfirmarRecepcion(t, perdida)
  PROVE  IInv' /\ Congela
<1>. DEFINE p == peticion[t]
<1>1. PICK x : x = p.x
  OBVIOUS
<1>2. /\ p.op = "recibir" /\ p.paso = "confirmar"
      /\ estado' = [estado EXCEPT ![x] = "RECIBIDA"]
      /\ recibo' = [recibo EXCEPT ![x] = p.k]
      /\ entradas' = [entradas EXCEPT ![x] = @ + 1]
      /\ ConFila(t, x, Nada) /\ Concluye(t, perdida, {})
      /\ UNCHANGED <<clave, reciente, captura, orden, guardado, subidos>>
  BY <1>1 DEF ConfirmarRecepcion, Listo, rapida
<1>3. /\ TypeOK /\ x \in Solicitudes /\ estado[x] = "APROBADA" /\ p.k \in Recibos
      /\ p.con \/ FacturasDe(x) # {}
      /\ p.con => p.resto # {}
  BY <1>1, <1>2 DEF IInv, FilaBuena, ImagenBuena, Trabaja, Sube
<1>4. /\ factura' \in [Objetos -> [sol : Solicitudes \cup {Nada}, cap : Capturas \cup {Nada},
                                   envio : Envios \cup {Nada}]]
      /\ \A o \in Objetos : o \notin p.resto => factura'[o] = factura[o]
      /\ \A o \in p.resto : o \in Objetos /\ ~ Referido(o) /\ factura'[o].sol = x /\ factura'[o].cap = Nada
      /\ \A o \in Objetos : Referido(o)' <=> Referido(o) \/ o \in p.resto
      /\ \A y \in Solicitudes \cup Capturas : y # x /\ y # Nada => FacturasDe(y)' = FacturasDe(y)
      /\ \A y \in Solicitudes \cup Capturas : FacturasDe(y) \subseteq FacturasDe(y)'
      /\ p.resto \subseteq FacturasDe(x)'
  BY <1>2, <1>3, Evidencia
<1>5. Cierra(t)
  <2>1. \A o \in Objetos : o \in {} <=> Referido(o) /\ ~ Referido(o)'
    BY <1>4
  <2>. QED  BY <1>2, <2>1, Conclusion
<1>6. \A s \in Solicitudes :
        /\ estado'[s] = IF s = x THEN "RECIBIDA" ELSE estado[s]
        /\ entradas'[s] = IF s = x THEN entradas[s] + 1 ELSE entradas[s]
  BY <1>2, <1>3 DEF TypeOK
<1>7. Compartida'
  <2>1. SUFFICES ASSUME NEW o \in Objetos, factura'[o].sol # Nada, factura'[o].cap # Nada
                 PROVE  captura'[factura'[o].cap] = "FORMALIZADA" /\ estado'[factura'[o].sol] = "RECIBIDA"
    BY DEF Compartida
  <2>2. factura'[o] = factura[o] /\ factura[o].sol \in Solicitudes
    BY <1>4, <2>1, Clases
  <2>. QED  BY <1>2, <1>6, <2>1, <2>2 DEF IInv, Compartida
<1>8. Entradas'
  <2>1. entradas[x] = 0
    BY <1>3 DEF IInv, Entradas
  <2>. QED  BY <1>6, <2>1 DEF IInv, Entradas
<1>9. Ausentes'
  <2>1. \A s \in Solicitudes : estado'[s] = "ausente" => estado[s] = "ausente" /\ entradas'[s] = entradas[s]
    BY <1>6
  <2>. QED  BY <1>2, <2>1 DEF IInv, Ausentes
<1>10. OneRequestPerSubmission'
  BY <1>2 DEF IInv, OneRequestPerSubmission
<1>11. Ordenes'
  <2>1. DeCapturas' = DeCapturas /\ Formalizadas' = Formalizadas
    BY <1>2, <1>3, <1>6 DEF DeCapturas, Formalizadas
  <2>. QED  BY <2>1 DEF IInv, Ordenes
<1>12. ReceivedWithInvoice'
  <2>1. SUFFICES ASSUME NEW s \in Solicitudes, estado'[s] = "RECIBIDA" PROVE FacturasDe(s)' # {}
    BY DEF ReceivedWithInvoice
  <2>2. CASE s = x
    BY <1>3, <1>4, <2>2
  <2>3. CASE s # x
    BY <1>4, <1>6, <2>1, <2>3 DEF IInv, ReceivedWithInvoice
  <2>. QED  BY <2>2, <2>3
<1>13. \A k \in Llaves : k = x \/ (SinEnviar(k) => SinEnviar(k)')
  BY <1>2 DEF SinEnviar
<1>14. Tablas'
  BY <1>2, <1>3, <1>4 DEF TypeOK, Tablas
<1>15. /\ \A s \in Solicitudes : s = x \/ estado[s] = "ausente" \/ estado'[s] = estado[s]
       /\ \A c \in Capturas : c = x \/ captura'[c] = captura[c]
  BY <1>2, <1>6
<1>16. /\ \A s \in Solicitudes : s = x \/ estado[s] = "ausente" \/ FacturasDe(s)' = FacturasDe(s)
       /\ \A c \in Capturas : c = x \/ FacturasDe(c)' = FacturasDe(c)
  BY <1>4
<1>17. /\ \A o \in Objetos : Referido(o)' => Referido(o) \/ o \in peticion[t].resto
       /\ \A o \in peticion[t].resto : o \in Objetos => Referido(o)'
       /\ UNCHANGED <<guardado, subidos>> /\ peticion[t].paso = "confirmar" /\ x = peticion[t].x
       /\ \A c \in Capturas : c # x
  BY <1>1, <1>2, <1>3, <1>4
<1>. HIDE DEF p
<1>. QED  BY <1>4, <1>5, <1>7, <1>8, <1>9, <1>10, <1>11, <1>12, <1>13, <1>14, <1>15, <1>16, <1>17,
             CommitStep

\* A COMMIT that gives up images of a row that is still open.
LEMMA RemovalStep ==
  ASSUME IInv, NEW t \in Conexiones, NEW perdida \in BOOLEAN, peticion[t].paso = "confirmar",
         ~ Sube(peticion[t]), NEW x \in Solicitudes \cup Capturas, x = peticion[t].x,
         x \in Solicitudes => estado[x] = "APROBADA", x \in Capturas => captura[x] = "BORRADOR",
         NEW B \in SUBSET Objetos, B \subseteq FacturasDe(x), Concluye(t, perdida, B),
         factura' \in [Objetos -> [sol : Solicitudes \cup {Nada}, cap : Capturas \cup {Nada},
                                   envio : Envios \cup {Nada}]],
         \A o \in Objetos : o \notin B => factura'[o] = factura[o],
         \A o \in B : ~ Referido(o)',
         captura' \in [Capturas -> {"ausente", "BORRADOR", "PENDIENTE", "FORMALIZADA",
                                    "RECHAZADA", "descartada"}],
         \A c \in Capturas : captura'[c] = captura[c] \/ (c = x /\ captura'[c] = "descartada"),
         UNCHANGED <<solicitud, orden, guardado, subidos>>
  PROVE  IInv' /\ Congela
<1>. USE DEF solicitud
<1>. DEFINE p == peticion[t]
<1>1. TypeOK /\ p.resto = {} /\ x # Nada
  BY DEF IInv, ImagenBuena
<1>2. \A o \in B : factura[o].sol = x \/ factura[o].cap = x
  BY DEF FacturasDe
<1>3. \A o \in B : factura[o].sol \in {x, Nada} /\ factura[o].cap \in {x, Nada}
  <2>1. SUFFICES ASSUME NEW o \in B, factura[o].sol # Nada, factura[o].cap # Nada PROVE FALSE
    BY <1>2
  <2>2. captura[factura[o].cap] = "FORMALIZADA" /\ estado[factura[o].sol] = "RECIBIDA"
    BY <2>1 DEF IInv, Compartida
  <2>3. (factura[o].sol = x => x \in Solicitudes) /\ (factura[o].cap = x => x \in Capturas)
    BY <1>1, Clases
  <2>. QED  BY <1>2, <2>2, <2>3
<1>4. \A y \in Solicitudes \cup Capturas : y = x \/ FacturasDe(y)' = FacturasDe(y)
  <2>1. SUFFICES ASSUME NEW y \in Solicitudes \cup Capturas, y # x, NEW o \in Objetos
                 PROVE  (o \in FacturasDe(y))' <=> o \in FacturasDe(y)
    BY DEF FacturasDe
  <2>2. CASE o \in B
    <3>1. y # Nada /\ factura'[o].sol = Nada /\ factura'[o].cap = Nada
      BY <2>2 DEF Referido
    <3>. QED  BY <1>3, <2>1, <2>2, <3>1 DEF FacturasDe
  <2>3. CASE o \notin B
    BY <2>3 DEF FacturasDe
  <2>. QED  BY <2>2, <2>3
<1>5. \A o \in Objetos : o \in B <=> Referido(o) /\ ~ Referido(o)'
  BY <1>1, <1>2 DEF Referido
<1>6. Cierra(t)
  BY <1>5, Conclusion
<1>7. Compartida'
  <2>1. SUFFICES ASSUME NEW o \in Objetos, factura'[o].sol # Nada, factura'[o].cap # Nada
                 PROVE  captura'[factura'[o].cap] = "FORMALIZADA" /\ estado[factura'[o].sol] = "RECIBIDA"
    BY DEF Compartida
  <2>2. factura'[o] = factura[o] /\ factura[o].cap \in Capturas
    BY <2>1, Clases DEF Referido
  <2>3. captura[factura[o].cap] = "FORMALIZADA" /\ estado[factura[o].sol] = "RECIBIDA"
    BY <2>1, <2>2 DEF IInv, Compartida
  <2>. QED  BY <2>2, <2>3
<1>8. Ausentes' /\ Entradas' /\ OneRequestPerSubmission'
  BY DEF IInv, Ausentes, Entradas, OneRequestPerSubmission
<1>9. Ordenes'
  <2>1. DeCapturas' = DeCapturas /\ Formalizadas' = Formalizadas
    BY DEF DeCapturas, Formalizadas
  <2>. QED  BY <2>1 DEF IInv, Ordenes
<1>10. ReceivedWithInvoice'
  BY <1>4 DEF IInv, ReceivedWithInvoice
<1>11. \A k \in Llaves : k = x \/ (SinEnviar(k) => SinEnviar(k)')
  BY DEF SinEnviar
<1>12. Tablas'
  BY <1>1 DEF TypeOK, Tablas
<1>13. /\ \A s \in Solicitudes : s = x \/ estado[s] = "ausente" \/ estado'[s] = estado[s]
       /\ \A c \in Capturas : c = x \/ captura'[c] = captura[c]
  OBVIOUS
<1>14. /\ \A s \in Solicitudes : s = x \/ estado[s] = "ausente" \/ FacturasDe(s)' = FacturasDe(s)
       /\ \A c \in Capturas : c = x \/ FacturasDe(c)' = FacturasDe(c)
  BY <1>4
<1>15. /\ \A o \in Objetos : Referido(o)' => Referido(o) \/ o \in peticion[t].resto
       /\ \A o \in peticion[t].resto : o \in Objetos => Referido(o)'
       /\ UNCHANGED <<guardado, subidos>>
       /\ \A c \in Capturas : c = x => captura[c] # "PENDIENTE"
  BY <1>1, <1>2 DEF Referido
<1>. QED  BY <1>6, <1>7, <1>8, <1>9, <1>10, <1>11, <1>12, <1>13, <1>14, <1>15, CommitStep

LEMMA StepConfirmarQuita ==
  ASSUME IInv, NEW t \in Conexiones, NEW perdida \in BOOLEAN, ConfirmarQuita(t, perdida)
  PROVE  IInv' /\ Congela
<1>1. PICK x : x = peticion[t].x
  OBVIOUS
<1>2. PICK o : o = peticion[t].o
  OBVIOUS
<1>3. /\ peticion[t].op = "quitar" /\ peticion[t].paso = "confirmar"
      /\ factura' = [factura EXCEPT ![o].sol = Nada, ![o].envio = Nada]
      /\ Concluye(t, perdida, {o})
      /\ UNCHANGED <<solicitud, captura, orden, guardado, subidos>>
  BY <1>1, <1>2 DEF ConfirmarQuita, Listo, rapida
<1>4. /\ TypeOK /\ x \in Solicitudes /\ x \notin Capturas /\ estado[x] = "APROBADA" /\ o \in FacturasDe(x)
      /\ ~ Sube(peticion[t])
  BY <1>1, <1>2, <1>3 DEF IInv, FilaBuena, Trabaja, Sube
<1>5. o \in Objetos /\ factura[o].sol = x /\ factura[o].cap = Nada
  <2>1. o \in Objetos /\ factura[o].sol = x
    BY <1>4, Clases DEF FacturasDe
  <2>2. factura[o].cap = Nada
    BY <1>4, <2>1 DEF IInv, Compartida
  <2>. QED  BY <2>1, <2>2
<1>6. \A a \in Objetos : a # o => factura'[a] = factura[a]
  BY <1>3, <1>4, <1>5 DEF TypeOK
<1>7. /\ factura' \in [Objetos -> [sol : Solicitudes \cup {Nada}, cap : Capturas \cup {Nada},
                                   envio : Envios \cup {Nada}]]
      /\ factura'[o].sol = Nada /\ factura'[o].cap = Nada
  <2>1. factura \in [Objetos -> [sol : Solicitudes \cup {Nada}, cap : Capturas \cup {Nada},
                                 envio : Envios \cup {Nada}]]
    BY <1>4 DEF TypeOK
  <2>2. PICK f : f = [factura EXCEPT ![o].sol = Nada]
    OBVIOUS
  <2>3. /\ f \in [Objetos -> [sol : Solicitudes \cup {Nada}, cap : Capturas \cup {Nada},
                             envio : Envios \cup {Nada}]]
        /\ f[o].sol = Nada /\ f[o].cap = Nada
    BY <1>5, <2>1, <2>2
  <2>4. factura' = [f EXCEPT ![o].envio = Nada]
    BY <1>3, <1>5, <2>1, <2>2
  <2>. QED  BY <1>5, <2>3, <2>4
<1>8. \A a \in {o} : ~ Referido(a)'
  BY <1>7 DEF Referido
<1>9. /\ {o} \in SUBSET Objetos /\ {o} \subseteq FacturasDe(x)
      /\ \A a \in Objetos : a \notin {o} => factura'[a] = factura[a]
      /\ captura' \in [Capturas -> {"ausente", "BORRADOR", "PENDIENTE", "FORMALIZADA",
                                    "RECHAZADA", "descartada"}]
      /\ \A c \in Capturas : captura'[c] = captura[c] \/ (c = x /\ captura'[c] = "descartada")
      /\ UNCHANGED <<solicitud, orden, guardado, subidos>>
  BY <1>3, <1>4, <1>5, <1>6 DEF TypeOK
<1>. QED  BY <1>1, <1>3, <1>4, <1>7, <1>8, <1>9, RemovalStep

LEMMA StepConfirmarQuitaCaptura ==
  ASSUME IInv, NEW t \in Conexiones, NEW perdida \in BOOLEAN, ConfirmarQuitaCaptura(t, perdida)
  PROVE  IInv' /\ Congela
<1>1. PICK x : x = peticion[t].x
  OBVIOUS
<1>2. PICK o : o = peticion[t].o
  OBVIOUS
<1>3. /\ peticion[t].op = "quitarCaptura" /\ peticion[t].paso = "confirmar"
      /\ factura' = [factura EXCEPT ![o].cap = Nada]
      /\ Concluye(t, perdida, {o})
      /\ UNCHANGED <<solicitud, captura, orden, guardado, subidos>>
  BY <1>1, <1>2 DEF ConfirmarQuitaCaptura, Listo, rapida
<1>4. /\ TypeOK /\ x \in Capturas /\ x \notin Solicitudes /\ captura[x] = "BORRADOR" /\ o \in FacturasDe(x)
      /\ ~ Sube(peticion[t])
  BY <1>1, <1>2, <1>3 DEF IInv, FilaBuena, Trabaja, Sube
<1>5. o \in Objetos /\ factura[o].cap = x /\ factura[o].sol = Nada
  <2>1. o \in Objetos /\ factura[o].cap = x
    BY <1>4, Clases DEF FacturasDe
  <2>2. factura[o].sol = Nada
    BY <1>4, <2>1 DEF IInv, Compartida
  <2>. QED  BY <2>1, <2>2
<1>6. \A a \in Objetos : a # o => factura'[a] = factura[a]
  BY <1>3, <1>4, <1>5 DEF TypeOK
<1>7. /\ factura' \in [Objetos -> [sol : Solicitudes \cup {Nada}, cap : Capturas \cup {Nada},
                                   envio : Envios \cup {Nada}]]
      /\ factura'[o].sol = Nada /\ factura'[o].cap = Nada
  BY <1>3, <1>4, <1>5 DEF TypeOK
<1>8. \A a \in {o} : ~ Referido(a)'
  BY <1>7 DEF Referido
<1>9. /\ {o} \in SUBSET Objetos /\ {o} \subseteq FacturasDe(x)
      /\ \A a \in Objetos : a \notin {o} => factura'[a] = factura[a]
      /\ captura' \in [Capturas -> {"ausente", "BORRADOR", "PENDIENTE", "FORMALIZADA",
                                    "RECHAZADA", "descartada"}]
      /\ \A c \in Capturas : captura'[c] = captura[c] \/ (c = x /\ captura'[c] = "descartada")
      /\ UNCHANGED <<solicitud, orden, guardado, subidos>>
  BY <1>3, <1>4, <1>5, <1>6 DEF TypeOK
<1>. QED  BY <1>1, <1>3, <1>4, <1>7, <1>8, <1>9, RemovalStep

LEMMA StepConfirmarDescarte ==
  ASSUME IInv, NEW t \in Conexiones, NEW perdida \in BOOLEAN, ConfirmarDescarte(t, perdida)
  PROVE  IInv' /\ Congela
<1>1. PICK x : x = peticion[t].x
  OBVIOUS
<1>2. PICK B : B = FacturasDe(x)
  OBVIOUS
<1>3. /\ peticion[t].op = "descartar" /\ peticion[t].paso = "confirmar"
      /\ captura' = [captura EXCEPT ![x] = "descartada"]
      /\ factura' = [o \in Objetos |-> IF o \in B THEN SinFilas ELSE factura[o]]
      /\ Concluye(t, perdida, B)
      /\ UNCHANGED <<solicitud, orden, guardado, subidos>>
  BY <1>1, <1>2 DEF ConfirmarDescarte, Listo
<1>4. TypeOK /\ x \in Capturas /\ x \notin Solicitudes /\ captura[x] = "BORRADOR" /\ ~ Sube(peticion[t])
  BY <1>1, <1>3 DEF IInv, FilaBuena, Trabaja, Sube
<1>5. B \in SUBSET Objetos /\ B \subseteq FacturasDe(x)
  BY <1>2 DEF FacturasDe
<1>6. /\ factura' \in [Objetos -> [sol : Solicitudes \cup {Nada}, cap : Capturas \cup {Nada},
                                   envio : Envios \cup {Nada}]]
      /\ \A o \in Objetos : o \notin B => factura'[o] = factura[o]
  BY <1>3, <1>4 DEF TypeOK, SinFilas
<1>7. \A o \in B : ~ Referido(o)'
  BY <1>3, <1>5 DEF Referido, SinFilas
<1>8. /\ captura' \in [Capturas -> {"ausente", "BORRADOR", "PENDIENTE", "FORMALIZADA",
                                    "RECHAZADA", "descartada"}]
      /\ \A c \in Capturas : captura'[c] = captura[c] \/ (c = x /\ captura'[c] = "descartada")
  BY <1>3, <1>4 DEF TypeOK
<1>. QED  BY <1>1, <1>3, <1>4, <1>5, <1>6, <1>7, <1>8, RemovalStep

\* The order and its capture take the images of the capture together.
LEMMA StepConfirmarFormalizacion ==
  ASSUME IInv, NEW t \in Conexiones, NEW s \in Solicitudes, ConfirmarFormalizacion(t, s)
  PROVE  IInv' /\ Congela
<1>. DEFINE p == peticion[t]
<1>1. PICK x : x = p.x
  OBVIOUS
<1>2. /\ p.op = "formalizar" /\ p.paso = "confirmar" /\ estado[s] = "ausente"
      /\ estado' = [estado EXCEPT ![s] = "RECIBIDA"]
      /\ entradas' = [entradas EXCEPT ![s] = @ + 1]
      /\ captura' = [captura EXCEPT ![x] = "FORMALIZADA"]
      /\ orden' = [orden EXCEPT ![x] = s]
      /\ factura' = [o \in Objetos |-> IF factura[o].cap = x THEN [factura[o] EXCEPT !.sol = s]
                                                             ELSE factura[o]]
      /\ peticion' = [peticion EXCEPT ![t] = Ninguna]
      /\ UNCHANGED <<clave, reciente, recibo, guardado, subidos, historia>>
  BY <1>1 DEF ConfirmarFormalizacion, Listo
<1>3. /\ TypeOK /\ x \in Capturas /\ x # Nada /\ x \notin Solicitudes /\ captura[x] = "PENDIENTE"
      /\ FacturasDe(x) # {} /\ ~ Sube(p) /\ p.resto = {} /\ s # Nada /\ s \notin Capturas
  BY <1>1, <1>2 DEF IInv, FilaBuena, ImagenBuena, Trabaja, Sube
<1>4. /\ \A a \in Solicitudes :
           /\ estado'[a] = IF a = s THEN "RECIBIDA" ELSE estado[a]
           /\ entradas'[a] = IF a = s THEN entradas[a] + 1 ELSE entradas[a]
      /\ \A c \in Capturas : captura'[c] = IF c = x THEN "FORMALIZADA" ELSE captura[c]
  BY <1>2, <1>3 DEF TypeOK
<1>5. \A o \in Objetos :
        /\ factura'[o].cap = factura[o].cap
        /\ factura'[o].sol = IF factura[o].cap = x THEN s ELSE factura[o].sol
        /\ factura[o].cap = x => factura[o].sol = Nada
  <2>1. \A o \in Objetos : factura'[o].cap = factura[o].cap
                           /\ factura'[o].sol = IF factura[o].cap = x THEN s ELSE factura[o].sol
    BY <1>2, <1>3 DEF TypeOK
  <2>2. \A o \in Objetos : factura[o].cap = x => factura[o].sol = Nada
    BY <1>3 DEF IInv, Compartida
  <2>. QED  BY <2>1, <2>2
<1>6. Tablas'
  <2>1. factura' \in [Objetos -> [sol : Solicitudes \cup {Nada}, cap : Capturas \cup {Nada},
                                  envio : Envios \cup {Nada}]]
    BY <1>2, <1>3 DEF TypeOK
  <2>. QED  BY <1>2, <1>3, <2>1 DEF TypeOK, Tablas
<1>7. Cierra(t)
  BY <1>2, <1>3, <1>5, Termina DEF Referido
<1>8. \A c \in Capturas : FacturasDe(c)' = FacturasDe(c)
  BY <1>3, <1>5, Clases DEF FacturasDe
<1>9. \A a \in Solicitudes : a = s \/ FacturasDe(a)' = FacturasDe(a)
  BY <1>5 DEF FacturasDe
<1>10. Compartida'
  <2>1. SUFFICES ASSUME NEW o \in Objetos, factura'[o].sol # Nada, factura'[o].cap # Nada
                 PROVE  captura'[factura'[o].cap] = "FORMALIZADA" /\ estado'[factura'[o].sol] = "RECIBIDA"
    BY DEF Compartida
  <2>2. CASE factura[o].cap = x
    BY <1>3, <1>4, <1>5, <2>2
  <2>3. CASE factura[o].cap # x
    <3>1. /\ factura[o].sol \in Solicitudes /\ factura[o].cap \in Capturas
          /\ captura[factura[o].cap] = "FORMALIZADA" /\ estado[factura[o].sol] = "RECIBIDA"
      BY <1>5, <2>1, <2>3, Clases DEF IInv, Compartida
    <3>. QED  BY <1>4, <1>5, <2>3, <3>1
  <2>. QED  BY <2>2, <2>3
<1>11. clave[s] = Nada /\ entradas[s] = 0
  BY <1>2 DEF IInv, Ausentes
<1>12. Ausentes'
  BY <1>2, <1>4 DEF IInv, Ausentes
<1>13. Entradas'
  BY <1>4, <1>11 DEF IInv, Entradas
<1>14. OneRequestPerSubmission'
  BY <1>2 DEF IInv, OneRequestPerSubmission
<1>15. Ordenes'
  <2>1. DeCapturas' = DeCapturas \cup {s} /\ s \notin DeCapturas
    BY <1>2, <1>4, <1>11 DEF DeCapturas
  <2>2. Formalizadas' = Formalizadas \cup {x} /\ x \notin Formalizadas
    BY <1>3, <1>4 DEF Formalizadas
  <2>3. IsFiniteSet(DeCapturas) /\ IsFiniteSet(Formalizadas)
        /\ Cardinality(DeCapturas) = Cardinality(Formalizadas)
    BY DEF IInv, Ordenes
  <2>4. /\ IsFiniteSet(DeCapturas \cup {s})
        /\ Cardinality(DeCapturas \cup {s}) = Cardinality(DeCapturas) + 1
    BY <2>1, <2>3, FS_AddElement
  <2>5. /\ IsFiniteSet(Formalizadas \cup {x})
        /\ Cardinality(Formalizadas \cup {x}) = Cardinality(Formalizadas) + 1
    BY <2>2, <2>3, FS_AddElement
  <2>. QED  BY <2>1, <2>2, <2>3, <2>4, <2>5 DEF Ordenes
<1>16. ReceivedWithInvoice'
  <2>1. SUFFICES ASSUME NEW a \in Solicitudes, estado'[a] = "RECIBIDA" PROVE FacturasDe(a)' # {}
    BY DEF ReceivedWithInvoice
  <2>2. CASE a = s
    <3>1. PICK o \in Objetos : factura[o].cap = x
      BY <1>3, Clases DEF FacturasDe
    <3>. QED  BY <1>5, <2>2, <3>1 DEF FacturasDe
  <2>3. CASE a # s
    BY <1>4, <1>9, <2>1, <2>3 DEF IInv, ReceivedWithInvoice
  <2>. QED  BY <2>2, <2>3
<1>17. \A k \in Llaves : k = x \/ (SinEnviar(k) => SinEnviar(k)')
  BY <1>2 DEF SinEnviar
<1>18. /\ \A a \in Solicitudes : a = x \/ estado[a] = "ausente" \/ estado'[a] = estado[a]
       /\ \A c \in Capturas : c = x \/ captura'[c] = captura[c]
       /\ \A c \in Capturas : c = x /\ captura[c] = "PENDIENTE" =>
            FacturasDe(c)' = FacturasDe(c) /\ captura'[c] \in {"PENDIENTE", "FORMALIZADA", "RECHAZADA"}
  BY <1>2, <1>4, <1>8
<1>19. /\ \A a \in Solicitudes : a = x \/ estado[a] = "ausente" \/ FacturasDe(a)' = FacturasDe(a)
       /\ \A c \in Capturas : c = x \/ FacturasDe(c)' = FacturasDe(c)
  BY <1>2, <1>8, <1>9
<1>20. /\ \A o \in Objetos : Referido(o)' => Referido(o) \/ o \in peticion[t].resto
       /\ \A o \in peticion[t].resto : o \in Objetos => Referido(o)'
       /\ UNCHANGED <<guardado, subidos>> /\ peticion[t].paso = "confirmar" /\ x = peticion[t].x
  BY <1>1, <1>2, <1>3, <1>5 DEF Referido
<1>. HIDE DEF p
<1>. QED  BY <1>6, <1>7, <1>10, <1>12, <1>13, <1>14, <1>15, <1>16, <1>17, <1>18, <1>19, <1>20,
             CommitStep
-----------------------------------------------------------------------------
(* The specification. *)

LEMMA InitIInv == Init => IInv
<1>. SUFFICES ASSUME Init PROVE IInv
  OBVIOUS
<1>. USE DEF Init
<1>1. TypeOK
  BY DEF TypeOK, Ninguna, SinFilas
<1>2. \A t \in Conexiones : peticion[t].paso = "ninguno" /\ peticion[t].resto = {}
  BY DEF Ninguna
<1>3. \A o \in Objetos : factura[o].sol = Nada /\ factura[o].cap = Nada /\ ~ Referido(o)
  BY DEF SinFilas, Referido
<1>4. Exclusion /\ Unica /\ \A t \in Conexiones : FilaBuena(peticion[t]) /\ ImagenBuena(peticion[t])
  BY <1>2 DEF Exclusion, Trabaja, Unica, FilaBuena, ImagenBuena
<1>5. Nuevas /\ Compartida /\ StorageMatchesRows
  BY <1>3 DEF Nuevas, Compartida, StorageMatchesRows
<1>6. Ausentes /\ Entradas /\ OneRequestPerSubmission /\ ReceivedWithInvoice
  BY DEF Ausentes, Entradas, OneRequestPerSubmission, ReceivedWithInvoice
<1>7. Ordenes
  <2>1. DeCapturas = {} /\ Formalizadas = {}
    BY DEF DeCapturas, Formalizadas
  <2>. QED  BY <2>1, FS_EmptySet DEF Ordenes
<1>. QED  BY <1>1, <1>4, <1>5, <1>6, <1>7 DEF IInv

\* A step that changes no capture and no evidence freezes everything.
LEMMA Quieta ==
  ASSUME UNCHANGED <<captura, factura>>
  PROVE  Congela
BY DEF Congela, FacturasDe

\* Every step keeps the invariant and what was sent or received.
LEMMA NextIInv == IInv /\ Next => IInv' /\ Congela
<1>. SUFFICES ASSUME IInv, Next PROVE IInv' /\ Congela
  OBVIOUS
<1>. USE DEF solicitud, rapida, archivo
<1>1. ASSUME NEW s \in Solicitudes, VenceVentana(s) PROVE IInv' /\ Congela
  BY <1>1, StepVenceVentana, Quieta DEF VenceVentana
<1>2. ASSUME NEW c \in Capturas, CrearCaptura(c) PROVE IInv' /\ Congela
  <2>1. captura[c] = "ausente" /\ captura' = [captura EXCEPT ![c] = "BORRADOR"] /\ factura' = factura
    BY <1>2 DEF CrearCaptura
  <2>2. \A a \in Capturas : a # c => captura'[a] = captura[a]
    BY <2>1 DEF IInv, TypeOK
  <2>3. Congela
    BY <2>1, <2>2 DEF Congela, FacturasDe
  <2>. QED  BY <1>2, <2>3, StepCrearCaptura
<1>3. ASSUME NEW t \in Conexiones, NEW op \in DeSolicitud \cup DeCaptura,
             NEW x \in Solicitudes \cup Capturas, NEW k \in Envios \cup {Nada},
             NEW o \in Objetos \cup {0}, Tomar(t, op, x, k, o)
      PROVE  IInv' /\ Congela
  BY <1>3, StepTomar, Quieta DEF Tomar, Empieza
<1>4. ASSUME NEW t \in Conexiones, NEW s \in Solicitudes, NEW k \in Recibos, NEW con \in BOOLEAN,
             Leer(t, s, k, con)
      PROVE  IInv' /\ Congela
  BY <1>4, StepLeer, Quieta DEF Leer, Empieza
<1>5. ASSUME NEW t \in Conexiones, NEW k \in Llaves, Reservar(t, k) PROVE IInv' /\ Congela
  BY <1>5, StepReservar, Quieta DEF Reservar, Empieza
<1>6. ASSUME NEW t \in Conexiones, TomarRecepcion(t) PROVE IInv' /\ Congela
  BY <1>6, StepTomarRecepcion, Quieta DEF TomarRecepcion
<1>7. ASSUME NEW t \in Conexiones, Guardar(t) PROVE IInv' /\ Congela
  BY <1>7, StepGuardar, Quieta DEF Guardar
<1>8. ASSUME NEW t \in Conexiones, NoGuardar(t) PROVE IInv' /\ Congela
  BY <1>8, FinStep, Quieta DEF NoGuardar, Fin
<1>9. ASSUME NEW t \in Conexiones, GuardarSinRespuesta(t) PROVE IInv' /\ Congela
  BY <1>9, StepGuardarSinRespuesta, Quieta DEF GuardarSinRespuesta
<1>10. ASSUME NEW t \in Conexiones, Deshacer(t) PROVE IInv' /\ Congela
  BY <1>10, FinStep, Quieta DEF Deshacer, Fin
<1>11. ASSUME NEW t \in Conexiones, NEW o \in Objetos, NEW falla \in BOOLEAN, Limpiar(t, o, falla)
       PROVE  IInv' /\ Congela
  BY <1>11, StepLimpiar, Quieta DEF Limpiar
<1>12. ASSUME NEW t \in Conexiones, Caer(t) PROVE IInv' /\ Congela
  BY <1>12, StepCaer, Quieta DEF Caer
<1>13. ASSUME NEW t \in Conexiones,
              \/ ConfirmarRevision(t) \/ ConfirmarEnvio(t) \/ ConfirmarRechazo(t)
              \/ \E s \in Solicitudes : ConfirmarCrear(t, s) \/ ConfirmarFormalizacion(t, s)
       PROVE  IInv' /\ Congela
  BY <1>13, StepConfirmarRevision, StepConfirmarEnvio, StepConfirmarRechazo, StepConfirmarCrear,
     StepConfirmarFormalizacion
<1>14. ASSUME NEW t \in Conexiones, NEW perdida \in BOOLEAN,
              \/ ConfirmarSubida(t, perdida) \/ ConfirmarQuita(t, perdida)
              \/ ConfirmarRecepcion(t, perdida) \/ ConfirmarSubidaCaptura(t, perdida)
              \/ ConfirmarQuitaCaptura(t, perdida) \/ ConfirmarDescarte(t, perdida)
       PROVE  IInv' /\ Congela
  BY <1>14, StepConfirmarSubida, StepConfirmarQuita, StepConfirmarRecepcion,
     StepConfirmarSubidaCaptura, StepConfirmarQuitaCaptura, StepConfirmarDescarte
<1>. QED  BY <1>1, <1>2, <1>3, <1>4, <1>5, <1>6, <1>7, <1>8, <1>9, <1>10, <1>11, <1>12, <1>13, <1>14
          DEF Next

\* Purchases.TypeOK, Entradas, Compartida and the rest in every reachable state:
\* rows, requests under way and stored images stay in step whatever is lost.
THEOREM Invariance == Spec => []IInv
<1>1. IInv /\ UNCHANGED vars => IInv'
  BY DEF IInv, TypeOK, Exclusion, Trabaja, FilaBuena, ImagenBuena, Sube, SinEnviar, Unica, Nuevas,
         Compartida, Ausentes, Entradas, Ordenes, DeCapturas, Formalizadas, OneRequestPerSubmission,
         ReceivedWithInvoice, StorageMatchesRows, FacturasDe, Referido, vars, solicitud, rapida,
         archivo, historia
<1>2. IInv /\ [Next]_vars => IInv'
  BY <1>1, NextIInv
<1>. QED  BY <1>2, InitIInv, PTL DEF Spec

\* Every variable keeps its type: rows, evidence and open requests are what the
\* handlers write.  (The bound on uploads in it is the model's own, MaxObjetos; it
\* says nothing of how many invoices a row has.)
THEOREM TypeCorrect == Spec => []TypeOK
<1>1. IInv => TypeOK
  BY DEF IInv
<1>. QED  BY <1>1, Invariance, PTL

\* The goods of an order enter the stock exactly once, with its state, however
\* its reception is repeated; and a capture is the source of at most one order.
THEOREM GoodsEnterOnceHolds == Spec => []GoodsEnterOnce
<1>1. IInv => GoodsEnterOnce
  BY DEF IInv, Entradas, Ordenes, Formalizadas, GoodsEnterOnce
<1>. QED  BY <1>1, Invariance, PTL

\* A submission that is repeated makes one request.
THEOREM OneRequestPerSubmissionHolds == Spec => []OneRequestPerSubmission
<1>1. IInv => OneRequestPerSubmission
  BY DEF IInv
<1>. QED  BY <1>1, Invariance, PTL

\* No order is received without an invoice, although one may be removed while
\* the reception is under way.
THEOREM ReceivedWithInvoiceHolds == Spec => []ReceivedWithInvoice
<1>1. IInv => ReceivedWithInvoice
  BY DEF IInv
<1>. QED  BY <1>1, Invariance, PTL

\* Rows and storage agree up to the faults that the history names, although no
\* transaction spans them.
THEOREM StorageMatchesRowsHolds == Spec => []StorageMatchesRows
<1>1. IInv => StorageMatchesRows
  BY DEF IInv
<1>. QED  BY <1>1, Invariance, PTL

\* What was sent or received keeps its invoices, whatever upload or removal was
\* under way when it was.
THEOREM SentIsFrozenHolds == Spec => SentIsFrozen
<1>1. IInv /\ [Next]_vars => [Congela]_vars
  BY NextIInv
<1>. QED  BY <1>1, Invariance, PTL DEF Spec, SentIsFrozen, Congela
=============================================================================
