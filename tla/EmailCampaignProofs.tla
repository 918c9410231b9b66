------------------------ MODULE EmailCampaignProofs ------------------------
(***************************************************************************)
(* Theorems of EmailCampaign for any audience, any number of requests and  *)
(* any number of edits and faults.  DuplicatesHaveCause is proved by       *)
(* accounting: Cuenta counts, for an address, the mails that have left and *)
(* those that may still leave without another cause.                       *)
(***************************************************************************)
EXTENDS EmailCampaign, FiniteSetTheorems, TLAPS

\* Before the first claim nobody works on the campaign, and no mail has left.
NotStarted ==
  ~ iniciada =>
    /\ estado \in {"draft", "scheduled", "cancelled"}
    /\ Activos = {}
    /\ \A a \in Correos : enviados[a] = 0 /\ (dest[a] # Nada => dest[a].st = "pending")

CancelledNotStarted == cancelada /\ ~ revivida => estado = "cancelled" /\ ~ iniciada

\* SENT is only written of what was delivered, and counted of what was written.
SentDelivered ==
  /\ \A a \in ConFila : dest[a].st = "sent" => enviados[a] > 0
  /\ \A p \in Bucles : paso[p] = "enviado" => enviados[actual[p].correo] > 0

CountedDelivered ==
  reediciones = 0 => \A p \in Bucles : paso[p] = "cerrar" /\ resumen[p] = "sent"
    => \A a \in ConFila : enviados[a] > 0

\* A loop is the first one of a list of recipients or a retry, its list names
\* an address once, and it closes no campaign as one to be sent.
Loops ==
  \A p \in Bucles :
    /\ paso[p] \in {"abrir", "listar"} => metas[p] \in {{"pending", "sending"}, {"failed"}}
    /\ \A r, s \in lista[p] : r.correo = s.correo => r = s
    /\ resumen[p] \notin {"draft", "scheduled"}

IInv ==
  /\ TypeOK
  /\ NotStarted
  /\ CancelledNotStarted
  /\ SentDelivered
  /\ CountedDelivered
  /\ SentReachedAll
  /\ Loops

USE CampaignAssumption
-----------------------------------------------------------------------------
Destino == [correo : Correos, gen : Nat]

\* A loop that has a mail in its hands has it for a row.
LEMMA ActualType ==
  ASSUME TypeOK, NEW p \in Bucles, paso[p] \in {"enviar", "enviado", "rechazado"}
  PROVE  /\ actual[p] \in Destino /\ actual[p].correo \in Correos /\ actual[p].gen \in Nat
BY DEF TypeOK, Destino

\* The note of an outcome changes the state of one row at most.
LEMMA AnotadaRows ==
  ASSUME TypeOK, NEW r \in Destino, NEW st \in Envios, dest' = Anotada(r, st)
  PROVE  /\ dest' \in [Correos -> Filas \cup {Nada}]
         /\ \A a \in Correos : dest'[a] = Nada <=> dest[a] = Nada
         /\ \A a \in Correos : a # r.correo => dest'[a] = dest[a]
         /\ \A a \in Correos : dest'[a] = dest[a] \/ (dest'[a] # Nada /\ dest'[a].st = st)
         /\ \A a \in Correos : dest'[a] # Nada => dest'[a].gen = dest[a].gen
         /\ ConFila' = ConFila
<1>1. CASE dest' = dest
  BY <1>1 DEF TypeOK, ConFila, Filas
<1>2. CASE dest[r.correo] # Nada /\ dest' = [dest EXCEPT ![r.correo].st = st]
  <2>1. r.correo \in Correos
    BY DEF Destino
  <2>2. dest \in [Correos -> Filas \cup {Nada}]
    BY DEF TypeOK
  <2>3. dest[r.correo] \in [gen : Nat, st : Envios]
    BY <1>2, <2>1, <2>2 DEF Filas
  <2>. DEFINE w == [dest[r.correo] EXCEPT !.st = st]
  <2>4. w \in Filas /\ w.st = st /\ w.gen = dest[r.correo].gen /\ w # Nada
    BY <2>3 DEF Filas
  <2>5. dest' = [dest EXCEPT ![r.correo] = w]
    BY <1>2
  <2>. HIDE DEF w
  <2>. QED  BY <1>2, <2>1, <2>2, <2>4, <2>5 DEF ConFila
<1>. QED  BY <1>1, <1>2 DEF Anotada

LEMMA Initial == Init => IInv
<1>. SUFFICES ASSUME Init PROVE IInv
  OBVIOUS
<1>1. dest \in [Correos -> Filas \cup {Nada}]
  BY DEF Init, NuevaFila, Filas, Envios
<1>2. \A a \in Correos : dest[a] # Nada => dest[a].st = "pending"
  BY DEF Init, NuevaFila
<1>3. TypeOK
  <2>1. /\ estado \in Estados /\ paso \in [Bucles -> Pasos] /\ resumen \in [Bucles -> Estados]
        /\ metas \in [Bucles -> SUBSET Envios]
    BY DEF Init, Estados, Pasos
  <2>2. \A p \in Bucles : paso[p] = "libre"
    BY DEF Init
  <2>3. /\ lista \in [Bucles -> SUBSET [correo : Correos, gen : Nat]]
        /\ actual \in [Bucles -> [correo : Correos, gen : Nat] \cup {Nada}]
    BY DEF Init
  <2>4. estado # "processing" /\ reediciones \in 0..ediciones
    BY DEF Init
  <2>. QED  BY <1>1, <2>1, <2>2, <2>3, <2>4 DEF Init, TypeOK
<1>4. Activos = {}
  BY DEF Init, Activos
<1>5. NotStarted
  BY <1>2, <1>4 DEF Init, NotStarted
<1>6. SentDelivered
  BY <1>2 DEF Init, SentDelivered, ConFila
<1>. QED  BY <1>3, <1>5, <1>6 DEF IInv, Init, CancelledNotStarted, CountedDelivered,
             SentReachedAll, Loops

-----------------------------------------------------------------------------
\* The requests that work no list and write no row: the time, the read of an
\* edit, its abandonment, the cancellation, and what precedes a claim.
LEMMA QuietStep ==
  ASSUME IInv,
         \/ LlegaLaHora \/ LeerEdicion \/ AbandonarEdicion \/ Cancelar
         \/ \E p \in Peticiones : PedirEnvio(p) \/ PedirReintento(p) \/ PerderReclamo(p)
  PROVE  IInv'
<1>. USE DEF IInv
<1>1. /\ UNCHANGED <<dest, bucle, enviados, perdidas, reediciones, iniciada, revivida>>
      /\ \/ UNCHANGED <<estado, cancelada>>
         \/ estado = "scheduled" /\ ~ iniciada /\ estado' = "cancelled" /\ cancelada' = TRUE
      /\ \A q \in Bucles : paso'[q] # paso[q] => paso'[q] \in {"libre", "pedido", "reintento"}
      /\ paso' \in [Bucles -> Pasos]
  <2>. USE DEF TypeOK, campana, bucle, historia, edits
  <2>1. CASE LlegaLaHora
    BY <2>1 DEF LlegaLaHora
  <2>4. CASE LeerEdicion \/ AbandonarEdicion
    BY <2>4 DEF LeerEdicion, AbandonarEdicion
  <2>2. CASE Cancelar
    BY <2>2 DEF Cancelar
  <2>3. CASE \E p \in Peticiones : PedirEnvio(p) \/ PedirReintento(p) \/ PerderReclamo(p)
    <3>1. PICK p \in Peticiones : PedirEnvio(p) \/ PedirReintento(p) \/ PerderReclamo(p)
      BY <2>3
    <3>2. \E s \in {"libre", "pedido", "reintento"} : Ir(p, s)
      BY <3>1 DEF PedirEnvio, PedirReintento, PerderReclamo
    <3>3. UNCHANGED <<campana, dest, bucle, historia, edits, cancelada>>
      BY <3>1 DEF PedirEnvio, PedirReintento, PerderReclamo
    <3>4. p \in Bucles /\ {"libre", "pedido", "reintento"} \subseteq Pasos
      BY DEF Bucles, Pasos
    <3>5. /\ \A q \in Bucles : paso'[q] # paso[q] => paso'[q] \in {"libre", "pedido", "reintento"}
          /\ paso' \in [Bucles -> Pasos]
      BY <3>2, <3>4 DEF Ir
    <3>. QED  BY <3>3, <3>5
  <2>. QED  BY <2>1, <2>2, <2>3, <2>4
<1>2. TypeOK'
  <2>1. /\ edicion' \in BOOLEAN /\ vencida' \in BOOLEAN
        /\ UNCHANGED <<ediciones, reclamos, caidas, traslapes>> /\ fallos' \in Nat
    <3>. USE DEF campana, historia, edits
    <3>4. edicion \in BOOLEAN /\ vencida \in BOOLEAN /\ fallos \in Nat /\ fallos + 1 \in Nat
      BY DEF TypeOK
    <3>1. CASE LlegaLaHora \/ LeerEdicion \/ Cancelar
      BY <3>1, <3>4 DEF LlegaLaHora, LeerEdicion, Cancelar
    <3>3. CASE AbandonarEdicion
      BY <3>3, <3>4 DEF AbandonarEdicion, Fallo
    <3>2. CASE \E p \in Peticiones : PedirEnvio(p) \/ PedirReintento(p) \/ PerderReclamo(p)
      BY <3>2, <3>4 DEF PedirEnvio, PedirReintento, PerderReclamo
    <3>. QED  BY <3>1, <3>2, <3>3
  <2>. QED  BY <1>1, <2>1 DEF TypeOK, bucle, Estados
<1>3. Activos' \subseteq Activos
  BY <1>1 DEF Activos, TypeOK
<1>4. NotStarted'
  BY <1>1, <1>3 DEF NotStarted
<1>5. CancelledNotStarted'
  BY <1>1 DEF CancelledNotStarted
<1>6. ConFila' = ConFila
  BY <1>1 DEF ConFila
<1>7. SentDelivered' /\ CountedDelivered' /\ SentReachedAll' /\ Loops'
  BY <1>1, <1>6 DEF SentDelivered, CountedDelivered, SentReachedAll, Loops, bucle
<1>. QED  BY <1>2, <1>4, <1>5, <1>7

\* An edit: of a campaign that has not started, nobody works the rows it
\* replaces; of one that has, it is counted.
LEMMA EditStep ==
  ASSUME IInv, NEW st \in {"draft", "scheduled"}, EscribirEdicion(st)
  PROVE  IInv'
<1>. USE DEF IInv, EscribirEdicion
<1>1. /\ dest' \in [Correos -> Filas \cup {Nada}]
      /\ \A a \in Correos : dest'[a] = dest[a] \/ dest'[a] = Nada \/ dest'[a].st = "pending"
  BY DEF NuevaFila, Filas, Envios, TypeOK
<1>2. ediciones' \in Nat /\ reediciones' \in 0..ediciones'
  BY DEF TypeOK
<1>3. TypeOK'
  BY <1>1, <1>2 DEF TypeOK, bucle, historia, Estados
<1>4. ~ iniciada => Activos' = {}
  BY DEF NotStarted, Activos
<1>5. NotStarted'
  BY <1>1, <1>4 DEF NotStarted, historia
<1>6. CancelledNotStarted'
  BY DEF CancelledNotStarted
<1>7. SentDelivered'
  BY <1>1 DEF SentDelivered, ConFila, historia, bucle, TypeOK
<1>8. CountedDelivered'
  <2>1. CASE iniciada
    BY <2>1 DEF CountedDelivered, TypeOK
  <2>2. CASE ~ iniciada
    BY <2>2 DEF CountedDelivered, NotStarted, Activos
  <2>. QED  BY <2>1, <2>2
<1>9. SentReachedAll' /\ Loops'
  BY DEF SentReachedAll, Loops, bucle
<1>. QED  BY <1>3, <1>5, <1>6, <1>7, <1>8, <1>9

\* A claim: the campaign is not a cancelled one.
LEMMA ClaimStep ==
  ASSUME IInv,
         \/ \E p \in Peticiones : ReclamarAhora(p) \/ ReclamarReintento(p)
         \/ ReclamarProgramada
  PROVE  IInv'
<1>. USE DEF IInv
<1>1. PICK p \in Bucles, S \in {{"pending", "sending"}, {"failed"}} :
        /\ Tomar(p, S) /\ estado # "cancelled"
        /\ vencida' \in BOOLEAN /\ traslapes' \in Nat
  <2>1. CASE \E p \in Peticiones : ReclamarAhora(p)
    BY <2>1 DEF ReclamarAhora, ReclamableAhora, Bucles, TypeOK
  <2>2. CASE \E p \in Peticiones : ReclamarReintento(p)
    <3>1. traslapes + 1 \in Nat
      BY DEF TypeOK
    <3>. QED  BY <2>2, <3>1 DEF ReclamarReintento, ReclamableReintento, Bucles, TypeOK
  <2>3. CASE ReclamarProgramada
    BY <2>3 DEF ReclamarProgramada, ReclamableProgramada, Bucles, TypeOK
  <2>. QED  BY <2>1, <2>2, <2>3
<1>. USE DEF Tomar, Ir
<1>2. TypeOK'
  BY <1>1 DEF TypeOK, edits, Estados, Pasos, Envios
<1>3. NotStarted' /\ CancelledNotStarted'
  BY <1>1 DEF NotStarted, CancelledNotStarted, edits
<1>4. ConFila' = ConFila
  BY <1>1 DEF ConFila
<1>5. \A q \in Bucles : paso'[q] \in {"enviado", "cerrar"} => paso[q] = paso'[q]
  BY <1>1 DEF TypeOK
<1>6. SentDelivered' /\ CountedDelivered'
  BY <1>1, <1>4, <1>5 DEF SentDelivered, CountedDelivered, edits
<1>7. SentReachedAll'
  BY <1>1 DEF SentReachedAll
<1>8. Loops'
  BY <1>1 DEF Loops, TypeOK
<1>. QED  BY <1>2, <1>3, <1>6, <1>7, <1>8

-----------------------------------------------------------------------------
\* The steps of a loop.  A loop at work works on a campaign that has started.
LEMMA LoopFrame ==
  ASSUME NotStarted, CancelledNotStarted, NEW p \in Bucles,
         paso[p] \notin {"libre", "pedido", "reintento"},
         UNCHANGED <<iniciada, cancelada, edits>>
  PROVE  iniciada /\ NotStarted' /\ CancelledNotStarted'
<1>1. iniciada
  BY DEF NotStarted, Activos
<1>. QED  BY <1>1 DEF NotStarted, CancelledNotStarted, edits

\* A step that moves loop p on, and neither writes a row nor sends a mail.
LEMMA MoveStep ==
  ASSUME IInv, NEW p \in Bucles, NEW s \in Pasos, Ir(p, s),
         paso[p] \notin {"libre", "pedido", "reintento"},
         s = "enviado" => paso[p] = "enviado",
         s \in {"enviar", "rechazado"} => actual[p] # Nada,
         s \in {"abrir", "listar"} => paso[p] \in {"abrir", "listar"},
         s = "cerrar" /\ resumen[p] = "sent" => paso[p] = "cerrar",
         UNCHANGED <<campana, dest, bucle, enviados, traslapes, edits, cancelada, reclamos>>,
         perdidas' \in [Correos -> Nat], fallos' \in Nat, caidas' \in Nat
  PROVE  IInv'
<1>. USE DEF IInv, Ir
<1>1. NotStarted' /\ CancelledNotStarted'
  BY LoopFrame DEF campana
<1>2. TypeOK'
  BY DEF TypeOK, campana, bucle, edits
<1>3. ConFila' = ConFila
  BY DEF ConFila
<1>4. paso \in [Bucles -> Pasos]
  BY DEF TypeOK
<1>5. SentDelivered'
  BY <1>3, <1>4 DEF SentDelivered, bucle
<1>6. CountedDelivered' /\ SentReachedAll'
  BY <1>3, <1>4 DEF CountedDelivered, SentReachedAll, bucle, edits, campana
<1>7. Loops'
  BY <1>4 DEF Loops, bucle
<1>. QED  BY <1>1, <1>2, <1>5, <1>6, <1>7

LEMMA AbrirStep ==
  ASSUME IInv, NEW p \in Bucles, Abrir(p)
  PROVE  IInv'
<1>1. PICK s \in {"listar", "fracaso"} : Ir(p, s)
  BY DEF Abrir, AlFallar
<1>2. perdidas' \in [Correos -> Nat] /\ fallos' \in Nat /\ caidas' \in Nat
  BY DEF IInv, TypeOK, Abrir, historia
<1>3. s \in Pasos
  BY DEF Pasos
<1>. QED  BY <1>1, <1>2, <1>3, MoveStep DEF Abrir, historia

LEMMA FallarConsultaStep ==
  ASSUME IInv, NEW p \in Bucles, FallarConsulta(p)
  PROVE  IInv'
<1>1. perdidas' \in [Correos -> Nat] /\ fallos' \in Nat /\ caidas' \in Nat
  BY DEF IInv, TypeOK, FallarConsulta, historia, Fallo
<1>2. Ir(p, "fracaso") /\ "fracaso" \in Pasos
  BY DEF FallarConsulta, AlFallar, Pasos
<1>. QED  BY <1>1, <1>2, MoveStep DEF FallarConsulta, historia

LEMMA ListarStep ==
  ASSUME IInv, NEW p \in Bucles, Listar(p)
  PROVE  IInv'
<1>. USE DEF IInv, Listar
<1>1. paso' = [paso EXCEPT ![p] = "siguiente"] /\ "siguiente" \in Pasos
  BY DEF Ir, Pasos
<1>2. {Fila(a) : a \in Destinatarios(p)} \in SUBSET [correo : Correos, gen : Nat]
  BY DEF Fila, Destinatarios, EnEstado, ConFila, TypeOK, Filas
<1>3. \A r, s \in {Fila(a) : a \in Destinatarios(p)} : r.correo = s.correo => r = s
  BY DEF Fila
<1>4. TypeOK'
  BY <1>1, <1>2 DEF TypeOK, campana, edits, historia
<1>5. NotStarted' /\ CancelledNotStarted'
  BY LoopFrame DEF campana
<1>6. ConFila' = ConFila
  BY DEF ConFila
<1>7. SentDelivered' /\ CountedDelivered' /\ SentReachedAll'
  BY <1>1, <1>6 DEF SentDelivered, CountedDelivered, SentReachedAll, TypeOK, campana, edits,
                    historia
<1>8. Loops'
  BY <1>1, <1>3 DEF Loops, TypeOK
<1>. QED  BY <1>4, <1>5, <1>7, <1>8

LEMMA MarcarStep ==
  ASSUME IInv, NEW p \in Bucles, Marcar(p)
  PROVE  IInv'
<1>. USE DEF IInv, Marcar
<1>1. paso' = [paso EXCEPT ![p] = "enviar"] /\ "enviar" \in Pasos
  BY DEF Ir, Pasos
<1>2. PICK r \in lista[p] :
        /\ dest' = Anotada(r, "sending")
        /\ actual' = [actual EXCEPT ![p] = r]
        /\ lista' = [lista EXCEPT ![p] = @ \ {r}]
  OBVIOUS
<1>3. r \in Destino /\ r # Nada /\ "sending" \in Envios
  BY DEF TypeOK, Destino, Envios
<1>4. /\ dest' \in [Correos -> Filas \cup {Nada}]
      /\ \A a \in Correos : dest'[a] = dest[a] \/ (dest'[a] # Nada /\ dest'[a].st = "sending")
      /\ ConFila' = ConFila
  BY <1>2, <1>3, AnotadaRows
<1>5. TypeOK'
  BY <1>1, <1>2, <1>3, <1>4 DEF TypeOK, campana, edits, historia, Destino
<1>6. NotStarted' /\ CancelledNotStarted'
  BY LoopFrame DEF campana
<1>7. SentDelivered'
  BY <1>1, <1>2, <1>4 DEF SentDelivered, TypeOK, historia, ConFila
<1>8. CountedDelivered' /\ SentReachedAll'
  BY <1>1, <1>4 DEF CountedDelivered, SentReachedAll, TypeOK, campana, edits, historia
<1>9. Loops'
  BY <1>1, <1>2 DEF Loops, TypeOK
<1>. QED  BY <1>5, <1>6, <1>7, <1>8, <1>9

LEMMA EnviarStep ==
  ASSUME IInv, NEW p \in Bucles, Enviar(p)
  PROVE  IInv'
<1>. USE DEF IInv, Enviar
<1>1. actual[p].correo \in Correos /\ actual[p] # Nada
  BY ActualType DEF TypeOK
<1>2. CASE Ir(p, "rechazado") /\ UNCHANGED enviados
  <2>1. perdidas' \in [Correos -> Nat] /\ fallos' \in Nat /\ caidas' \in Nat
    BY <1>1 DEF Perder, Fallo, TypeOK
  <2>. QED  BY <1>1, <1>2, <2>1, MoveStep DEF Pasos
<1>3. CASE Entregar(p)
  <2>1. enviados' \in [Correos -> Nat] /\ enviados'[actual[p].correo] > 0
        /\ \A a \in Correos : enviados'[a] >= enviados[a]
    BY <1>1, <1>3 DEF Entregar, TypeOK
  <2>2. PICK s \in {"enviado", "rechazado"} : paso' = [paso EXCEPT ![p] = s]
    BY DEF Ir
  <2>3. s \in Pasos
    BY DEF Pasos
  <2>4. perdidas' \in [Correos -> Nat] /\ fallos' \in Nat
    BY <1>1 DEF Perder, Fallo, TypeOK
  <2>5. TypeOK'
    BY <1>1, <2>1, <2>2, <2>3, <2>4 DEF TypeOK, campana, edits, bucle
  <2>6. NotStarted' /\ CancelledNotStarted'
    BY LoopFrame DEF campana
  <2>7. ConFila' = ConFila /\ ConFila \subseteq Correos
    BY DEF ConFila
  <2>8. \A a \in Correos : enviados[a] > 0 => enviados'[a] > 0
    BY <2>1 DEF TypeOK
  <2>9. SentDelivered'
    <3>1. \A q \in Bucles : paso'[q] = "enviado" => enviados'[actual[q].correo] > 0
      <4>. TAKE q \in Bucles
      <4>. HAVE paso'[q] = "enviado"
      <4>1. CASE q = p
        BY <2>1, <4>1
      <4>2. CASE q # p
        <5>1. paso[q] = "enviado"
          BY <2>2, <4>2 DEF TypeOK
        <5>2. enviados[actual[q].correo] > 0 /\ actual[q].correo \in Correos
          BY <5>1, ActualType DEF SentDelivered
        <5>. QED  BY <2>8, <5>2
      <4>. QED  BY <4>1, <4>2
    <3>. QED  BY <2>7, <2>8, <3>1 DEF SentDelivered, bucle
  <2>10. CountedDelivered' /\ SentReachedAll'
    BY <2>2, <2>7, <2>8 DEF CountedDelivered, SentReachedAll, TypeOK, campana, edits, bucle
  <2>11. Loops'
    BY <2>2 DEF Loops, TypeOK, bucle
  <2>. QED  BY <2>5, <2>6, <2>9, <2>10, <2>11
<1>. QED  BY <1>2, <1>3

\* The note of an outcome: SENT is only noted of what was delivered.
LEMMA AnotarStep ==
  ASSUME IInv, NEW p \in Bucles, Anotar(p)
  PROVE  IInv'
<1>. USE DEF IInv
<1>1. PICK r \in Destino : r = actual[p]
  BY ActualType DEF Anotar
<1>2. r \in Destino /\ r.correo \in Correos
  BY DEF Destino
<1>3. CASE dest' = dest
  <2>1. \/ paso[p] = "enviado" /\ Perder(p) /\ Ir(p, "rechazado") /\ Fallo
        \/ \E s \in {"siguiente"} : Ir(p, s) /\ UNCHANGED <<perdidas, fallos>>
    BY DEF Anotar
  <2>2. perdidas' \in [Correos -> Nat] /\ fallos' \in Nat /\ caidas' \in Nat
    BY <1>1, <1>2, <2>1 DEF Perder, Fallo, TypeOK, Anotar
  <2>. QED  BY <1>3, <2>1, <2>2, MoveStep DEF Pasos, Anotar, TypeOK
<1>4. CASE \E st \in {"sent", "failed"} :
             /\ dest' = Anotada(r, st) /\ Ir(p, "siguiente") /\ UNCHANGED <<perdidas, fallos>>
             /\ st = "sent" => paso[p] = "enviado"
  <2>1. PICK st \in {"sent", "failed"} :
             /\ dest' = Anotada(r, st) /\ Ir(p, "siguiente") /\ UNCHANGED <<perdidas, fallos>>
             /\ st = "sent" => paso[p] = "enviado"
    BY <1>4
  <2>2. st \in Envios
    BY DEF Envios
  <2>3. /\ dest' \in [Correos -> Filas \cup {Nada}]
        /\ \A a \in Correos : a # r.correo => dest'[a] = dest[a]
        /\ \A a \in Correos : dest'[a] = dest[a] \/ (dest'[a] # Nada /\ dest'[a].st = st)
        /\ ConFila' = ConFila
    BY <1>2, <2>1, <2>2, AnotadaRows
  <2>4. paso' = [paso EXCEPT ![p] = "siguiente"] /\ "siguiente" \in Pasos
    BY <2>1 DEF Ir, Pasos
  <2>5. UNCHANGED <<campana, bucle, enviados, traslapes, edits, cancelada, reclamos, caidas>>
    BY DEF Anotar
  <2>6. TypeOK'
    BY <2>1, <2>3, <2>4, <2>5 DEF TypeOK, campana, edits, bucle
  <2>7. NotStarted' /\ CancelledNotStarted'
    BY <2>5, LoopFrame DEF campana, Anotar
  <2>8. st = "sent" => enviados[r.correo] > 0
    BY <1>1, <2>1 DEF SentDelivered
  <2>9. SentDelivered'
    <3>1. ConFila \subseteq Correos
      BY DEF ConFila
    <3>2. \A a \in ConFila' : dest'[a].st = "sent" => enviados'[a] > 0
      BY <2>3, <2>5, <2>8, <3>1 DEF SentDelivered
    <3>3. \A q \in Bucles : paso'[q] = "enviado" => enviados'[actual'[q].correo] > 0
      BY <2>4, <2>5 DEF SentDelivered, TypeOK, bucle
    <3>. QED  BY <3>2, <3>3 DEF SentDelivered
  <2>10. CountedDelivered' /\ SentReachedAll' /\ Loops'
    BY <2>3, <2>4, <2>5 DEF CountedDelivered, SentReachedAll, Loops, TypeOK, campana, edits, bucle
  <2>. QED  BY <2>6, <2>7, <2>9, <2>10
<1>. QED  BY <1>1, <1>3, <1>4 DEF Anotar, Rechazo

\* SENT is only counted when every row says it.
LEMMA ContarStep ==
  ASSUME IInv, NEW p \in Bucles, Contar(p)
  PROVE  IInv'
<1>. USE DEF IInv, Contar
<1>1. paso' = [paso EXCEPT ![p] = "cerrar"] /\ "cerrar" \in Pasos
  BY DEF Ir, Pasos
<1>2. PICK f \in {"sent", "partial_failure", "failed"} : f = Final
  BY DEF Final
<1>3. resumen' = [resumen EXCEPT ![p] = f]
  BY <1>2
<1>4. f = "sent" => \A a \in ConFila : enviados[a] > 0
  BY <1>2 DEF Final, EnEstado, SentDelivered
<1>5. TypeOK'
  BY <1>1, <1>3 DEF TypeOK, campana, edits, historia, Estados
<1>6. NotStarted' /\ CancelledNotStarted'
  BY LoopFrame DEF campana
<1>7. ConFila' = ConFila
  BY DEF ConFila
<1>8. SentDelivered' /\ SentReachedAll' /\ Loops'
  BY <1>1, <1>3, <1>7 DEF SentDelivered, SentReachedAll, Loops, TypeOK, campana, edits, historia
<1>9. CountedDelivered'
  BY <1>1, <1>3, <1>4, <1>7 DEF CountedDelivered, TypeOK, edits, historia
<1>. QED  BY <1>5, <1>6, <1>8, <1>9

\* What a loop leaves when it ends.
LEMMA TerminarRows ==
  ASSUME TypeOK, NEW p \in Bucles, Terminar(p)
  PROVE  /\ paso' = [paso EXCEPT ![p] = "libre"] /\ paso' \in [Bucles -> Pasos]
         /\ metas' \in [Bucles -> SUBSET Envios]
         /\ lista' \in [Bucles -> SUBSET [correo : Correos, gen : Nat]]
         /\ actual' \in [Bucles -> [correo : Correos, gen : Nat] \cup {Nada}]
         /\ resumen' \in [Bucles -> Estados]
         /\ \A q \in Bucles \ {p} :
              UNCHANGED <<paso[q], metas[q], lista[q], actual[q], resumen[q]>>
<1>1. "libre" \in Pasos /\ "failed" \in Estados
  BY DEF Pasos, Estados
<1>. QED  BY <1>1 DEF TypeOK, Terminar, Ir

LEMMA EndStep ==
  ASSUME IInv, NEW p \in Bucles, paso[p] \notin {"libre", "pedido", "reintento"}, Terminar(p),
         estado' = estado \/ estado' \in {"failed", resumen[p]},
         estado' = "sent" /\ estado # "sent" => paso[p] = "cerrar" /\ resumen[p] = "sent",
         UNCHANGED <<iniciada, vencida, dest, historia, edits, cancelada, reclamos>>,
         fallos' \in Nat, caidas' \in Nat
  PROVE  IInv'
<1>. USE DEF IInv
<1>1. /\ paso' = [paso EXCEPT ![p] = "libre"] /\ paso' \in [Bucles -> Pasos]
      /\ metas' \in [Bucles -> SUBSET Envios]
      /\ lista' \in [Bucles -> SUBSET [correo : Correos, gen : Nat]]
      /\ actual' \in [Bucles -> [correo : Correos, gen : Nat] \cup {Nada}]
      /\ resumen' \in [Bucles -> Estados]
  BY TerminarRows
<1>2. /\ paso'[p] = "libre" /\ lista'[p] = {} /\ resumen'[p] = "failed"
      /\ \A q \in Bucles \ {p} :
           UNCHANGED <<paso[q], metas[q], lista[q], actual[q], resumen[q]>>
  <2>1. \A q \in Bucles \ {p} :
          UNCHANGED <<paso[q], metas[q], lista[q], actual[q], resumen[q]>>
    BY TerminarRows
  <2>2. paso'[p] = "libre" /\ lista'[p] = {} /\ resumen'[p] = "failed"
    BY DEF TypeOK, Terminar, Ir
  <2>. QED  BY <2>1, <2>2
<1>3. iniciada /\ NotStarted' /\ CancelledNotStarted'
  BY LoopFrame
<1>4. TypeOK'
  <2>1. estado' \in Estados
    BY DEF TypeOK, Estados
  <2>2. \A q \in Bucles : paso'[q] \in {"enviar", "enviado", "rechazado"} => actual'[q] # Nada
    BY <1>2 DEF TypeOK
  <2>. QED  BY <1>1, <1>3, <2>1, <2>2 DEF TypeOK, edits, historia
<1>5. ConFila' = ConFila
  BY DEF ConFila
<1>6. SentDelivered'
  BY <1>2, <1>5 DEF SentDelivered, historia
<1>7. CountedDelivered' /\ SentReachedAll'
  BY <1>2, <1>5 DEF CountedDelivered, SentReachedAll, historia, edits
<1>8. Loops'
  BY <1>2 DEF Loops
<1>. QED  BY <1>3, <1>4, <1>6, <1>7, <1>8

LEMMA CerrarStep ==
  ASSUME IInv, NEW p \in Bucles, Cerrar(p)
  PROVE  IInv'
BY EndStep DEF Cerrar, IInv, TypeOK

LEMMA CaerStep ==
  ASSUME IInv, NEW p \in Bucles, Caer(p)
  PROVE  IInv'
<1>1. fallos' \in Nat /\ caidas' \in Nat
  BY DEF IInv, TypeOK, Caer, Fallo
<1>. QED  BY <1>1, EndStep DEF Caer, Activos, campana

LEMMA Stuttering == IInv /\ UNCHANGED vars => IInv'
<1>. SUFFICES ASSUME IInv, UNCHANGED vars PROVE IInv'
  OBVIOUS
<1>. USE DEF IInv, vars, campana, bucle, historia, edits
<1>1. TypeOK'
  BY DEF TypeOK
<1>2. NotStarted' /\ CancelledNotStarted'
  BY DEF NotStarted, CancelledNotStarted, Activos
<1>3. SentDelivered' /\ CountedDelivered' /\ SentReachedAll' /\ Loops'
  BY DEF SentDelivered, CountedDelivered, SentReachedAll, Loops, ConFila
<1>. QED  BY <1>1, <1>2, <1>3

\* The inductive invariant holds in every reachable state.
THEOREM Invariance == Spec => []IInv
<1>1. IInv /\ [Next]_vars => IInv'
  <2>. SUFFICES ASSUME IInv, [Next]_vars PROVE IInv'
    OBVIOUS
  <2>1. CASE LlegaLaHora \/ LeerEdicion \/ AbandonarEdicion \/ Cancelar
    BY <2>1, QuietStep
  <2>2. CASE \E st \in {"draft", "scheduled"} : EscribirEdicion(st)
    BY <2>2, EditStep
  <2>3. CASE \E p \in Peticiones : PedirEnvio(p) \/ PedirReintento(p) \/ PerderReclamo(p)
    BY <2>3, QuietStep
  <2>4. CASE (\E p \in Peticiones : ReclamarAhora(p) \/ ReclamarReintento(p))
             \/ ReclamarProgramada
    BY <2>4, ClaimStep
  <2>5. CASE \E p \in Bucles : Trabajar(p)
    BY <2>5, AbrirStep, ListarStep, MarcarStep, EnviarStep, AnotarStep, ContarStep, CerrarStep
       DEF Trabajar
  <2>6. CASE \E p \in Bucles : FallarConsulta(p) \/ Caer(p)
    BY <2>6, FallarConsultaStep, CaerStep
  <2>7. CASE UNCHANGED vars
    BY <2>7, Stuttering
  <2>. QED  BY <2>1, <2>2, <2>3, <2>4, <2>5, <2>6, <2>7 DEF Next
<1>. QED  BY <1>1, Initial, PTL DEF Spec

\* Every reachable state is well typed.
THEOREM TypeCorrect == Spec => []TypeOK
BY Invariance, PTL DEF IInv

\* A campaign that says SENT delivered to everybody on its list, however many
\* loops met in it, unless an edit changed the list while they worked.
THEOREM SentReachedAllHolds == Spec => []SentReachedAll
BY Invariance, PTL DEF IInv

\* After a confirmed cancellation no mail leaves, unless an edit brought the
\* campaign back.
THEOREM CancelHoldsHolds == Spec => []CancelHolds
<1>1. IInv => CancelHolds
  BY DEF IInv, CancelledNotStarted, NotStarted, CancelHolds
<1>. QED  BY <1>1, Invariance, PTL

-----------------------------------------------------------------------------
\* What loops may still do to address a: mail it once they have listed it, or
\* give its row back as FAILED.
Working  == {"siguiente", "enviar", "enviado", "rechazado"}
Lists(a)    == {p \in Bucles : paso[p] \in Working /\ \E r \in lista[p] : r.correo = a}
Sends(a)    == {p \in Bucles : paso[p] = "enviar" /\ actual[p].correo = a}
Returns(a)  == {p \in Bucles : paso[p] = "rechazado" /\ actual[p].correo = a}
Fresh       == {p \in Bucles : paso[p] \in {"abrir", "listar"} /\ metas[p] = {"pending", "sending"}}
Retrying    == {p \in Bucles : paso[p] \in {"abrir", "listar"} /\ metas[p] = {"failed"}}

N(S) == Cardinality(S)
Failed(a) == dest[a] # Nada /\ dest[a].st = "failed"
Listed(a) == dest[a] # Nada /\ \E p \in Lists(a) : Fila(a) \in lista[p]

\* The mails that retries may still send, given r loops that will give the row
\* back, whether it is FAILED now and on somebody's list, and n retries that
\* have not listed yet: each of these may take the row once, and one more retry
\* may come when all are done.
ByRetries(r, failed, listed, n) ==
  IF r > 1 \/ (r = 1 /\ failed) THEN n + 1
  ELSE IF failed /\ listed THEN n
  ELSE IF failed \/ r = 1 THEN IF n = 0 THEN 1 ELSE n
  ELSE IF n = 0 THEN 0 ELSE n - 1

Unclaimed == IF estado \in {"draft", "scheduled"} THEN 1 ELSE 0

Cuenta(a) ==
  enviados[a] + N(Lists(a)) + N(Sends(a)) + N(Fresh) + Unclaimed
    + ByRetries(N(Returns(a)), Failed(a), Listed(a), N(Retrying))

Accounted == \A a \in Correos : Cuenta(a) <= 1 + perdidas[a] + traslapes + reediciones

-----------------------------------------------------------------------------
\* How ByRetries answers to what happens to a row.
LEMMA ByRetriesFacts ==
  ASSUME NEW r \in Nat, NEW n \in Nat, NEW f \in BOOLEAN, NEW l \in BOOLEAN
  PROVE  /\ ByRetries(r, f, l, n) \in Nat
         /\ \A k \in BOOLEAN : ByRetries(r, FALSE, k, n) <= ByRetries(r, f, l, n)
         /\ \A k \in BOOLEAN : ByRetries(r, f, k, n) <= ByRetries(r, f, l, n) + 1
         /\ ByRetries(r + 1, f, l, n) <= ByRetries(r, f, l, n) + 1
         /\ ByRetries(r, f, l, n + 1) <= ByRetries(r, f, l, n) + 1
BY DEF ByRetries

LEMMA ByRetriesDrops ==
  ASSUME NEW r \in Nat, NEW n \in Nat, NEW f \in BOOLEAN, NEW l \in BOOLEAN
  PROVE  /\ n > 0 => ByRetries(r, f, l, n - 1) <= ByRetries(r, f, l, n)
         /\ n > 0 => ByRetries(r, TRUE, TRUE, n - 1) + 1 <= ByRetries(r, TRUE, l, n)
         /\ \A g \in BOOLEAN : r > 0 => ByRetries(r - 1, g, l, n) <= ByRetries(r, f, l, n)
         /\ ByRetries(0, f, FALSE, 1) = ByRetries(0, f, FALSE, 0)
         /\ ~ f => ByRetries(0, f, l, 0) = 0
BY DEF ByRetries

\* Loops that end, give a row back or leave their list, and retries that list.
LEMMA ByRetriesLeave ==
  ASSUME NEW r \in Nat, NEW r2 \in Nat, NEW n \in Nat, NEW n2 \in Nat,
         NEW f \in BOOLEAN, NEW l \in BOOLEAN, NEW l2 \in BOOLEAN, NEW k \in 0..1,
         r2 \in {r, r - 1}, n2 \in {n, n - 1}, k = 0 => (l2 <=> l)
  PROVE  ByRetries(r2, f, l2, n2) <= ByRetries(r, f, l, n) + k
BY DEF ByRetries

\* A set that changes by one element at most changes its size by one at most.
In(p, S) == IF p \in S THEN 1 ELSE 0

LEMMA OneChanges ==
  ASSUME NEW S, NEW T, NEW p, IsFiniteSet(S), S \ {p} = T \ {p}
  PROVE  /\ N(S) \in Nat /\ N(T) \in Nat /\ In(p, S) <= N(S)
         /\ N(T) = N(S) + In(p, T) - In(p, S)
<1>. USE DEF N, In
<1>1. N(S) \in Nat
  BY FS_CardinalityType
<1>2. CASE p \in S <=> p \in T
  <2>1. T = S
    BY <1>2
  <2>2. p \in S => S # {}
    OBVIOUS
  <2>3. N(S) = 0 <=> S = {}
    BY FS_EmptySet
  <2>. QED  BY <1>1, <1>2, <2>1, <2>2, <2>3
<1>3. CASE p \in S /\ p \notin T
  <2>1. T = S \ {p}
    BY <1>3
  <2>2. N(T) = N(S) - 1 /\ IsFiniteSet(T)
    BY <1>3, <2>1, FS_RemoveElement
  <2>3. N(T) \in Nat
    BY <2>2, FS_CardinalityType
  <2>. QED  BY <1>1, <1>3, <2>2, <2>3
<1>4. CASE p \notin S /\ p \in T
  <2>1. T = S \cup {p}
    BY <1>4
  <2>2. N(T) = N(S) + 1
    BY <1>4, <2>1, FS_AddElement
  <2>. QED  BY <1>1, <1>4, <2>2
<1>. QED  BY <1>2, <1>3, <1>4

LEMMA LoopsFinite ==
  ASSUME NEW S \in SUBSET Bucles
  PROVE  IsFiniteSet(S) /\ N(S) \in Nat
<1>1. IsFiniteSet(Bucles)
  BY FS_AddElement DEF Bucles
<1>. QED  BY <1>1, FS_Subset, FS_CardinalityType DEF N

\* What is counted of an address.
Others(a) == enviados[a] + N(Lists(a)) + N(Sends(a)) + N(Fresh) + Unclaimed
Retries(a) == ByRetries(N(Returns(a)), Failed(a), Listed(a), N(Retrying))

LEMMA CuentaType ==
  ASSUME TypeOK, NEW a \in Correos
  PROVE  /\ enviados[a] \in Nat /\ perdidas[a] \in Nat /\ traslapes \in Nat /\ reediciones \in Nat
         /\ N(Lists(a)) \in Nat /\ N(Sends(a)) \in Nat /\ N(Returns(a)) \in Nat
         /\ N(Fresh) \in Nat /\ N(Retrying) \in Nat
         /\ Unclaimed \in 0..1 /\ Failed(a) \in BOOLEAN /\ Listed(a) \in BOOLEAN
         /\ Others(a) \in Nat /\ Retries(a) \in Nat
         /\ Cuenta(a) = Others(a) + Retries(a)
<1>1. /\ Lists(a) \subseteq Bucles /\ Sends(a) \subseteq Bucles /\ Returns(a) \subseteq Bucles
      /\ Fresh \subseteq Bucles /\ Retrying \subseteq Bucles
  BY DEF Lists, Sends, Returns, Fresh, Retrying
<1>2. /\ N(Lists(a)) \in Nat /\ N(Sends(a)) \in Nat /\ N(Returns(a)) \in Nat
      /\ N(Fresh) \in Nat /\ N(Retrying) \in Nat
  BY <1>1, LoopsFinite
<1>3. /\ enviados[a] \in Nat /\ perdidas[a] \in Nat /\ traslapes \in Nat /\ reediciones \in Nat
  BY DEF TypeOK
<1>4. Unclaimed \in 0..1 /\ Failed(a) \in BOOLEAN /\ Listed(a) \in BOOLEAN
  BY DEF Unclaimed, Failed, Listed
<1>5. Retries(a) \in Nat
  BY <1>2, <1>4, ByRetriesFacts DEF Retries
<1>. QED  BY <1>2, <1>3, <1>4, <1>5 DEF Others, Retries, Cuenta

\* A step of one loop moves that loop alone in and out of the sets counted.
LEMMA OneLoop ==
  ASSUME TypeOK, NEW a \in Correos, NEW p \in Bucles,
         \A q \in Bucles \ {p} : UNCHANGED <<paso[q], metas[q], lista[q], actual[q]>>
  PROVE  /\ N(Lists(a))' = N(Lists(a)) + In(p, Lists(a)') - In(p, Lists(a))
         /\ N(Sends(a))' = N(Sends(a)) + In(p, Sends(a)') - In(p, Sends(a))
         /\ N(Returns(a))' = N(Returns(a)) + In(p, Returns(a)') - In(p, Returns(a))
         /\ N(Fresh)' = N(Fresh) + In(p, Fresh') - In(p, Fresh)
         /\ N(Retrying)' = N(Retrying) + In(p, Retrying') - In(p, Retrying)
         /\ In(p, Returns(a)) <= N(Returns(a)) /\ In(p, Retrying) <= N(Retrying)
         /\ \A q \in Bucles \ {p} : q \in Lists(a) <=> q \in Lists(a)'
<1>1. /\ IsFiniteSet(Lists(a)) /\ IsFiniteSet(Sends(a)) /\ IsFiniteSet(Returns(a))
      /\ IsFiniteSet(Fresh) /\ IsFiniteSet(Retrying)
  BY LoopsFinite DEF Lists, Sends, Returns, Fresh, Retrying
<1>2. Lists(a) \ {p} = Lists(a)' \ {p}
  BY DEF Lists
<1>3. Sends(a) \ {p} = Sends(a)' \ {p}
  BY DEF Sends
<1>4. Returns(a) \ {p} = Returns(a)' \ {p}
  BY DEF Returns
<1>5. Fresh \ {p} = Fresh' \ {p}
  BY DEF Fresh
<1>6. Retrying \ {p} = Retrying' \ {p}
  BY DEF Retrying
<1>7. /\ N(Lists(a))' = N(Lists(a)') /\ N(Sends(a))' = N(Sends(a)')
      /\ N(Returns(a))' = N(Returns(a)') /\ N(Fresh)' = N(Fresh')
      /\ N(Retrying)' = N(Retrying')
  BY DEF N
<1>8. N(Lists(a)') = N(Lists(a)) + In(p, Lists(a)') - In(p, Lists(a))
  BY <1>1, <1>2, OneChanges
<1>9. N(Sends(a)') = N(Sends(a)) + In(p, Sends(a)') - In(p, Sends(a))
  BY <1>1, <1>3, OneChanges
<1>10. /\ N(Returns(a)') = N(Returns(a)) + In(p, Returns(a)') - In(p, Returns(a))
       /\ In(p, Returns(a)) <= N(Returns(a))
  BY <1>1, <1>4, OneChanges
<1>11. N(Fresh') = N(Fresh) + In(p, Fresh') - In(p, Fresh)
  BY <1>1, <1>5, OneChanges
<1>12. /\ N(Retrying') = N(Retrying) + In(p, Retrying') - In(p, Retrying)
       /\ In(p, Retrying) <= N(Retrying)
  BY <1>1, <1>6, OneChanges
<1>13. \A q \in Bucles \ {p} : q \in Lists(a) <=> q \in Lists(a)'
  BY DEF Lists
<1>. QED  BY <1>7, <1>8, <1>9, <1>10, <1>11, <1>12, <1>13

\* Where a loop is counted.
LEMMA Counted ==
  ASSUME NEW a \in Correos, NEW p \in Bucles
  PROVE  /\ p \in Lists(a) <=> paso[p] \in Working /\ \E r \in lista[p] : r.correo = a
         /\ p \in Sends(a) <=> paso[p] = "enviar" /\ actual[p].correo = a
         /\ p \in Returns(a) <=> paso[p] = "rechazado" /\ actual[p].correo = a
         /\ p \in Fresh <=> paso[p] \in {"abrir", "listar"} /\ metas[p] = {"pending", "sending"}
         /\ p \in Retrying <=> paso[p] \in {"abrir", "listar"} /\ metas[p] = {"failed"}
BY DEF Lists, Sends, Returns, Fresh, Retrying

LEMMA CuentaTypes ==
  TypeOK => \A a \in Correos :
    /\ enviados[a] \in Nat /\ perdidas[a] \in Nat /\ traslapes \in Nat /\ reediciones \in Nat
    /\ N(Lists(a)) \in Nat /\ N(Sends(a)) \in Nat /\ N(Returns(a)) \in Nat
    /\ N(Fresh) \in Nat /\ N(Retrying) \in Nat
    /\ Unclaimed \in 0..1 /\ Failed(a) \in BOOLEAN /\ Listed(a) \in BOOLEAN
    /\ Others(a) \in Nat /\ Retries(a) \in Nat
    /\ Cuenta(a) = Others(a) + Retries(a)
BY CuentaType

LEMMA CuentaTypesNext ==
  TypeOK' => (\A a \in Correos :
    /\ enviados[a] \in Nat /\ perdidas[a] \in Nat /\ traslapes \in Nat /\ reediciones \in Nat
    /\ N(Lists(a)) \in Nat /\ N(Sends(a)) \in Nat /\ N(Returns(a)) \in Nat
    /\ N(Fresh) \in Nat /\ N(Retrying) \in Nat
    /\ Unclaimed \in 0..1 /\ Failed(a) \in BOOLEAN /\ Listed(a) \in BOOLEAN
    /\ Others(a) \in Nat /\ Retries(a) \in Nat
    /\ Cuenta(a) = Others(a) + Retries(a))'
BY CuentaTypes, PTL

\* The account of an address holds on if what is counted grows by no more than
\* its causes.
LEMMA Balance ==
  ASSUME TypeOK, TypeOK', Accounted, NEW a \in Correos, NEW d \in Nat,
         perdidas'[a] + traslapes' + reediciones' = perdidas[a] + traslapes + reediciones + d,
         Others(a)' + Retries(a)' <= Others(a) + Retries(a) + d
  PROVE  (Cuenta(a) <= 1 + perdidas[a] + traslapes + reediciones)'
<1>1. Cuenta(a) <= 1 + perdidas[a] + traslapes + reediciones
  BY DEF Accounted
<1>2. /\ Cuenta(a) = Others(a) + Retries(a) /\ Others(a) \in Nat /\ Retries(a) \in Nat
      /\ perdidas[a] \in Nat /\ traslapes \in Nat /\ reediciones \in Nat
  BY CuentaTypes
<1>3. /\ Cuenta(a)' = Others(a)' + Retries(a)' /\ Others(a)' \in Nat /\ Retries(a)' \in Nat
      /\ perdidas'[a] \in Nat /\ traslapes' \in Nat /\ reediciones' \in Nat
  BY CuentaTypesNext
<1>. QED  BY <1>1, <1>2, <1>3

\* While no loop starts, moves or ends nothing changes in the sets counted.
LEMMA NoLoop ==
  ASSUME TypeOK, NEW a \in Correos, UNCHANGED bucle,
         \A q \in Bucles : paso'[q] # paso[q] =>
           {paso[q], paso'[q]} \subseteq {"libre", "pedido", "reintento"}
  PROVE  /\ N(Lists(a))' = N(Lists(a)) /\ N(Sends(a))' = N(Sends(a))
         /\ N(Returns(a))' = N(Returns(a)) /\ N(Fresh)' = N(Fresh) /\ N(Retrying)' = N(Retrying)
         /\ Lists(a)' = Lists(a)
<1>. USE DEF bucle
<1>1. Lists(a)' = Lists(a)
  BY DEF Lists, Working
<1>2. Sends(a)' = Sends(a) /\ Returns(a)' = Returns(a)
  BY DEF Sends, Returns
<1>3. Fresh' = Fresh /\ Retrying' = Retrying
  BY DEF Fresh, Retrying
<1>. QED  BY <1>1, <1>2, <1>3 DEF N

LEMMA QuietAccount ==
  ASSUME IInv, IInv', Accounted,
         \/ LlegaLaHora \/ LeerEdicion \/ AbandonarEdicion \/ Cancelar
         \/ \E p \in Peticiones : PedirEnvio(p) \/ PedirReintento(p) \/ PerderReclamo(p)
  PROVE  Accounted'
<1>. SUFFICES ASSUME NEW a \in Correos
              PROVE  (Cuenta(a) <= 1 + perdidas[a] + traslapes + reediciones)'
  BY DEF Accounted
<1>1. /\ UNCHANGED <<dest, bucle, enviados, perdidas, traslapes, reediciones>>
      /\ estado' = estado \/ estado' = "cancelled"
      /\ \A q \in Bucles : paso'[q] # paso[q] =>
           {paso[q], paso'[q]} \subseteq {"libre", "pedido", "reintento"}
  <2>. USE DEF campana, historia, edits
  <2>1. CASE LlegaLaHora \/ LeerEdicion \/ AbandonarEdicion \/ Cancelar
    BY <2>1 DEF LlegaLaHora, LeerEdicion, AbandonarEdicion, Cancelar
  <2>2. CASE \E p \in Peticiones : PedirEnvio(p) \/ PedirReintento(p) \/ PerderReclamo(p)
    <3>1. PICK p \in Peticiones : PedirEnvio(p) \/ PedirReintento(p) \/ PerderReclamo(p)
      BY <2>2
    <3>2. paso[p] \in {"libre", "pedido", "reintento"}
          /\ \E s \in {"libre", "pedido", "reintento"} : Ir(p, s)
      BY <3>1 DEF PedirEnvio, PedirReintento, PerderReclamo
    <3>3. UNCHANGED <<campana, dest, bucle, historia, edits, cancelada>>
      BY <3>1 DEF PedirEnvio, PedirReintento, PerderReclamo
    <3>. QED  BY <3>2, <3>3 DEF Ir, IInv, TypeOK
  <2>. QED  BY <2>1, <2>2
<1>2. /\ N(Lists(a))' = N(Lists(a)) /\ N(Sends(a))' = N(Sends(a))
      /\ N(Returns(a))' = N(Returns(a)) /\ N(Fresh)' = N(Fresh) /\ N(Retrying)' = N(Retrying)
      /\ Lists(a)' = Lists(a)
  BY <1>1, NoLoop DEF IInv
<1>3. Failed(a)' = Failed(a) /\ Listed(a)' = Listed(a)
  BY <1>1, <1>2 DEF Failed, Listed, Fila, bucle
<1>4. Retries(a)' = Retries(a)
  BY <1>2, <1>3 DEF Retries
<1>5. Unclaimed' <= Unclaimed
  BY <1>1 DEF Unclaimed
<1>6. Others(a)' <= Others(a)
  BY <1>1, <1>2, <1>5, CuentaTypes, CuentaTypesNext DEF Others, IInv
<1>7. Others(a)' + Retries(a)' <= Others(a) + Retries(a) + 0
  BY <1>4, <1>6, CuentaTypes, CuentaTypesNext DEF IInv
<1>8. perdidas'[a] + traslapes' + reediciones' = perdidas[a] + traslapes + reediciones + 0
  BY <1>1, CuentaTypes DEF IInv
<1>. QED  BY <1>7, <1>8, Balance DEF IInv

\* An edit lets the campaign be claimed again: it counts itself for that, but
\* before the first claim, when it does not.
LEMMA EditAccount ==
  ASSUME IInv, IInv', Accounted, NEW st \in {"draft", "scheduled"}, EscribirEdicion(st)
  PROVE  Accounted'
<1>. SUFFICES ASSUME NEW a \in Correos
              PROVE  (Cuenta(a) <= 1 + perdidas[a] + traslapes + reediciones)'
  BY DEF Accounted
<1>. USE DEF IInv
<1>1. UNCHANGED <<paso, bucle, enviados, perdidas, traslapes, iniciada>>
  BY DEF EscribirEdicion, historia
<1>2. /\ N(Lists(a))' = N(Lists(a)) /\ N(Sends(a))' = N(Sends(a))
      /\ N(Returns(a))' = N(Returns(a)) /\ N(Fresh)' = N(Fresh) /\ N(Retrying)' = N(Retrying)
      /\ Lists(a)' = Lists(a)
  BY <1>1, NoLoop
<1>3. UNCHANGED dest \/ Failed(a)' = FALSE
  BY DEF EscribirEdicion, NuevaFila, Failed
<1>4. Retries(a)' <= Retries(a)
  <2>1. CASE UNCHANGED dest
    <3>1. Failed(a)' = Failed(a) /\ Listed(a)' = Listed(a)
      BY <1>1, <1>2, <2>1 DEF Failed, Listed, Fila, bucle
    <3>. QED  BY <1>2, <3>1, CuentaTypes DEF Retries
  <2>2. CASE Failed(a)' = FALSE
    <3>1. ByRetries(N(Returns(a)), FALSE, Listed(a)', N(Retrying)) <= Retries(a)
      BY CuentaTypes, CuentaTypesNext, ByRetriesFacts DEF Retries
    <3>. QED  BY <1>2, <2>2, <3>1 DEF Retries
  <2>. QED  BY <1>3, <2>1, <2>2
<1>5. CASE iniciada
  <2>1. reediciones' = reediciones + 1
    BY <1>5 DEF EscribirEdicion
  <2>2. Others(a)' + Retries(a)' <= Others(a) + Retries(a) + 1
    BY <1>1, <1>2, <1>4, CuentaTypes, CuentaTypesNext DEF Others
  <2>3. perdidas'[a] + traslapes' + reediciones' = perdidas[a] + traslapes + reediciones + 1
    BY <1>1, <2>1, CuentaTypes
  <2>. QED  BY <2>2, <2>3, Balance
<1>6. CASE ~ iniciada
  <2>1. Activos = {} /\ enviados[a] = 0 /\ ~ Failed(a)
    BY <1>6 DEF NotStarted, Failed
  <2>2. /\ Lists(a) = {} /\ Sends(a) = {} /\ Returns(a) = {} /\ Fresh = {} /\ Retrying = {}
    BY <2>1 DEF Lists, Sends, Returns, Fresh, Retrying, Activos, Working
  <2>3. N({}) = 0
    BY FS_EmptySet DEF N
  <2>4. Retries(a) = 0
    BY <2>1, <2>2, <2>3, CuentaTypes, ByRetriesDrops DEF Retries
  <2>5. N(Lists(a))' = 0 /\ N(Sends(a))' = 0 /\ N(Fresh)' = 0 /\ enviados'[a] = 0
    BY <1>1, <1>2, <2>1, <2>2, <2>3
  <2>6. Others(a)' <= 1
    BY <2>5, CuentaTypesNext DEF Others
  <2>7. Retries(a)' = 0
    BY <1>4, <2>4, CuentaTypesNext
  <2>. QED  BY <2>6, <2>7, CuentaTypesNext
<1>. QED  BY <1>5, <1>6

\* A claim takes the place of the one that could be made, or is a retry: of
\* nobody's rows, or counted.
LEMMA ClaimAccount ==
  ASSUME IInv, IInv', Accounted,
         \/ \E p \in Peticiones : ReclamarAhora(p) \/ ReclamarReintento(p)
         \/ ReclamarProgramada
  PROVE  Accounted'
<1>. SUFFICES ASSUME NEW a \in Correos
              PROVE  (Cuenta(a) <= 1 + perdidas[a] + traslapes + reediciones)'
  BY DEF Accounted
<1>. USE DEF IInv
<1>1. PICK p \in Bucles, S \in {{"pending", "sending"}, {"failed"}} :
        /\ Tomar(p, S) /\ paso[p] \in {"libre", "pedido", "reintento"}
        /\ S = {"pending", "sending"} => Unclaimed = 1 /\ traslapes' = traslapes
        /\ S = {"failed"} => traslapes' = IF Activos # {} THEN traslapes + 1 ELSE traslapes
  <2>. USE DEF Bucles, Unclaimed
  <2>1. CASE \E p \in Peticiones : ReclamarAhora(p)
    BY <2>1 DEF ReclamarAhora, ReclamableAhora
  <2>2. CASE \E p \in Peticiones : ReclamarReintento(p)
    BY <2>2 DEF ReclamarReintento
  <2>3. CASE ReclamarProgramada
    BY <2>3 DEF ReclamarProgramada, ReclamableProgramada
  <2>. QED  BY <2>1, <2>2, <2>3
<1>2. /\ paso' = [paso EXCEPT ![p] = "abrir"] /\ metas' = [metas EXCEPT ![p] = S]
      /\ UNCHANGED <<dest, lista, actual, enviados, perdidas, reediciones>>
      /\ Unclaimed' = 0
  BY <1>1 DEF Tomar, Ir, edits, Unclaimed
<1>3. \A q \in Bucles \ {p} : UNCHANGED <<paso[q], metas[q], lista[q], actual[q]>>
  BY <1>2 DEF TypeOK
<1>4. paso'[p] = "abrir" /\ metas'[p] = S
  BY <1>2 DEF TypeOK
<1>5. /\ p \notin Lists(a) /\ p \notin Sends(a) /\ p \notin Returns(a)
      /\ p \notin Fresh /\ p \notin Retrying
  BY <1>1, Counted DEF Working
<1>6. /\ p \notin Lists(a)' /\ p \notin Sends(a)' /\ p \notin Returns(a)'
      /\ p \in Fresh' <=> S = {"pending", "sending"}
      /\ p \in Retrying' <=> S = {"failed"}
  BY <1>4 DEF Lists, Sends, Returns, Fresh, Retrying, Working
<1>7. /\ N(Lists(a))' = N(Lists(a)) /\ N(Sends(a))' = N(Sends(a)) /\ N(Returns(a))' = N(Returns(a))
      /\ N(Fresh)' = N(Fresh) + (IF S = {"pending", "sending"} THEN 1 ELSE 0)
      /\ N(Retrying)' = N(Retrying) + (IF S = {"failed"} THEN 1 ELSE 0)
      /\ Lists(a)' = Lists(a)
  <2>1. Lists(a)' = Lists(a)
    BY <1>3, <1>5, <1>6 DEF Lists
  <2>. QED  BY <1>3, <1>5, <1>6, <2>1, OneLoop, CuentaTypes DEF In
<1>8. Failed(a)' = Failed(a) /\ Listed(a)' = Listed(a)
  BY <1>2, <1>7 DEF Failed, Listed, Fila
<1>9. CASE S = {"pending", "sending"}
  <2>1. N(Fresh)' = N(Fresh) + 1 /\ N(Retrying)' = N(Retrying)
    BY <1>7, <1>9, CuentaTypes
  <2>2. Retries(a)' = Retries(a)
    BY <1>7, <1>8, <2>1 DEF Retries
  <2>3. Others(a)' + Retries(a)' <= Others(a) + Retries(a) + 0
    BY <1>1, <1>2, <1>7, <1>9, <2>1, <2>2, CuentaTypes, CuentaTypesNext DEF Others
  <2>4. perdidas'[a] + traslapes' + reediciones' = perdidas[a] + traslapes + reediciones + 0
    BY <1>1, <1>2, <1>9, CuentaTypes
  <2>. QED  BY <2>3, <2>4, Balance
<1>10. CASE S = {"failed"}
  <2>1. N(Fresh)' = N(Fresh) /\ N(Retrying)' = N(Retrying) + 1
    BY <1>7, <1>10, CuentaTypes
  <2>2. Others(a)' <= Others(a)
    BY <1>2, <1>7, <2>1, CuentaTypes, CuentaTypesNext DEF Others
  <2>3. CASE Activos # {}
    <3>1. ByRetries(N(Returns(a)), Failed(a), Listed(a), N(Retrying) + 1) <= Retries(a) + 1
      BY CuentaTypes, ByRetriesFacts DEF Retries
    <3>2. Retries(a)' <= Retries(a) + 1
      BY <1>7, <1>8, <2>1, <3>1 DEF Retries
    <3>3. Others(a)' + Retries(a)' <= Others(a) + Retries(a) + 1
      BY <2>2, <3>2, CuentaTypes, CuentaTypesNext
    <3>4. perdidas'[a] + traslapes' + reediciones' = perdidas[a] + traslapes + reediciones + 1
      BY <1>1, <1>2, <1>10, <2>3, CuentaTypes
    <3>. QED  BY <3>3, <3>4, Balance
  <2>4. CASE Activos = {}
    <3>1. Lists(a) = {} /\ Returns(a) = {} /\ Retrying = {}
      BY <2>4 DEF Lists, Returns, Retrying, Activos, Working
    <3>2. N(Returns(a)) = 0 /\ N(Retrying) = 0 /\ Listed(a) = FALSE
      BY <3>1, FS_EmptySet DEF N, Listed
    <3>3. ByRetries(0, Failed(a), FALSE, 1) = ByRetries(0, Failed(a), FALSE, 0)
      BY CuentaTypes, ByRetriesDrops
    <3>7. N(Returns(a))' = 0 /\ N(Retrying)' = 1 /\ Listed(a)' = FALSE
      BY <1>7, <1>8, <2>1, <3>2
    <3>4. Retries(a)' = Retries(a)
      BY <1>8, <3>2, <3>3, <3>7 DEF Retries
    <3>5. Others(a)' + Retries(a)' <= Others(a) + Retries(a) + 0
      BY <2>2, <3>4, CuentaTypes, CuentaTypesNext
    <3>6. perdidas'[a] + traslapes' + reediciones' = perdidas[a] + traslapes + reediciones + 0
      BY <1>1, <1>2, <1>10, <2>4, CuentaTypes
    <3>. QED  BY <3>5, <3>6, Balance
  <2>. QED  BY <2>3, <2>4
<1>. QED  BY <1>9, <1>10

-----------------------------------------------------------------------------
\* A loop that moves on or ends without a mail, a new list or a note only takes
\* from what is counted; the list that it leaves made its FAILED rows wait.
LEMMA LeaveAccount ==
  ASSUME IInv, IInv', Accounted, NEW p \in Bucles,
         UNCHANGED <<dest, enviados, perdidas, traslapes, reediciones>>,
         estado' = estado \/ estado' \notin {"draft", "scheduled"},
         \A q \in Bucles \ {p} : UNCHANGED <<paso[q], metas[q], lista[q], actual[q]>>,
         UNCHANGED <<metas[p], lista[p], actual[p]>> \/ paso'[p] = "libre",
         \/ paso'[p] \in {"libre", "cerrar", "fracaso"}
         \/ paso[p] \in {"abrir", "listar"} /\ paso'[p] = "listar"
  PROVE  Accounted'
<1>. SUFFICES ASSUME NEW a \in Correos
              PROVE  (Cuenta(a) <= 1 + perdidas[a] + traslapes + reediciones)'
  BY DEF Accounted
<1>. USE DEF IInv
<1>1. /\ p \notin Lists(a)' /\ p \notin Sends(a)' /\ p \notin Returns(a)'
      /\ p \in Fresh' => p \in Fresh
      /\ p \in Retrying' => p \in Retrying
  BY DEF Lists, Sends, Returns, Fresh, Retrying, Working
<1>2. /\ N(Lists(a))' = N(Lists(a)) - In(p, Lists(a)) /\ N(Sends(a))' <= N(Sends(a))
      /\ N(Returns(a))' \in {N(Returns(a)), N(Returns(a)) - 1} /\ N(Fresh)' <= N(Fresh)
      /\ N(Retrying)' \in {N(Retrying), N(Retrying) - 1}
  BY <1>1, OneLoop, CuentaTypes DEF In
<1>3. Failed(a)' = Failed(a) /\ (p \notin Lists(a) => Listed(a)' = Listed(a))
  <2>1. Failed(a)' = Failed(a)
    BY DEF Failed
  <2>2. ASSUME p \notin Lists(a) PROVE Listed(a)' = Listed(a)
    <3>1. Lists(a)' = Lists(a)
      BY <1>1, <2>2 DEF Lists
    <3>2. \A q \in Lists(a) : lista'[q] = lista[q]
      BY <2>2 DEF Lists
    <3>. QED  BY <3>1, <3>2 DEF Listed, Fila
  <2>. QED  BY <2>1, <2>2
<1>4. Unclaimed' <= Unclaimed
  BY DEF Unclaimed
<1>7. Retries(a)' <= Retries(a) + In(p, Lists(a))
  <2>1. /\ N(Returns(a)) \in Nat /\ N(Retrying) \in Nat
        /\ Failed(a) \in BOOLEAN /\ Listed(a) \in BOOLEAN
    BY CuentaTypes
  <2>2. N(Returns(a))' \in Nat /\ N(Retrying)' \in Nat /\ Listed(a)' \in BOOLEAN
    BY CuentaTypesNext
  <2>3. In(p, Lists(a)) \in 0..1 /\ (In(p, Lists(a)) = 0 => (Listed(a)' <=> Listed(a)))
    BY <1>3 DEF In
  <2>4. ByRetries(N(Returns(a))', Failed(a), Listed(a)', N(Retrying)')
          <= ByRetries(N(Returns(a)), Failed(a), Listed(a), N(Retrying)) + In(p, Lists(a))
    BY <1>2, <2>1, <2>2, <2>3, ByRetriesLeave
  <2>. QED  BY <1>3, <2>4 DEF Retries
<1>8. Others(a)' + In(p, Lists(a)) <= Others(a)
  BY <1>2, <1>4, CuentaTypes, CuentaTypesNext DEF Others, In
<1>9. Others(a)' + Retries(a)' <= Others(a) + Retries(a) + 0
  BY <1>7, <1>8, CuentaTypes, CuentaTypesNext DEF In
<1>10. perdidas'[a] + traslapes' + reediciones' = perdidas[a] + traslapes + reediciones + 0
  BY CuentaTypes
<1>. QED  BY <1>9, <1>10, Balance

LEMMA LeaveActions ==
  ASSUME IInv, IInv', Accounted, NEW p \in Bucles,
         Abrir(p) \/ Contar(p) \/ Cerrar(p) \/ FallarConsulta(p) \/ Caer(p)
  PROVE  Accounted'
<1>. USE DEF IInv
<1>1. /\ UNCHANGED <<dest, enviados, perdidas, traslapes, reediciones>>
      /\ \E s \in {"libre", "cerrar", "fracaso", "listar"} : Ir(p, s)
      /\ estado' = estado \/ estado' \notin {"draft", "scheduled"}
  <2>. USE DEF campana, historia, edits
  <2>1. CASE Abrir(p) \/ FallarConsulta(p)
    BY <2>1 DEF Abrir, FallarConsulta, AlFallar
  <2>2. CASE Contar(p)
    BY <2>2 DEF Contar
  <2>3. CASE Cerrar(p) \/ Caer(p)
    BY <2>3 DEF Cerrar, Caer, Terminar, Loops
  <2>. QED  BY <2>1, <2>2, <2>3
<1>2. /\ \A q \in Bucles \ {p} : UNCHANGED <<paso[q], metas[q], lista[q], actual[q]>>
      /\ UNCHANGED <<metas[p], lista[p], actual[p]>> \/ paso'[p] = "libre"
  <2>1. CASE Abrir(p) \/ FallarConsulta(p)
    BY <1>1, <2>1 DEF Abrir, FallarConsulta, bucle, Ir, TypeOK
  <2>2. CASE Contar(p)
    BY <2>2 DEF Contar, Ir, TypeOK
  <2>3. CASE Cerrar(p) \/ Caer(p)
    <3>1. Terminar(p)
      BY <2>3 DEF Cerrar, Caer
    <3>2. paso'[p] = "libre"
      BY <3>1 DEF Terminar, Ir, TypeOK
    <3>. QED  BY <3>1, <3>2, TerminarRows
  <2>. QED  BY <2>1, <2>2, <2>3
<1>3. \/ paso'[p] \in {"libre", "cerrar", "fracaso"}
      \/ paso[p] \in {"abrir", "listar"} /\ paso'[p] = "listar"
  <2>1. CASE Abrir(p)
    BY <2>1 DEF Abrir, AlFallar, Ir, TypeOK
  <2>2. CASE Contar(p) \/ Cerrar(p) \/ FallarConsulta(p) \/ Caer(p)
    BY <2>2 DEF Contar, Cerrar, FallarConsulta, Caer, AlFallar, Terminar, Ir, TypeOK
  <2>. QED  BY <2>1, <2>2
<1>. QED  BY <1>1, <1>2, <1>3, LeaveAccount

\* A list takes the place of the loop that was to read it; a retry only lists
\* FAILED rows, the first loop no such row.
LEMMA ListAccount ==
  ASSUME IInv, IInv', Accounted, NEW p \in Bucles, Listar(p)
  PROVE  Accounted'
<1>. SUFFICES ASSUME NEW a \in Correos
              PROVE  (Cuenta(a) <= 1 + perdidas[a] + traslapes + reediciones)'
  BY DEF Accounted
<1>. USE DEF IInv
<1>1. /\ UNCHANGED <<dest, metas, actual, enviados, perdidas, traslapes, reediciones>>
      /\ Unclaimed' = Unclaimed
      /\ paso[p] = "listar" /\ paso' = [paso EXCEPT ![p] = "siguiente"]
      /\ lista' = [lista EXCEPT ![p] = {Fila(b) : b \in Destinatarios(p)}]
  BY DEF Listar, historia, edits, campana, Unclaimed, Ir
<1>2. /\ \A q \in Bucles \ {p} : UNCHANGED <<paso[q], metas[q], lista[q], actual[q]>>
      /\ paso'[p] = "siguiente" /\ lista'[p] = {Fila(b) : b \in Destinatarios(p)}
  BY <1>1 DEF TypeOK
<1>3. p \in Lists(a)' <=> a \in Destinatarios(p)
  <2>1. p \in Lists(a)' <=> \E x \in {Fila(b) : b \in Destinatarios(p)} : x.correo = a
    BY <1>2 DEF Lists, Working
  <2>2. \A b \in Destinatarios(p) : Fila(b).correo = b
    BY DEF Fila
  <2>. QED  BY <2>1, <2>2
<1>4. /\ p \notin Lists(a) /\ p \notin Sends(a) /\ p \notin Returns(a)
      /\ p \notin Sends(a)' /\ p \notin Returns(a)' /\ p \notin Fresh' /\ p \notin Retrying'
  BY <1>1, <1>2 DEF Lists, Sends, Returns, Fresh, Retrying, Working
<1>5. /\ N(Lists(a))' = N(Lists(a)) + In(p, Lists(a)') /\ N(Sends(a))' = N(Sends(a))
      /\ N(Returns(a))' = N(Returns(a)) /\ N(Fresh)' = N(Fresh) - In(p, Fresh)
      /\ N(Retrying)' = N(Retrying) - In(p, Retrying) /\ In(p, Retrying) <= N(Retrying)
  BY <1>2, <1>4, OneLoop, CuentaTypes DEF In
<1>6. Failed(a)' = Failed(a)
  BY <1>1 DEF Failed
<1>7. /\ N(Returns(a)) \in Nat /\ N(Retrying) \in Nat /\ N(Retrying)' \in Nat
      /\ Failed(a) \in BOOLEAN /\ Listed(a) \in BOOLEAN /\ Listed(a)' \in BOOLEAN
  BY CuentaTypes, CuentaTypesNext
<1>8. perdidas'[a] + traslapes' + reediciones' = perdidas[a] + traslapes + reediciones + 0
  BY <1>1, CuentaTypes
<1>9. CASE a \notin Destinatarios(p)
  <2>1. Lists(a)' = Lists(a)
    BY <1>2, <1>3, <1>4, <1>9 DEF Lists
  <2>2. Listed(a)' <=> Listed(a)
    BY <1>1, <1>2, <1>4, <2>1 DEF Listed, Fila
  <2>3. ByRetries(N(Returns(a))', Failed(a), Listed(a)', N(Retrying)')
          <= ByRetries(N(Returns(a)), Failed(a), Listed(a), N(Retrying)) + 0
    BY <1>5, <1>7, <2>2, ByRetriesLeave DEF In
  <2>4. Others(a)' <= Others(a)
    BY <1>1, <1>3, <1>5, <1>9, CuentaTypes, CuentaTypesNext DEF Others, In
  <2>5. Others(a)' + Retries(a)' <= Others(a) + Retries(a) + 0
    BY <1>6, <2>3, <2>4, CuentaTypes, CuentaTypesNext DEF Retries
  <2>. QED  BY <1>8, <2>5, Balance
<1>10. CASE a \in Destinatarios(p) /\ metas[p] = {"failed"}
  <2>1. Failed(a) = TRUE
    BY <1>10 DEF Destinatarios, EnEstado, ConFila, Failed
  <2>2. p \in Lists(a)' /\ p \in Retrying /\ p \notin Fresh
    BY <1>1, <1>3, <1>10 DEF Fresh, Retrying
  <2>3. Listed(a)' = TRUE
    BY <1>1, <1>2, <1>10, <2>1, <2>2 DEF Listed, Fila, Failed
  <2>4. /\ N(Retrying) > 0 /\ N(Retrying)' = N(Retrying) - 1 /\ N(Fresh)' = N(Fresh)
        /\ N(Lists(a))' = N(Lists(a)) + 1
    BY <1>5, <1>7, <2>2, CuentaTypes DEF In
  <2>5. ByRetries(N(Returns(a)), TRUE, TRUE, N(Retrying) - 1) + 1
          <= ByRetries(N(Returns(a)), TRUE, Listed(a), N(Retrying))
    BY <1>7, <2>4, ByRetriesDrops
  <2>6. Retries(a)' + 1 <= Retries(a)
    BY <1>5, <1>6, <2>1, <2>3, <2>4, <2>5 DEF Retries
  <2>7. Others(a)' = Others(a) + 1
    BY <1>1, <1>5, <2>4, CuentaTypes DEF Others
  <2>8. Others(a)' + Retries(a)' <= Others(a) + Retries(a) + 0
    BY <2>6, <2>7, CuentaTypes, CuentaTypesNext
  <2>. QED  BY <1>8, <2>8, Balance
<1>11. CASE a \in Destinatarios(p) /\ metas[p] = {"pending", "sending"}
  <2>1. Failed(a) = FALSE
    BY <1>11 DEF Destinatarios, EnEstado, ConFila, Failed
  <2>2. p \in Lists(a)' /\ p \in Fresh /\ p \notin Retrying
    BY <1>1, <1>3, <1>11 DEF Fresh, Retrying
  <2>3. N(Retrying)' = N(Retrying) /\ N(Fresh)' = N(Fresh) - 1 /\ N(Lists(a))' = N(Lists(a)) + 1
    BY <1>5, <1>7, <2>2, CuentaTypes DEF In
  <2>4. ByRetries(N(Returns(a)), FALSE, Listed(a)', N(Retrying))
          <= ByRetries(N(Returns(a)), FALSE, Listed(a), N(Retrying))
    BY <1>7, ByRetriesFacts
  <2>5. Retries(a)' <= Retries(a)
    BY <1>5, <1>6, <2>1, <2>3, <2>4 DEF Retries
  <2>6. Others(a)' = Others(a)
    BY <1>1, <1>5, <2>3, CuentaTypes DEF Others
  <2>7. Others(a)' + Retries(a)' <= Others(a) + Retries(a) + 0
    BY <2>5, <2>6, CuentaTypes, CuentaTypesNext
  <2>. QED  BY <1>8, <2>7, Balance
<1>. QED  BY <1>1, <1>9, <1>10, <1>11 DEF Loops

\* A mail taken from a list is about to be sent; a FAILED row is no longer so.
LEMMA MarkAccount ==
  ASSUME IInv, IInv', Accounted, NEW p \in Bucles, Marcar(p)
  PROVE  Accounted'
<1>. SUFFICES ASSUME NEW a \in Correos
              PROVE  (Cuenta(a) <= 1 + perdidas[a] + traslapes + reediciones)'
  BY DEF Accounted
<1>. USE DEF IInv
<1>1. PICK r \in lista[p] :
        /\ dest' = Anotada(r, "sending")
        /\ actual' = [actual EXCEPT ![p] = r]
        /\ lista' = [lista EXCEPT ![p] = @ \ {r}]
  BY DEF Marcar
<1>2. /\ UNCHANGED <<metas, enviados, perdidas, traslapes, reediciones>>
      /\ Unclaimed' = Unclaimed
      /\ paso[p] = "siguiente" /\ paso' = [paso EXCEPT ![p] = "enviar"]
  BY DEF Marcar, historia, edits, campana, Unclaimed, Ir
<1>3. /\ \A q \in Bucles \ {p} : UNCHANGED <<paso[q], metas[q], lista[q], actual[q]>>
      /\ paso'[p] = "enviar" /\ lista'[p] = lista[p] \ {r} /\ actual'[p] = r
  BY <1>1, <1>2 DEF TypeOK
<1>4. r \in Destino /\ "sending" \in Envios
  BY DEF TypeOK, Destino, Envios
<1>5. /\ \A b \in Correos : b # r.correo => dest'[b] = dest[b]
      /\ \A b \in Correos : dest'[b] = dest[b] \/ (dest'[b] # Nada /\ dest'[b].st = "sending")
  BY <1>1, <1>4, AnotadaRows
<1>6. \A s \in lista[p] : s.correo = r.correo => s = r
  BY DEF Loops
<1>7. /\ p \notin Sends(a) /\ p \notin Returns(a) /\ p \notin Fresh /\ p \notin Retrying
      /\ p \notin Returns(a)' /\ p \notin Fresh' /\ p \notin Retrying'
  BY <1>2, <1>3 DEF Sends, Returns, Fresh, Retrying
<1>8. /\ r.correo = a => p \in Lists(a) /\ p \notin Lists(a)' /\ p \in Sends(a)'
      /\ r.correo # a => (p \in Lists(a) <=> p \in Lists(a)') /\ p \notin Sends(a)'
  BY <1>2, <1>3, <1>6 DEF Lists, Sends, Working
<1>9. /\ N(Lists(a))' + N(Sends(a))' = N(Lists(a)) + N(Sends(a))
      /\ N(Returns(a))' = N(Returns(a)) /\ N(Fresh)' = N(Fresh) /\ N(Retrying)' = N(Retrying)
  BY <1>3, <1>7, <1>8, OneLoop, CuentaTypes DEF In
<1>10. /\ N(Returns(a)) \in Nat /\ N(Retrying) \in Nat
       /\ Failed(a) \in BOOLEAN /\ Listed(a) \in BOOLEAN /\ Listed(a)' \in BOOLEAN
  BY CuentaTypes, CuentaTypesNext
<1>11. Failed(a)' = FALSE \/ (dest'[a] = dest[a] /\ ~ (r.correo = a /\ r = Fila(a) /\ dest[a] # Nada))
  <2>1. CASE dest'[a] = dest[a] /\ r.correo = a /\ r = Fila(a) /\ dest[a] # Nada
    <3>1. dest' = [dest EXCEPT ![a].st = "sending"]
      BY <1>1, <2>1 DEF Anotada, Fila
    <3>2. dest[a] \in [gen : Nat, st : Envios]
      BY <2>1 DEF TypeOK, Filas
    <3>3. dest'[a].st = "sending"
      BY <3>1, <3>2 DEF TypeOK
    <3>. QED  BY <3>3 DEF Failed
  <2>. QED  BY <1>5, <2>1 DEF Failed
<1>12. Retries(a)' <= Retries(a)
  <2>1. CASE Failed(a)' = FALSE
    <3>1. ByRetries(N(Returns(a)), FALSE, Listed(a)', N(Retrying)) <= Retries(a)
      BY <1>10, ByRetriesFacts DEF Retries
    <3>. QED  BY <1>9, <2>1, <3>1 DEF Retries
  <2>2. CASE dest'[a] = dest[a] /\ ~ (r.correo = a /\ r = Fila(a) /\ dest[a] # Nada)
    <3>1. Failed(a)' = Failed(a) /\ Fila(a)' = Fila(a)
      BY <2>2 DEF Failed, Fila
    <3>2. dest[a] # Nada => (\A q \in Bucles : q \in Lists(a) /\ Fila(a) \in lista[q]
                                           <=> q \in Lists(a)' /\ Fila(a) \in lista'[q])
      <4>. SUFFICES ASSUME dest[a] # Nada, NEW q \in Bucles
                    PROVE  q \in Lists(a) /\ Fila(a) \in lista[q]
                             <=> q \in Lists(a)' /\ Fila(a) \in lista'[q]
        OBVIOUS
      <4>1. CASE q # p
        BY <1>3, <4>1 DEF Lists
      <4>2. CASE q = p
        <5>1. Fila(a).correo = a /\ r # Fila(a)
          BY <2>2 DEF Fila
        <5>2. Fila(a) \in lista[p] <=> Fila(a) \in lista'[p]
          BY <1>3, <5>1
        <5>3. Fila(a) \in lista[p] => p \in Lists(a) /\ p \in Lists(a)'
          BY <1>2, <1>3, <5>1, <5>2 DEF Lists, Working
        <5>. QED  BY <4>2, <5>2, <5>3
      <4>. QED  BY <4>1, <4>2
    <3>3. Listed(a)' <=> Listed(a)
      <4>1. Lists(a) \subseteq Bucles /\ Lists(a)' \subseteq Bucles
        BY DEF Lists
      <4>. QED  BY <2>2, <3>1, <3>2, <4>1 DEF Listed
    <3>4. ByRetries(N(Returns(a)), Failed(a), Listed(a)', N(Retrying))
            <= ByRetries(N(Returns(a)), Failed(a), Listed(a), N(Retrying)) + 0
      BY <1>10, <3>3, ByRetriesLeave
    <3>. QED  BY <1>9, <3>1, <3>4, CuentaTypes, CuentaTypesNext DEF Retries
  <2>. QED  BY <1>11, <2>1, <2>2
<1>13. Others(a)' = Others(a)
  BY <1>2, <1>9, CuentaTypes, CuentaTypesNext DEF Others
<1>14. Others(a)' + Retries(a)' <= Others(a) + Retries(a) + 0
  BY <1>12, <1>13, CuentaTypes, CuentaTypesNext
<1>15. perdidas'[a] + traslapes' + reediciones' = perdidas[a] + traslapes + reediciones + 0
  BY <1>2, CuentaTypes
<1>. QED  BY <1>14, <1>15, Balance

\* What a loop does with the mail in its hands: the list it works stays, and
\* with it who has listed what.
LEMMA HandFrame ==
  ASSUME IInv, NEW a \in Correos, NEW p \in Bucles, NEW s \in Pasos,
         UNCHANGED bucle, Ir(p, s),
         paso[p] \in {"enviar", "enviado", "rechazado"},
         s \in {"siguiente", "enviado", "rechazado"},
         \A b \in Correos : dest'[b] = Nada <=> dest[b] = Nada,
         \A b \in Correos : dest'[b] # Nada => dest'[b].gen = dest[b].gen
  PROVE  /\ paso'[p] = s
         /\ N(Lists(a))' = N(Lists(a)) /\ N(Fresh)' = N(Fresh) /\ N(Retrying)' = N(Retrying)
         /\ N(Sends(a))' = N(Sends(a)) - In(p, Sends(a))
         /\ N(Returns(a))' = N(Returns(a)) + In(p, Returns(a)') - In(p, Returns(a))
         /\ In(p, Returns(a)) <= N(Returns(a))
         /\ Listed(a)' <=> Listed(a)
<1>. USE DEF IInv
<1>1. /\ \A q \in Bucles \ {p} : UNCHANGED <<paso[q], metas[q], lista[q], actual[q]>>
      /\ paso'[p] = s /\ UNCHANGED <<metas, lista, actual>>
  BY DEF Ir, bucle, TypeOK
<1>2. /\ p \in Lists(a) <=> p \in Lists(a)'
      /\ p \notin Fresh /\ p \notin Fresh' /\ p \notin Retrying /\ p \notin Retrying'
      /\ p \notin Sends(a)'
  BY <1>1 DEF Lists, Fresh, Retrying, Sends, Working
<1>3. Lists(a)' = Lists(a)
  BY <1>1, <1>2 DEF Lists
<1>4. Listed(a)' <=> Listed(a)
  BY <1>1, <1>3 DEF Listed, Fila
<1>. QED  BY <1>1, <1>2, <1>4, OneLoop, CuentaTypes DEF In

\* A mail that leaves was counted as one to be sent; one that is refused is
\* given back, and counted as one that retries may send.
LEMMA SendAccount ==
  ASSUME IInv, IInv', Accounted, NEW p \in Bucles, Enviar(p)
  PROVE  Accounted'
<1>. SUFFICES ASSUME NEW a \in Correos
              PROVE  (Cuenta(a) <= 1 + perdidas[a] + traslapes + reediciones)'
  BY DEF Accounted
<1>. USE DEF IInv
<1>1. /\ UNCHANGED <<dest, bucle, traslapes, reediciones, metas, lista, actual>>
      /\ Unclaimed' = Unclaimed /\ paso[p] = "enviar"
  BY DEF Enviar, campana, edits, bucle, Unclaimed
<1>2. PICK b \in Correos : b = actual[p].correo
  BY <1>1, ActualType
<1>3. PICK s \in {"enviado", "rechazado"}, e \in 0..1, d \in 0..1 :
        /\ Ir(p, s)
        /\ s = "enviado" => e = 1 /\ d = 0
        /\ s = "rechazado" => e = d
        /\ enviados' = [enviados EXCEPT ![b] = @ + e]
        /\ perdidas' = [perdidas EXCEPT ![b] = @ + d]
  <2>1. CASE Entregar(p) /\ Ir(p, "enviado") /\ UNCHANGED <<perdidas, fallos>>
    <3>1. perdidas' = [perdidas EXCEPT ![b] = @ + 0]
      BY <2>1 DEF TypeOK
    <3>2. enviados' = [enviados EXCEPT ![b] = @ + 1] /\ Ir(p, "enviado")
      BY <1>2, <2>1 DEF Entregar
    <3>. WITNESS "enviado" \in {"enviado", "rechazado"}, 1 \in 0..1, 0 \in 0..1
    <3>. QED  BY <3>1, <3>2
  <2>2. CASE Ir(p, "rechazado") /\ UNCHANGED <<enviados, perdidas, fallos>>
    <3>1. enviados' = [enviados EXCEPT ![b] = @ + 0] /\ perdidas' = [perdidas EXCEPT ![b] = @ + 0]
      BY <2>2 DEF TypeOK
    <3>. WITNESS "rechazado" \in {"enviado", "rechazado"}, 0 \in 0..1, 0 \in 0..1
    <3>. QED  BY <2>2, <3>1
  <2>3. CASE Entregar(p) /\ Perder(p) /\ Ir(p, "rechazado") /\ Fallo
    BY <1>2, <2>3 DEF Entregar, Perder
  <2>. QED  BY <2>1, <2>2, <2>3 DEF Enviar
<1>4. s \in Pasos
  BY DEF Pasos
<1>5. /\ paso'[p] = s
      /\ N(Lists(a))' = N(Lists(a)) /\ N(Fresh)' = N(Fresh) /\ N(Retrying)' = N(Retrying)
      /\ N(Sends(a))' = N(Sends(a)) - In(p, Sends(a))
      /\ N(Returns(a))' = N(Returns(a)) + In(p, Returns(a)') - In(p, Returns(a))
      /\ Listed(a)' <=> Listed(a)
  BY <1>1, <1>3, <1>4, HandFrame
<1>6. /\ p \in Sends(a) <=> b = a
      /\ p \notin Returns(a)
      /\ p \in Returns(a)' <=> s = "rechazado" /\ b = a
  BY <1>1, <1>2, <1>5 DEF Sends, Returns
<1>7. Failed(a)' = Failed(a)
  BY <1>1 DEF Failed
<1>8. /\ N(Returns(a)) \in Nat /\ N(Retrying) \in Nat
      /\ Failed(a) \in BOOLEAN /\ Listed(a) \in BOOLEAN /\ Listed(a)' \in BOOLEAN
  BY CuentaTypes, CuentaTypesNext
<1>9. Retries(a)' <= Retries(a) + In(p, Returns(a)')
  <2>1. N(Returns(a))' = N(Returns(a)) + In(p, Returns(a)')
    BY <1>5, <1>6, <1>8 DEF In
  <2>2. ByRetries(N(Returns(a)) + In(p, Returns(a)'), Failed(a), Listed(a), N(Retrying))
          <= ByRetries(N(Returns(a)), Failed(a), Listed(a), N(Retrying)) + In(p, Returns(a)')
    <3>1. CASE In(p, Returns(a)') = 1
      BY <1>8, <3>1, ByRetriesFacts
    <3>2. CASE In(p, Returns(a)') = 0
      <4>1. N(Returns(a)) + 0 = N(Returns(a)) /\ Retries(a) \in Nat
        BY <1>8, CuentaTypes
      <4>2. ByRetries(N(Returns(a)) + 0, Failed(a), Listed(a), N(Retrying)) = Retries(a)
        BY <4>1 DEF Retries
      <4>. QED  BY <3>2, <4>1, <4>2 DEF Retries
    <3>. QED  BY <3>1, <3>2 DEF In
  <2>3. ByRetries(N(Returns(a))', Failed(a), Listed(a)', N(Retrying))
          = ByRetries(N(Returns(a))', Failed(a), Listed(a), N(Retrying))
    BY <1>5, <1>8
  <2>. QED  BY <1>5, <1>7, <2>1, <2>2, <2>3 DEF Retries
<1>10. /\ enviados'[a] = enviados[a] + (IF b = a THEN e ELSE 0)
       /\ perdidas'[a] = perdidas[a] + (IF b = a THEN d ELSE 0)
  BY <1>3 DEF TypeOK
<1>11. Others(a)' = Others(a) + (IF b = a THEN e - 1 ELSE 0)
  BY <1>1, <1>5, <1>6, <1>10, CuentaTypes DEF Others, In
<1>. DEFINE k == IF b = a THEN d ELSE 0
<1>12. Others(a)' + Retries(a)' <= Others(a) + Retries(a) + k
  BY <1>3, <1>6, <1>9, <1>11, CuentaTypes, CuentaTypesNext DEF In
<1>13. perdidas'[a] + traslapes' + reediciones' = perdidas[a] + traslapes + reediciones + k
  BY <1>1, <1>10, CuentaTypes
<1>14. k \in Nat
  OBVIOUS
<1>. HIDE DEF k
<1>. QED  BY <1>12, <1>13, <1>14, Balance

\* A note: SENT ends the FAILED state; a lost note is a cause; FAILED was to be
\* given back.
LEMMA NoteAccount ==
  ASSUME IInv, IInv', Accounted, NEW p \in Bucles, Anotar(p)
  PROVE  Accounted'
<1>. SUFFICES ASSUME NEW a \in Correos
              PROVE  (Cuenta(a) <= 1 + perdidas[a] + traslapes + reediciones)'
  BY DEF Accounted
<1>. USE DEF IInv
<1>1. /\ UNCHANGED <<bucle, enviados, traslapes, reediciones, metas, lista, actual>>
      /\ Unclaimed' = Unclaimed /\ paso[p] \in {"enviado", "rechazado"}
  BY DEF Anotar, campana, edits, bucle, Unclaimed
<1>2. PICK r \in Destino : r = actual[p]
  BY <1>1, ActualType
<1>3. r.correo \in Correos /\ {"sent", "failed"} \subseteq Envios
  BY DEF Destino, Envios
<1>4. /\ \A b \in Correos : dest'[b] = Nada <=> dest[b] = Nada
      /\ \A b \in Correos : dest'[b] # Nada => dest'[b].gen = dest[b].gen
      /\ \A b \in Correos : b # r.correo => dest'[b] = dest[b]
  <2>1. CASE \E st \in {"sent", "failed"} : dest' = Anotada(r, st)
    BY <1>3, <2>1, AnotadaRows
  <2>2. CASE dest' = dest
    BY <2>2
  <2>. QED  BY <1>2, <2>1, <2>2 DEF Anotar, Rechazo
<1>5. PICK s \in {"siguiente", "rechazado"} : Ir(p, s)
  BY DEF Anotar
<1>6. /\ paso'[p] = s
      /\ N(Lists(a))' = N(Lists(a)) /\ N(Fresh)' = N(Fresh) /\ N(Retrying)' = N(Retrying)
      /\ N(Sends(a))' = N(Sends(a)) - In(p, Sends(a))
      /\ N(Returns(a))' = N(Returns(a)) + In(p, Returns(a)') - In(p, Returns(a))
      /\ In(p, Returns(a)) <= N(Returns(a))
      /\ Listed(a)' <=> Listed(a)
  BY <1>1, <1>4, <1>5, HandFrame DEF Pasos
<1>7. /\ p \notin Sends(a)
      /\ p \in Returns(a) <=> paso[p] = "rechazado" /\ r.correo = a
      /\ p \in Returns(a)' <=> s = "rechazado" /\ r.correo = a
  BY <1>1, <1>2, <1>6 DEF Sends, Returns
<1>8. /\ N(Returns(a)) \in Nat /\ N(Retrying) \in Nat /\ N(Returns(a))' \in Nat
      /\ Failed(a) \in BOOLEAN /\ Failed(a)' \in BOOLEAN
      /\ Listed(a) \in BOOLEAN /\ Listed(a)' \in BOOLEAN
  BY CuentaTypes, CuentaTypesNext
<1>9. Others(a)' = Others(a)
  BY <1>1, <1>6, <1>7, CuentaTypes DEF Others, In
<1>10. Retries(a)' = ByRetries(N(Returns(a))', Failed(a)', Listed(a), N(Retrying))
  BY <1>6, <1>8 DEF Retries
<1>11. CASE r.correo # a
  <2>1. Failed(a)' = Failed(a) /\ N(Returns(a))' = N(Returns(a))
    BY <1>4, <1>6, <1>7, <1>8, <1>11 DEF Failed, In
  <2>2. Retries(a)' = Retries(a)
    BY <1>10, <2>1 DEF Retries
  <2>3. perdidas'[a] = perdidas[a]
    BY <1>2, <1>11 DEF Anotar, Perder, TypeOK
  <2>4. Others(a)' + Retries(a)' <= Others(a) + Retries(a) + 0
    BY <1>9, <2>2, CuentaTypes
  <2>5. perdidas'[a] + traslapes' + reediciones' = perdidas[a] + traslapes + reediciones + 0
    BY <1>1, <2>3, CuentaTypes
  <2>. QED  BY <2>4, <2>5, Balance
<1>12. CASE r.correo = a /\ paso[p] = "enviado" /\ s = "siguiente"
  <2>1. dest' = Anotada(r, "sent") /\ perdidas' = perdidas
    BY <1>2, <1>5, <1>6, <1>12 DEF Anotar, Ir, TypeOK
  <2>2. dest'[a] = dest[a] \/ (dest'[a] # Nada /\ dest'[a].st = "sent")
    BY <1>3, <2>1, AnotadaRows
  <2>3. Failed(a)' = FALSE \/ Failed(a)' = Failed(a)
    BY <2>2 DEF Failed
  <2>4. N(Returns(a))' = N(Returns(a))
    BY <1>6, <1>7, <1>8, <1>12 DEF In
  <2>5. Retries(a)' <= Retries(a)
    <3>1. ByRetries(N(Returns(a)), FALSE, Listed(a), N(Retrying)) <= Retries(a)
      BY <1>8, ByRetriesFacts DEF Retries
    <3>2. CASE Failed(a)' = FALSE
      BY <1>10, <2>4, <3>1, <3>2
    <3>3. CASE Failed(a)' = Failed(a)
      <4>1. Retries(a)' = Retries(a)
        BY <1>10, <2>4, <3>3 DEF Retries
      <4>. QED  BY <4>1, CuentaTypes
    <3>. QED  BY <2>3, <3>2, <3>3
  <2>6. Others(a)' + Retries(a)' <= Others(a) + Retries(a) + 0
    BY <1>9, <2>5, CuentaTypes, CuentaTypesNext
  <2>7. perdidas'[a] + traslapes' + reediciones' = perdidas[a] + traslapes + reediciones + 0
    BY <1>1, <2>1, CuentaTypes
  <2>. QED  BY <2>6, <2>7, Balance
<1>13. CASE r.correo = a /\ paso[p] = "enviado" /\ s = "rechazado"
  <2>1. dest' = dest /\ perdidas'[a] = perdidas[a] + 1
    BY <1>2, <1>5, <1>6, <1>13 DEF Anotar, Ir, TypeOK, Perder
  <2>2. Failed(a)' = Failed(a)
    BY <2>1 DEF Failed
  <2>3. N(Returns(a))' = N(Returns(a)) + 1
    BY <1>6, <1>7, <1>8, <1>13 DEF In
  <2>4. ByRetries(N(Returns(a)) + 1, Failed(a), Listed(a), N(Retrying)) <= Retries(a) + 1
    BY <1>8, ByRetriesFacts DEF Retries
  <2>5. Others(a)' + Retries(a)' <= Others(a) + Retries(a) + 1
    BY <1>9, <1>10, <2>2, <2>3, <2>4, CuentaTypes, CuentaTypesNext
  <2>6. perdidas'[a] + traslapes' + reediciones' = perdidas[a] + traslapes + reediciones + 1
    BY <1>1, <2>1, CuentaTypes
  <2>. QED  BY <2>5, <2>6, Balance
<1>14. CASE r.correo = a /\ paso[p] = "rechazado"
  <2>1. s = "siguiente" /\ perdidas' = perdidas
    BY <1>5, <1>6, <1>14 DEF Anotar, Ir, TypeOK
  <2>2. N(Returns(a)) > 0 /\ N(Returns(a))' = N(Returns(a)) - 1
    BY <1>6, <1>7, <1>8, <1>14, <2>1 DEF In
  <2>3. ByRetries(N(Returns(a)) - 1, Failed(a)', Listed(a), N(Retrying)) <= Retries(a)
    BY <1>8, <2>2, ByRetriesDrops DEF Retries
  <2>4. Others(a)' + Retries(a)' <= Others(a) + Retries(a) + 0
    BY <1>9, <1>10, <2>2, <2>3, CuentaTypes, CuentaTypesNext
  <2>5. perdidas'[a] + traslapes' + reediciones' = perdidas[a] + traslapes + reediciones + 0
    BY <1>1, <2>1, CuentaTypes
  <2>. QED  BY <2>4, <2>5, Balance
<1>. QED  BY <1>1, <1>11, <1>12, <1>13, <1>14

-----------------------------------------------------------------------------
LEMMA AccountStep ==
  IInv /\ IInv' /\ Accounted /\ [Next]_vars => Accounted'
<1>. SUFFICES ASSUME IInv, IInv', Accounted, [Next]_vars PROVE Accounted'
  OBVIOUS
<1>1. CASE LlegaLaHora \/ LeerEdicion \/ AbandonarEdicion \/ Cancelar
           \/ \E p \in Peticiones : PedirEnvio(p) \/ PedirReintento(p) \/ PerderReclamo(p)
  BY <1>1, QuietAccount
<1>2. CASE \E st \in {"draft", "scheduled"} : EscribirEdicion(st)
  BY <1>2, EditAccount
<1>3. CASE (\E p \in Peticiones : ReclamarAhora(p) \/ ReclamarReintento(p))
           \/ ReclamarProgramada
  BY <1>3, ClaimAccount
<1>4. CASE \E p \in Bucles : Trabajar(p) \/ FallarConsulta(p) \/ Caer(p)
  BY <1>4, LeaveActions, ListAccount, MarkAccount, SendAccount, NoteAccount DEF Trabajar
<1>5. CASE UNCHANGED vars
  <2>. SUFFICES ASSUME NEW a \in Correos
                PROVE  (Cuenta(a) <= 1 + perdidas[a] + traslapes + reediciones)'
    BY DEF Accounted
  <2>. USE DEF vars, campana, bucle, historia, edits
  <2>1. /\ N(Lists(a))' = N(Lists(a)) /\ N(Sends(a))' = N(Sends(a))
        /\ N(Returns(a))' = N(Returns(a)) /\ N(Fresh)' = N(Fresh) /\ N(Retrying)' = N(Retrying)
        /\ Lists(a)' = Lists(a)
    BY <1>5, NoLoop DEF IInv
  <2>2. Failed(a)' = Failed(a) /\ Listed(a)' = Listed(a) /\ Unclaimed' = Unclaimed
    BY <1>5, <2>1 DEF Failed, Listed, Fila, Unclaimed
  <2>3. Cuenta(a)' = Cuenta(a)
    BY <1>5, <2>1, <2>2 DEF Cuenta
  <2>. QED  BY <1>5, <2>3 DEF Accounted
<1>. QED  BY <1>1, <1>2, <1>3, <1>4, <1>5 DEF Next

LEMMA AccountInitial == Init /\ IInv => Accounted
<1>. SUFFICES ASSUME Init, IInv, NEW a \in Correos
              PROVE  Cuenta(a) <= 1 + perdidas[a] + traslapes + reediciones
  BY DEF Accounted
<1>1. /\ Lists(a) = {} /\ Sends(a) = {} /\ Returns(a) = {} /\ Fresh = {} /\ Retrying = {}
      /\ enviados[a] = 0 /\ Failed(a) = FALSE
  BY DEF Init, NuevaFila, Lists, Sends, Returns, Fresh, Retrying, Working, Failed
<1>2. N({}) = 0
  BY FS_EmptySet DEF N
<1>3. Retries(a) = 0
  BY <1>1, <1>2, CuentaTypes, ByRetriesDrops DEF Retries, IInv
<1>4. Others(a) = Unclaimed
  BY <1>1, <1>2, CuentaTypes DEF Others, IInv
<1>. QED  BY <1>3, <1>4, CuentaTypes DEF IInv

\* Every mail to an address beyond the first has a cause: a delivery nobody
\* recorded, a retry claimed while a loop ran, an edit of a campaign at work.
THEOREM DuplicatesHaveCauseHolds == Spec => []DuplicatesHaveCause
<1>1. IInv /\ Accounted => DuplicatesHaveCause
  <2>. SUFFICES ASSUME IInv, Accounted, NEW a \in Correos
                PROVE  enviados[a] <= 1 + perdidas[a] + traslapes + reediciones
    BY DEF DuplicatesHaveCause
  <2>1. Cuenta(a) <= 1 + perdidas[a] + traslapes + reediciones
    BY DEF Accounted
  <2>2. enviados[a] <= Others(a)
    BY CuentaTypes DEF Others, IInv
  <2>. QED  BY <2>1, <2>2, CuentaTypes DEF IInv
<1>2. Spec => []Accounted
  BY AccountInitial, AccountStep, Initial, Invariance, PTL DEF Spec
<1>. QED  BY <1>1, <1>2, Invariance, PTL
=============================================================================
