--------------------------- MODULE EmailCampaign ---------------------------
(***************************************************************************)
(* One e-mail campaign and everybody who works on it: the requests that    *)
(* edit, send, retry or cancel it and the scheduler that sends it when its *)
(* time has come (services/emailCampaignService, emailCampaignScheduler).  *)
(*                                                                         *)
(* Every statement is a transaction of its own, but for the edit.  A       *)
(* campaign is claimed by an UPDATE on its status; whoever got it sends to *)
(* a list read once, and writes each outcome by the id of the row alone.   *)
(***************************************************************************)
EXTENDS Naturals, FiniteSets

CONSTANTS
  Correos,       \* addresses of the audience
  Peticiones,    \* web requests that may run at the same time
  Planificador,  \* the tick of the scheduler process
  MaxEnvios,     \* model bound: claims
  MaxEdiciones,  \* model bound: edits
  MaxFallos,     \* model bound: failed writes, lost answers and crashes
  Nada           \* no row

Bucles  == Peticiones \cup {Planificador}
Estados == {"draft", "scheduled", "processing", "sent", "partial_failure", "failed", "cancelled"}
Envios  == {"pending", "sending", "sent", "failed"}
Filas   == [gen : Nat, st : Envios]

ASSUME CampaignAssumption ==
  /\ IsFiniteSet(Peticiones) /\ Planificador \notin Peticiones
  /\ MaxEnvios \in Nat /\ MaxEdiciones \in Nat /\ MaxFallos \in Nat
  /\ Nada \notin Filas /\ Nada \notin [correo : Correos, gen : Nat]

VARIABLES
  estado,      \* email_campaigns.status
  iniciada,    \* started_at is set
  vencida,     \* scheduled_for is in the past
  dest,        \* per address, its row of email_campaign_recipients; gen is its id
  edicion,     \* the edit: no, or what status it read
  paso,        \* per loop, where its request is
  metas,       \* per loop, the recipient states it is to send to
  lista,       \* per loop, the rows it still has to work
  actual,      \* per loop, the row it is working
  resumen,     \* per loop, the final status it computed
  enviados,    \* history: mails delivered to an address
  perdidas,    \* history: deliveries nobody recorded
  traslapes,   \* history: retries that were claimed with a loop still running
  ediciones,   \* history: edits, and those of a campaign that had started
  reediciones,
  cancelada,   \* history: a cancellation was confirmed
  revivida,    \* history: an edit was written over a cancelled campaign
  reclamos, fallos, caidas

campana  == <<estado, iniciada, vencida>>
bucle    == <<metas, lista, actual, resumen>>
historia == <<enviados, perdidas, traslapes>>
edits    == <<edicion, ediciones, reediciones, revivida>>
vars     == <<campana, dest, paso, bucle, historia, edits, cancelada, reclamos, fallos, caidas>>

-----------------------------------------------------------------------------
ConFila  == {a \in Correos : dest[a] # Nada}
EnEstado(S) == {a \in ConFila : dest[a].st \in S}
Activos  == {p \in Bucles : paso[p] \notin {"libre", "pedido", "reintento"}}

NuevaFila(S, g) == [a \in Correos |-> IF a \in S THEN [gen |-> g, st |-> "pending"] ELSE Nada]

\* createCampaign: only a draft may have nobody to send to.
Init ==
  /\ estado \in {"draft", "scheduled"}
  /\ \E S \in SUBSET Correos :
       /\ estado = "scheduled" => S # {}
       /\ dest = NuevaFila(S, 0)
  /\ iniciada = FALSE /\ vencida = FALSE
  /\ edicion = FALSE
  /\ paso = [p \in Bucles |-> "libre"]
  /\ metas = [p \in Bucles |-> {}]
  /\ lista = [p \in Bucles |-> {}]
  /\ actual = [p \in Bucles |-> Nada]
  /\ resumen = [p \in Bucles |-> "failed"]
  /\ enviados = [a \in Correos |-> 0]
  /\ perdidas = [a \in Correos |-> 0]
  /\ traslapes = 0 /\ ediciones = 0 /\ reediciones = 0
  /\ cancelada = FALSE /\ revivida = FALSE
  /\ reclamos = 0 /\ fallos = 0 /\ caidas = 0

Fallo == fallos < MaxFallos /\ fallos' = fallos + 1
Ir(p, s) == paso' = [paso EXCEPT ![p] = s]

-----------------------------------------------------------------------------
\* scheduled_for passes.
LlegaLaHora ==
  /\ estado = "scheduled" /\ ~ vencida
  /\ vencida' = TRUE
  /\ UNCHANGED <<estado, iniciada, dest, paso, bucle, historia, edits, cancelada, reclamos,
                 fallos, caidas>>

\* updateCampaign reads without a lock ...
Editable == estado \in {"draft", "scheduled"} /\ ~ iniciada

LeerEdicion ==
  /\ ~ edicion /\ ediciones < MaxEdiciones
  /\ Editable
  /\ edicion' = TRUE
  /\ UNCHANGED <<campana, dest, paso, bucle, historia, ediciones, reediciones, revivida,
                 cancelada, reclamos, fallos, caidas>>

\* ... and writes by id; new recipients, if any, replace the rows.  A scheduled
\* campaign needs somebody to send to and a time in the future.
EscribirEdicion(st) ==
  /\ edicion
  /\ ediciones' = ediciones + 1
  /\ \/ UNCHANGED dest
     \/ \E S \in SUBSET Correos : dest' = NuevaFila(S, ediciones')
  /\ st = "scheduled" => \E a \in Correos : dest'[a] # Nada
  /\ edicion' = FALSE
  /\ estado' = st /\ vencida' = FALSE
  /\ reediciones' = IF iniciada THEN reediciones + 1 ELSE reediciones
  /\ revivida' = (revivida \/ estado = "cancelled")
  /\ UNCHANGED <<iniciada, paso, bucle, historia, cancelada, reclamos, fallos, caidas>>

AbandonarEdicion ==
  /\ edicion /\ Fallo
  /\ edicion' = FALSE
  /\ UNCHANGED <<campana, dest, paso, bucle, historia, ediciones, reediciones, revivida,
                 cancelada, reclamos, caidas>>

\* cancelScheduledCampaign, one conditional UPDATE.
Cancelar ==
  /\ estado = "scheduled" /\ ~ iniciada
  /\ estado' = "cancelled" /\ cancelada' = TRUE
  /\ UNCHANGED <<iniciada, vencida, dest, paso, bucle, historia, edits, reclamos, fallos, caidas>>

-----------------------------------------------------------------------------
\* sendCampaignNow and retryFailedRecipients check what they read ...
PedirEnvio(p) ==
  /\ paso[p] = "libre"
  /\ Editable
  /\ estado = "scheduled" => ConFila # {}
  /\ Ir(p, "pedido")
  /\ UNCHANGED <<campana, dest, bucle, historia, edits, cancelada, reclamos, fallos, caidas>>

PedirReintento(p) ==
  /\ paso[p] = "libre"
  /\ estado # "processing" /\ EnEstado({"failed"}) # {}
  /\ Ir(p, "reintento")
  /\ UNCHANGED <<campana, dest, bucle, historia, edits, cancelada, reclamos, fallos, caidas>>

\* ... and then claim the campaign under a condition of their own.
CarelessReclamable == estado # "processing"   \* a mutant: any state but one

ReclamableAhora      == estado \in {"draft", "scheduled"}
ReclamableProgramada == estado = "scheduled" /\ vencida
ReclamableReintento  == estado # "cancelled" /\ EnEstado({"failed"}) # {}

Tomar(p, quienes) ==
  /\ reclamos < MaxEnvios /\ reclamos' = reclamos + 1
  /\ estado' = "processing" /\ iniciada' = TRUE
  /\ metas' = [metas EXCEPT ![p] = quienes]
  /\ Ir(p, "abrir")
  /\ UNCHANGED <<dest, lista, actual, resumen, enviados, perdidas, edits, cancelada,
                 fallos, caidas>>

ReclamarAhora(p) ==
  /\ paso[p] = "pedido"
  /\ ReclamableAhora
  /\ Tomar(p, {"pending", "sending"})
  /\ vencida' = FALSE
  /\ UNCHANGED traslapes

ReclamarReintento(p) ==
  /\ paso[p] = "reintento"
  /\ ReclamableReintento
  /\ Tomar(p, {"failed"})
  /\ traslapes' = IF Activos # {} THEN traslapes + 1 ELSE traslapes
  /\ UNCHANGED vencida

\* claimScheduledCampaign; the tick does not run twice at a time.
ReclamarProgramada ==
  /\ paso[Planificador] = "libre"
  /\ ReclamableProgramada
  /\ Tomar(Planificador, {"pending", "sending"})
  /\ UNCHANGED <<vencida, traslapes>>

\* The UPDATE of the claim found nothing: 409.
PerderReclamo(p) ==
  /\ \/ paso[p] = "pedido" /\ ~ ReclamableAhora
     \/ paso[p] = "reintento" /\ ~ ReclamableReintento
  /\ Ir(p, "libre")
  /\ UNCHANGED <<campana, dest, bucle, historia, edits, cancelada, reclamos, fallos, caidas>>
-----------------------------------------------------------------------------
\* processCampaignById.  What fails outside the sending of one mail ends the
\* loop and closes the campaign as failed.
SilentAlFallar(p) == Ir(p, "libre")      \* a mutant: nobody closes the campaign
AlFallar(p) == Ir(p, "fracaso")

Abrir(p) ==
  /\ paso[p] = "abrir"
  /\ IF estado = "processing" THEN Ir(p, "listar") ELSE AlFallar(p)
  /\ UNCHANGED <<campana, dest, bucle, historia, edits, cancelada, reclamos, fallos, caidas>>

EveryRow(p)      == ConFila                 \* a mutant: no filter on send_status
Destinatarios(p) == EnEstado(metas[p])

Fila(a) == [correo |-> a, gen |-> dest[a].gen]

Listar(p) ==
  /\ paso[p] = "listar"
  /\ lista' = [lista EXCEPT ![p] = {Fila(a) : a \in Destinatarios(p)}]
  /\ Ir(p, "siguiente")
  /\ UNCHANGED <<campana, dest, metas, actual, resumen, historia, edits, cancelada, reclamos,
                 fallos, caidas>>

\* UPDATE ... WHERE id_campaign_recipient = id: nothing, if an edit replaced it.
Anotada(r, st) ==
  IF dest[r.correo] # Nada /\ dest[r.correo].gen = r.gen
  THEN [dest EXCEPT ![r.correo].st = st] ELSE dest

\* The order of the list says nothing about the outcome: any row may be next.
Marcar(p) ==
  /\ paso[p] = "siguiente"
  /\ \E r \in lista[p] :
       /\ dest' = Anotada(r, "sending")
       /\ actual' = [actual EXCEPT ![p] = r]
       /\ lista' = [lista EXCEPT ![p] = @ \ {r}]
  /\ Ir(p, "enviar")
  /\ UNCHANGED <<campana, metas, resumen, historia, edits, cancelada, reclamos, fallos, caidas>>

Entregar(p) == enviados' = [enviados EXCEPT ![actual[p].correo] = @ + 1]
Perder(p)   == perdidas' = [perdidas EXCEPT ![actual[p].correo] = @ + 1]

\* The mail is taken, refused, or taken without an answer.
Enviar(p) ==
  /\ paso[p] = "enviar"
  /\ \/ Entregar(p) /\ Ir(p, "enviado") /\ UNCHANGED <<perdidas, fallos>>
     \/ Ir(p, "rechazado") /\ UNCHANGED <<enviados, perdidas, fallos>>
     \/ Entregar(p) /\ Perder(p) /\ Ir(p, "rechazado") /\ Fallo
  /\ UNCHANGED <<campana, dest, bucle, traslapes, edits, cancelada, reclamos, caidas>>

EagerRechazo    == "sent"       \* a mutant: a refusal is noted as a success
MisspeltRechazo == "rejected"   \* a mutant: a state the table does not know
Rechazo         == "failed"

\* The note of the outcome; if that of a success fails, the row gets FAILED.
Anotar(p) ==
  /\ \/ /\ paso[p] = "enviado" /\ dest' = Anotada(actual[p], "sent")
        /\ Ir(p, "siguiente") /\ UNCHANGED <<perdidas, fallos>>
     \/ /\ paso[p] = "enviado" /\ Fallo /\ Perder(p)
        /\ Ir(p, "rechazado") /\ UNCHANGED dest
     \/ /\ paso[p] = "rechazado" /\ dest' = Anotada(actual[p], Rechazo)
        /\ Ir(p, "siguiente") /\ UNCHANGED <<perdidas, fallos>>
  /\ UNCHANGED <<campana, bucle, enviados, traslapes, edits, cancelada, reclamos, caidas>>

\* resolveFinalStatus of what the rows say now.
Final ==
  IF ConFila = {} THEN "failed"
  ELSE IF EnEstado({"sent"}) = ConFila THEN "sent"
  ELSE IF EnEstado({"sent"}) # {} THEN "partial_failure"
  ELSE IF EnEstado({"failed"}) # {} THEN "failed"
  ELSE "partial_failure"

\* refreshCounters: one statement reads, another writes.
Contar(p) ==
  /\ paso[p] = "siguiente" /\ lista[p] = {}
  /\ resumen' = [resumen EXCEPT ![p] = Final]
  /\ Ir(p, "cerrar")
  /\ UNCHANGED <<campana, dest, metas, lista, actual, historia, edits, cancelada, reclamos,
                 fallos, caidas>>

Terminar(p) ==
  /\ Ir(p, "libre")
  /\ metas' = [metas EXCEPT ![p] = {}]
  /\ lista' = [lista EXCEPT ![p] = {}]
  /\ actual' = [actual EXCEPT ![p] = Nada]
  /\ resumen' = [resumen EXCEPT ![p] = "failed"]

Cerrar(p) ==
  /\ \/ paso[p] = "cerrar" /\ estado' = resumen[p]
     \/ paso[p] = "fracaso" /\ estado' = "failed"      \* markFailed
  /\ Terminar(p)
  /\ UNCHANGED <<iniciada, vencida, dest, historia, edits, cancelada, reclamos, fallos, caidas>>

\* A statement of the loop fails.
FallarConsulta(p) ==
  /\ paso[p] \in {"abrir", "listar", "siguiente", "rechazado", "cerrar"} /\ Fallo
  /\ AlFallar(p)
  /\ UNCHANGED <<campana, dest, bucle, historia, edits, cancelada, reclamos, caidas>>

\* The process stops, or markFailed fails as well: nobody closes the campaign.
Caer(p) ==
  /\ p \in Activos /\ Fallo
  /\ Terminar(p)
  /\ caidas' = caidas + 1
  /\ UNCHANGED <<campana, dest, historia, edits, cancelada, reclamos>>

-----------------------------------------------------------------------------
Trabajar(p) ==
  \/ Abrir(p) \/ Listar(p) \/ Marcar(p) \/ Enviar(p) \/ Anotar(p) \/ Contar(p) \/ Cerrar(p)

Next ==
  \/ LlegaLaHora
  \/ LeerEdicion \/ AbandonarEdicion \/ \E st \in {"draft", "scheduled"} : EscribirEdicion(st)
  \/ Cancelar
  \/ \E p \in Peticiones : \/ PedirEnvio(p) \/ PedirReintento(p)
                           \/ ReclamarAhora(p) \/ ReclamarReintento(p) \/ PerderReclamo(p)
  \/ ReclamarProgramada
  \/ \E p \in Bucles : Trabajar(p) \/ FallarConsulta(p) \/ Caer(p)

Spec == Init /\ [][Next]_vars

\* Every statement of a loop returns: sends and queries have timeouts.
FairSpec == Spec /\ \A p \in Bucles : WF_vars(Trabajar(p))
-----------------------------------------------------------------------------
Pasos == {"libre", "pedido", "reintento", "abrir", "listar", "siguiente", "enviar", "enviado",
          "rechazado", "cerrar", "fracaso"}

\* Type invariant.
TypeOK ==
  /\ estado \in Estados /\ iniciada \in BOOLEAN /\ vencida \in BOOLEAN
  /\ dest \in [Correos -> Filas \cup {Nada}]
  /\ edicion \in BOOLEAN /\ ediciones \in Nat /\ reediciones \in 0..ediciones
  /\ paso \in [Bucles -> Pasos]
  /\ metas \in [Bucles -> SUBSET Envios]
  /\ lista \in [Bucles -> SUBSET [correo : Correos, gen : Nat]]
  /\ actual \in [Bucles -> [correo : Correos, gen : Nat] \cup {Nada}]
  /\ resumen \in [Bucles -> Estados]
  /\ enviados \in [Correos -> Nat] /\ perdidas \in [Correos -> Nat]
  /\ traslapes \in Nat /\ cancelada \in BOOLEAN /\ revivida \in BOOLEAN
  /\ reclamos \in Nat /\ fallos \in Nat /\ caidas \in Nat
  /\ \A p \in Bucles : paso[p] \in {"enviar", "enviado", "rechazado"} => actual[p] # Nada
  /\ estado = "processing" => iniciada

\* Nobody gets a mail twice without a cause that can be named: a delivery that
\* was never recorded, a retry claimed over a running one, or an edit written
\* over a campaign that had started.
DuplicatesHaveCause ==
  \A a \in Correos : enviados[a] <= 1 + perdidas[a] + traslapes + reediciones

\* A campaign that says sent has reached everybody on its list, whatever loops
\* met in it, unless an edit changed the list under way.
SentReachedAll ==
  estado = "sent" /\ reediciones = 0 => \A a \in ConFila : enviados[a] > 0

\* A cancellation that was confirmed holds: no mail ever leaves, unless an edit
\* that had read the campaign before writes its old status over it.
CancelHolds ==
  cancelada /\ ~ revivida =>
    /\ estado = "cancelled"
    /\ \A a \in Correos : enviados[a] = 0

\* A campaign does not stay in processing, unless its process died.
Closes == estado = "processing" ~> estado # "processing" \/ caidas > 0
=============================================================================
