------------------------------ MODULE Loyalty ------------------------------
(***************************************************************************)
(* The loyalty account of one customer: the points his invoices earn, and  *)
(* what redemptions and reversals take back (modules/fidelizacion,         *)
(* services/fidelizacionService, ventasReversionFidelizacionService).      *)
(*                                                                         *)
(* The transaction that charges an invoice reserves its accumulation (a    *)
(* PENDING row with the eligibility of that moment); afterwards the web    *)
(* process queues the accumulation in memory.  A scheduler process sweeps  *)
(* the invoices that were left behind through a queue of its own, with a   *)
(* cursor that also lives in memory.  Both work an invoice in one          *)
(* transaction under its advisory lock.                                    *)
(***************************************************************************)
EXTENDS Naturals, Sequences, FiniteSets

CONSTANTS
  NumFacturas,  \* invoices have the ids 1..NumFacturas
  PedidoDe,     \* the order of an invoice; divisions of one account share it
  Puntos,       \* what an invoice earns; 0 if no rule applies or it rounds to 0
  ConContacto,  \* invoices of public-menu orders, with name and phone on record
  Veneno,       \* invoices whose accumulation always fails
  Corregibles,  \* invoices that may be corrected, once, after their charge
  Webs,         \* web processes
  Reconciliador,\* the scheduler process
  Limite,       \* FIDELIZACION_RECONCILE_BATCH_LIMIT
  MaxCola,      \* FIDELIZACION_QUEUE_MAX_SIZE
  Unidades,     \* quantity an invoice sells
  MaxFallos,    \* model bound: errors, failed writes and crashes
  Nada          \* no row

Facturas == 1..NumFacturas
Pedidos  == {PedidoDe[f] : f \in Facturas}
Procesos == Webs \cup {Reconciliador}

ASSUME LoyaltyAssumption ==
  /\ NumFacturas \in Nat
  /\ Puntos \in [Facturas -> Nat]
  /\ ConContacto \subseteq Facturas /\ Veneno \subseteq Facturas
  /\ Reconciliador \notin Webs
  /\ Limite \in Nat \ {0} /\ MaxCola \in Nat \ {0} /\ Unidades \in Nat \ {0}
  /\ MaxFallos \in Nat /\ Corregibles \subseteq Facturas

Snaps         == {"sin", "completo", "incompleto"}  \* perfil_completo_snapshot
Reintentables == {"PENDING", "RETRYABLE_ERROR"}
Terminales    == {"PROCESSED", "SKIPPED_TERMINAL"}

\* Customer, branch, order and date of an invoice: those of its charge, others
\* that contradict them, or no customer any more.
Contextos     == {"igual", "otro", "vacio"}
Fila          == [st : Reintentables \cup Terminales, snap : Snaps, ctx : Contextos]

ASSUME NadaIsNoRow == Nada \notin Fila

VARIABLES
  cobrada,   \* per invoice, charged (facturas_cobros)
  reciente,  \* paid orders still within the grace period of the reconciliation,
             \* the oldest first
  devuelto,  \* per invoice, the quantity its reversals returned
  perfil,    \* the customer's master profile is complete
  contexto,  \* per invoice, what its rows say of customer, branch, order and date
  fila,      \* per invoice, its row of fidelizacion_acumulacion_facturas_estado
  acum,      \* per invoice, its ACUMULACION movements
  reverso,   \* per invoice, the points its REVERSO movements took
  saldo,     \* puntos_disponibles
  deuda,     \* puntos_pendientes of all fidelizacion_ajustes_pendientes
  cola,      \* per process, its queue; the head is the job being worked
  etapa,     \* per process, where the transaction of that job is
  dictamen,  \* per process, what it decided, and the snapshot it decided with
  fase, lote, fallidas, cursor,  \* the scheduler's tick: batch, failures, cursor
  fallos,
  apto,      \* history: the eligibility of an invoice when it was charged
  reservada  \* history: its accumulation was reserved

caja    == <<cobrada, reciente, devuelto, perfil, contexto>>
cuenta  == <<fila, acum, reverso, saldo, deuda>>
memoria == <<cola, etapa, dictamen>>
tick    == <<fase, lote, fallidas, cursor>>
vars    == <<caja, cuenta, memoria, tick, fallos, apto, reservada>>

-----------------------------------------------------------------------------
SinDictamen == [que |-> "nada", snap |-> "sin", ctx |-> "igual"]

Init ==
  /\ cobrada = [f \in Facturas |-> FALSE]
  /\ reciente = <<>>
  /\ devuelto = [f \in Facturas |-> 0]
  /\ perfil \in BOOLEAN
  /\ contexto = [f \in Facturas |-> "igual"]
  /\ fila = [f \in Facturas |-> Nada]
  /\ acum = [f \in Facturas |-> 0]
  /\ reverso = [f \in Facturas |-> 0]
  /\ saldo = 0
  /\ deuda = 0
  /\ cola = [p \in Procesos |-> <<>>]
  /\ etapa = [p \in Procesos |-> "inicio"]
  /\ dictamen = [p \in Procesos |-> SinDictamen]
  /\ fase = "quieta" /\ lote = {} /\ fallidas = {} /\ cursor = 0
  /\ fallos = 0
  /\ apto = [f \in Facturas |-> FALSE]
  /\ reservada = [f \in Facturas |-> FALSE]

Fallo == fallos < MaxFallos /\ fallos' = fallos + 1

Terminal(f)    == fila[f] # Nada /\ fila[f].st \in Terminales
ConSnapshot(f) == fila[f] # Nada /\ fila[f].snap # "sin"

Menor(a, b) == IF a < b THEN a ELSE b

\* isFacturaFullyPaid: an account that was divided is paid with its last part.
Pagada(f) == \A g \in Facturas : PedidoDe[g] = PedidoDe[f] => cobrada[g]

\* buildAccumulationSnapshot: the contact of the order, else the profile of now;
\* neither is anything without a customer.
Elegibilidad(f) ==
  IF contexto[f] # "vacio" /\ (f \in ConContacto \/ perfil) THEN "completo" ELSE "incompleto"

\* upsertAccumulationState: terminal rows and snapshots once set never change.
Upsert(f, st, snap, ctx) ==
  [fila EXCEPT ![f] =
     IF Terminal(f) THEN fila[f]
     ELSE IF ConSnapshot(f) THEN [fila[f] EXCEPT !.st = st]
     ELSE [st |-> st, snap |-> snap, ctx |-> ctx]]

-----------------------------------------------------------------------------
\* The queue of a process: the head has been shifted and is being worked.
Elementos(q) == {q[i] : i \in 1..Len(q)}
Llena(q)     == Len(q) > MaxCola

Encolada(q, f) == IF f \in Elementos(q) \/ Llena(q) THEN q ELSE Append(q, f)

\* The transaction that charges f: with the last part of its order it reserves
\* (in a savepoint that may fail) and, once it has answered, notifies; the
\* process may stop in between.  Ids are given in the order of the charges.
Cobrar(w, f) ==
  /\ \A g \in Facturas : cobrada[g] <=> g < f
  /\ cobrada' = [cobrada EXCEPT ![f] = TRUE]
  /\ reciente' = IF Pagada(f)' THEN Append(reciente, PedidoDe[f]) ELSE reciente
  /\ apto' = [apto EXCEPT ![f] = Elegibilidad(f) = "completo"]
  /\ IF Pagada(f)'
     THEN \/ /\ fila' = Upsert(f, "PENDING", Elegibilidad(f), contexto[f])
             /\ reservada' = [reservada EXCEPT ![f] = TRUE]
             /\ cola' = [cola EXCEPT ![w] = Encolada(@, f)]
             /\ UNCHANGED fallos
          \/ /\ Fallo
             /\ cola' = [cola EXCEPT ![w] = Encolada(@, f)]
             /\ UNCHANGED <<fila, reservada>>
          \/ /\ Fallo
             /\ fila' = Upsert(f, "PENDING", Elegibilidad(f), contexto[f])
             /\ reservada' = [reservada EXCEPT ![f] = TRUE]
             /\ UNCHANGED cola
     ELSE UNCHANGED <<fila, reservada, cola, fallos>>
  /\ UNCHANGED <<devuelto, perfil, contexto, acum, reverso, saldo, deuda,
                 etapa, dictamen, tick>>

\* The profile is edited, e.g. the customer hands in his phone number.
EditarPerfil ==
  /\ perfil' = ~ perfil
  /\ UNCHANGED <<cobrada, reciente, devuelto, contexto, cuenta, memoria, tick,
                 fallos, apto, reservada>>

\* A charged invoice or its order is corrected: now it has another branch, order
\* or date (or, once a snapshot holds the first one, customer), or no customer.
\* Nobody reads the context of an invoice whose row is terminal.
Corregir(f, c) ==
  /\ f \in Corregibles /\ cobrada[f] /\ contexto[f] = "igual" /\ ~ Terminal(f)
  /\ contexto' = [contexto EXCEPT ![f] = c]
  /\ UNCHANGED <<cobrada, reciente, devuelto, perfil, cuenta, memoria, tick,
                 fallos, apto, reservada>>

\* FIDELIZACION_RECONCILE_GRACE_MS have passed since the oldest payment.
PasaGracia ==
  /\ reciente # <<>>
  /\ reciente' = Tail(reciente)
  /\ UNCHANGED <<cobrada, devuelto, perfil, contexto, cuenta, memoria, tick,
                 fallos, apto, reservada>>

-----------------------------------------------------------------------------
\* accumulateInvoicePoints, one job at a time per process.
LocklessFree(p) == TRUE      \* a mutant: no advisory lock

\* lockFacturaForAccumulation: nobody else works the same invoice.
Free(p) == \A q \in Procesos \ {p} :
             etapa[q] = "decidido" => Head(cola[q]) # Head(cola[p])

\* The snapshot to decide with: that of the row; without one, the live path
\* takes the eligibility of now, the reconciliation only a contact on record.
CredulousSnapshot(p, f) ==   \* a mutant: the reconciliation trusts the profile of now
  IF ConSnapshot(f) THEN fila[f].snap ELSE Elegibilidad(f)

CurrentSnapshot(p, f) ==     \* a mutant: decides by the profile of now
  IF p = Reconciliador /\ fila[f] = Nada /\ f \notin ConContacto THEN "sin" ELSE Elegibilidad(f)

Snapshot(p, f) ==
  IF ConSnapshot(f) THEN fila[f].snap
  ELSE IF p # Reconciliador THEN Elegibilidad(f)
  ELSE IF f \in ConContacto /\ contexto[f] # "vacio" THEN "completo" ELSE "sin"

\* resolveEffectiveAccumulationContext: a recorded snapshot wins whole, fills
\* what the invoice no longer says, and may be contradicted by what it says now.
Contexto(f)   == IF ConSnapshot(f) THEN fila[f].ctx ELSE contexto[f]
Contradice(f) == Contexto(f) = "igual" /\ contexto[f] = "otro"

\* registerFacturaLoyaltyAccumulation: the customer, whether a movement exists,
\* the eligibility, and the rule of the day of the payment.
Registro(f, snap) ==
  IF Contexto(f) = "vacio" THEN "omitir"
  ELSE IF acum[f] > 0 THEN "registrada"
  ELSE IF snap = "incompleto" \/ Puntos[f] = 0 THEN "omitir"
  ELSE "acreditar"

\* What persistAccumulation is going to write: nothing on a terminal row, a skip
\* without evidence or with a contradicted snapshot, else as registered.
Veredicto(f, snap) ==
  IF Terminal(f) THEN "nada"
  ELSE IF snap = "sin" \/ Contradice(f) THEN "omitir"
  ELSE Registro(f, snap)

\* Under the lock the transaction reads and decides; it writes in a later step.
Decidir(p) ==
  /\ cola[p] # <<>> /\ etapa[p] = "inicio" /\ Free(p)
  /\ LET f == Head(cola[p])
         s == Snapshot(p, f)
     IN dictamen' = [dictamen EXCEPT ![p] =
          [que |-> IF Pagada(f) THEN Veredicto(f, s) ELSE "nada",
           snap |-> s, ctx |-> Contexto(f)]]
  /\ etapa' = [etapa EXCEPT ![p] = "decidido"]
  /\ UNCHANGED <<caja, cuenta, cola, tick, fallos, apto, reservada>>

\* The job is done: the next one is shifted.
Siguiente(p) ==
  /\ cola' = [cola EXCEPT ![p] = Tail(@)]
  /\ etapa' = [etapa EXCEPT ![p] = "inicio"]
  /\ dictamen' = [dictamen EXCEPT ![p] = SinDictamen]

\* addSaldoPoints under the lock of the balance row: what is owed is paid first.
CompensationlessCredit(n) ==   \* a mutant: without applyFifoCompensation
  saldo' = saldo + n /\ UNCHANGED deuda

Abonar(n) ==
  /\ saldo' = saldo + n - Menor(n, deuda)
  /\ deuda' = deuda - Menor(n, deuda)

Confirmar(p) ==
  /\ etapa[p] = "decidido"
  /\ LET f == Head(cola[p])
         d == dictamen[p]
     IN /\ d.que # "nada" => f \notin Veneno
        /\ \/ d.que = "nada" /\ UNCHANGED <<fila, acum, saldo, deuda>>
           \/ /\ d.que = "omitir"
              /\ fila' = Upsert(f, "SKIPPED_TERMINAL", d.snap, d.ctx)
              /\ UNCHANGED <<acum, saldo, deuda>>
           \/ /\ d.que = "registrada"
              /\ fila' = Upsert(f, "PROCESSED", d.snap, d.ctx)
              /\ UNCHANGED <<acum, saldo, deuda>>
           \/ /\ d.que = "acreditar"
              /\ fila' = Upsert(f, "PROCESSED", d.snap, d.ctx)
              /\ acum' = [acum EXCEPT ![f] = @ + 1]
              /\ Abonar(Puntos[f])
  /\ Siguiente(p)
  /\ UNCHANGED <<caja, reverso, tick, fallos, apto, reservada>>

\* Anything fails: ROLLBACK, and with it the lock goes.
FallarSiempre(p) ==
  /\ etapa[p] = "decidido" /\ dictamen[p].que # "nada" /\ Head(cola[p]) \in Veneno
  /\ etapa' = [etapa EXCEPT ![p] = "error"]
  /\ UNCHANGED <<caja, cuenta, cola, dictamen, tick, fallos, apto, reservada>>

Fallar(p) ==
  /\ cola[p] # <<>> /\ etapa[p] \in {"inicio", "decidido"} /\ Fallo
  /\ etapa' = [etapa EXCEPT ![p] = "error"]
  /\ UNCHANGED <<caja, cuenta, cola, dictamen, tick, apto, reservada>>

\* The failure of the job, known to the tick if it is one of its batch.
Anotar(p) == fallidas' = IF p = Reconciliador THEN fallidas \cup {Head(cola[p])} ELSE fallidas

\* recordAccumulationRetryableError: one more statement, outside any lock.
AnotarError(p) ==
  /\ etapa[p] = "error"
  /\ fila' = Upsert(Head(cola[p]), "RETRYABLE_ERROR", dictamen[p].snap, dictamen[p].ctx)
  /\ Siguiente(p)
  /\ Anotar(p)
  /\ UNCHANGED <<caja, acum, reverso, saldo, deuda, fase, lote, cursor,
                 fallos, apto, reservada>>

\* There was no connection at all, or the note of the error fails as well.
PerderError(p) ==
  /\ cola[p] # <<>> /\ etapa[p] \in {"inicio", "error"} /\ Fallo
  /\ Siguiente(p)
  /\ Anotar(p)
  /\ UNCHANGED <<caja, cuenta, fase, lote, cursor, apto, reservada>>

\* The process stops: its queue, its transaction and its tick are gone.
Caer(p) ==
  /\ Fallo
  /\ cola' = [cola EXCEPT ![p] = <<>>]
  /\ etapa' = [etapa EXCEPT ![p] = "inicio"]
  /\ dictamen' = [dictamen EXCEPT ![p] = SinDictamen]
  /\ IF p = Reconciliador
     THEN fase' = "quieta" /\ lote' = {} /\ fallidas' = {} /\ cursor' = 0
     ELSE UNCHANGED tick
  /\ UNCHANGED <<caja, cuenta, apto, reservada>>

-----------------------------------------------------------------------------
\* fidelizacionReconciliationTick and reconcileMissingPoints.
ForgetfulPendiente(f) ==   \* a mutant: a failure is not looked for again
  /\ Pagada(f) /\ acum[f] = 0 /\ PedidoDe[f] \notin Elementos(reciente)
  /\ Contexto(f) # "vacio"
  /\ fila[f] = Nada \/ fila[f].st = "PENDING"

\* listPaidInvoicesMissingAccumulation, without its cursor: the customer is that
\* of the row's snapshot, else that of the invoice or its order.
Pendiente(f) ==
  /\ Pagada(f) /\ acum[f] = 0 /\ PedidoDe[f] \notin Elementos(reciente)
  /\ Contexto(f) # "vacio"
  /\ fila[f] = Nada \/ fila[f].st \in Reintentables

Candidatas == {f \in Facturas : Pendiente(f) /\ f > cursor}

Primeras(S, n) == {f \in S : Cardinality({g \in S : g < f}) < n}

\* The batch is queued in order; what no longer fits is rejected.
Listar ==
  /\ fase = "quieta"
  /\ LET ids     == Primeras(Candidatas, Limite)
         caben   == Primeras(ids, MaxCola + 1)
     IN IF ids = {}
        THEN cursor' = 0 /\ UNCHANGED <<fase, lote, fallidas, cola>>
        ELSE /\ fase' = "lote"
             /\ lote' = ids
             /\ fallidas' = ids \ caben
             /\ \E q \in [1..Cardinality(caben) -> caben] :
                  /\ \A i, j \in DOMAIN q : i < j => q[i] < q[j]
                  /\ cola' = [cola EXCEPT ![Reconciliador] = q]
             /\ UNCHANGED cursor
  /\ UNCHANGED <<caja, cuenta, etapa, dictamen, fallos, apto, reservada>>

\* nextCursor: the end of the batch, or just before its first failure.
AvanzaCursor ==
  \/ /\ fallidas = {}
     /\ \E f \in lote : (\A g \in lote : g <= f) /\ cursor' = f
  \/ \E f \in fallidas : (\A g \in fallidas : f <= g) /\ cursor' = f - 1

Concluir ==
  /\ fase = "lote" /\ cola[Reconciliador] = <<>>
  /\ AvanzaCursor
  /\ fase' = "quieta" /\ lote' = {} /\ fallidas' = {}
  /\ UNCHANGED <<caja, cuenta, memoria, fallos, apto, reservada>>

-----------------------------------------------------------------------------
\* applyLoyaltyReversalForFactura in the transaction that returns u units of f,
\* which has the invoice locked: what the balance cannot give becomes debt.
Objetivo(f, total) ==
  LET meta == IF total = Unidades THEN Puntos[f] ELSE (Puntos[f] * total) \div Unidades
  IN IF meta > reverso[f] THEN meta - reverso[f] ELSE 0

Revertir(f, u) ==
  /\ cobrada[f] /\ devuelto[f] + u <= Unidades
  /\ devuelto' = [devuelto EXCEPT ![f] = @ + u]
  /\ acum[f] <= 1
  /\ IF acum[f] = 1 /\ Puntos[f] > reverso[f]
     THEN LET meta     == Objetivo(f, devuelto'[f])
              quitados == Menor(meta, saldo)
          IN /\ saldo' = saldo - quitados
             /\ reverso' = [reverso EXCEPT ![f] = @ + quitados]
             /\ deuda' = deuda + (meta - quitados)
     ELSE UNCHANGED <<saldo, reverso, deuda>>
  /\ UNCHANGED <<cobrada, reciente, perfil, contexto, fila, acum, memoria, tick,
                 fallos, apto, reservada>>

\* createPresentialFidelizacionCanje, under the locks of customer and balance.
Canjear(n) ==
  /\ n <= saldo
  /\ saldo' = saldo - n
  /\ UNCHANGED <<caja, fila, acum, reverso, deuda, memoria, tick,
                 fallos, apto, reservada>>

-----------------------------------------------------------------------------
Trabajar(p) == Confirmar(p) \/ FallarSiempre(p) \/ AnotarError(p)

Next ==
  \/ \E w \in Webs, f \in Facturas : Cobrar(w, f)
  \/ EditarPerfil
  \/ \E f \in Facturas, c \in {"otro", "vacio"} : Corregir(f, c)
  \/ PasaGracia
  \/ \E p \in Procesos : Decidir(p) \/ Trabajar(p) \/ Fallar(p) \/ PerderError(p) \/ Caer(p)
  \/ Listar \/ Concluir
  \/ \E f \in Facturas, u \in 1..Unidades : Revertir(f, u)
  \/ \E n \in 1..saldo : Canjear(n)

Spec == Init /\ [][Next]_vars

\* A queue is drained, the scheduler ticks, time passes, and PostgreSQL grants
\* the advisory lock to its waiters in turn (hence strong fairness).
Fairness ==
  /\ \A p \in Procesos : SF_vars(Decidir(p)) /\ WF_vars(Trabajar(p))
  /\ WF_vars(Listar) /\ WF_vars(Concluir)
  /\ WF_vars(PasaGracia)

FairSpec == Spec /\ Fairness
-----------------------------------------------------------------------------
\* Type invariant.
TypeOK ==
  /\ cobrada \in [Facturas -> BOOLEAN] /\ reciente \in Seq(Pedidos)
  /\ devuelto \in [Facturas -> 0..Unidades] /\ perfil \in BOOLEAN
  /\ contexto \in [Facturas -> Contextos]
  /\ fila \in [Facturas -> Fila \cup {Nada}]
  /\ acum \in [Facturas -> Nat] /\ reverso \in [Facturas -> Nat]
  /\ saldo \in Nat /\ deuda \in Nat
  /\ cola \in [Procesos -> Seq(Facturas)]
  /\ etapa \in [Procesos -> {"inicio", "decidido", "error"}]
  /\ dictamen \in [Procesos -> [que : {"nada", "omitir", "registrada", "acreditar"},
                                snap : Snaps, ctx : Contextos]]
  /\ fase \in {"quieta", "lote"} /\ lote \subseteq Facturas /\ fallidas \subseteq lote
  /\ cursor \in Nat /\ fallos \in Nat
  /\ apto \in [Facturas -> BOOLEAN] /\ reservada \in [Facturas -> BOOLEAN]
  /\ \A p \in Procesos : etapa[p] # "inicio" => cola[p] # <<>>

\* An invoice earns its points once, though the web process and the scheduler
\* may both hold a job for it; and it has a movement exactly when its row says
\* PROCESSED, whatever late note of a failure still arrives.
PointsOnce ==
  \A f \in Facturas : /\ acum[f] <= 1
                      /\ acum[f] = 1 <=> Terminal(f) /\ fila[f].st = "PROCESSED"

\* An invoice whose accumulation was reserved is judged by the profile and the
\* context of its payment: points only for a profile that was complete then, and
\* no refusal because the profile was emptied or the customer taken off the
\* invoice later.  Only a correction that contradicts the snapshot refuses an
\* invoice that had earned points.
JudgedAsPaid ==
  \A f \in Facturas : reservada[f] /\ Terminal(f) =>
    IF fila[f].st = "PROCESSED" THEN apto[f] /\ Puntos[f] > 0
    ELSE apto[f] /\ Puntos[f] > 0 => contexto[f] = "otro"

\* Who owes points has none to spend: a reversal takes the balance before it
\* writes debt, and an accumulation pays debt before it adds to the balance.
NoCreditWithDebt == deuda > 0 => saldo = 0

\* The reconciliation alone, which knows nothing of the moment of the payment,
\* gives points only on a contact on record: a row it finds without a snapshot
\* never gets one from the profile of today.
ReconcileNeedsEvidence ==
  [][\A f \in Facturas :
       Confirmar(Reconciliador) /\ acum'[f] > acum[f] =>
         f \in ConContacto \/ ConSnapshot(f)]_vars

\* Every invoice of a paid order reaches a terminal state, although queues are
\* lost and some invoices fail for ever; excepted is the one that lost its
\* customer before any snapshot was on record.
NoneLeftBehind ==
  \A f \in Facturas \ Veneno :
    Pagada(f) ~> Terminal(f) \/ (contexto[f] = "vacio" /\ Contexto(f) = "vacio")
=============================================================================
