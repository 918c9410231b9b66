----------------------------- MODULE CashLedger -----------------------------
(***************************************************************************)
(* The ledger of the cash sessions: sales, payments of pending orders,     *)
(* reversals, manual movements, close reviews and closes, each of them one *)
(* PostgreSQL transaction (READ COMMITTED) that first takes its locks and  *)
(* reads, in the order of Plan, and then writes everything at its COMMIT.  *)
(*                                                                         *)
(* A lock lives until the transaction ends, so a transaction holds exactly *)
(* the locks of the steps behind it.  What it read stays what it read: the *)
(* only things that keep it true are the locks.                            *)
(***************************************************************************)
EXTENDS Naturals, Sequences, FiniteSets

CONSTANTS
  Procs,         \* database connections, one request each
  Sesiones,      \* cash sessions (cajas_sesiones), already open
  Directas,      \* invoices POST /ventas may issue
  Divisiones,    \* invoices of accounts still to be paid, one per division
  Pedidos,
  PedidoDe,      \* the order of an invoice
  Claves,        \* idempotency keys the clients use
  Revisiones,    \* ids of cajas_cierres_validaciones
  Unidades,      \* quantity an invoice sells
  MaxMovs,       \* model bound: manual movements per session
  Nada           \* no session, no request, no snapshot

Facturas == Directas \cup Divisiones

\* A snapshot of the ledger and a row of cajas_cierres_validaciones.
Fotos    == [cobradas : SUBSET Facturas, devueltas : [Facturas -> Nat], movs : Nat]
Revision == [s : Sesiones, foto : Fotos, cierre : BOOLEAN]

ASSUME LedgerAssumption ==
  /\ Nada \notin Sesiones /\ Nada \notin Revision
  /\ Directas \cap Divisiones = {}
  /\ PedidoDe \in [Facturas -> Pedidos]
  /\ \A f \in Directas, g \in Facturas : PedidoDe[f] = PedidoDe[g] => f = g
  /\ Unidades \in Nat \ {0} /\ MaxMovs \in Nat

VARIABLES
  estado,    \* per session, ABIERTA or CERRADA
  cobro,     \* per invoice, the session of its facturas_cobros row
  reversado, \* per invoice, the quantity its reversals returned
  movs,      \* per session, its manual movements
  pedido,    \* per order, estado_pedido and estado_pago
  revision,  \* per id, the close review: its session, its snapshot, linked or not
  cierre,    \* per session, the snapshot its close recorded
  clave,     \* per key, the request that committed under it
  pet,       \* per connection, the request it serves
  paso,      \* per connection, the next step of its plan
  foto       \* per connection, the snapshot it read

libro == <<estado, cobro, reversado, movs, pedido, revision, cierre, clave>>
vars  == <<libro, pet, paso, foto>>

-----------------------------------------------------------------------------
\* Requests.  A reversal names the session its invoice was charged in.
Peticiones ==
       [op : {"venta"}, s : Sesiones, k : Claves]
  \cup [op : {"pago"}, s : Sesiones, k : Claves, f : Divisiones]
  \cup [op : {"reversion"}, s : Sesiones, k : Claves, f : Facturas, u : 1..Unidades]
  \cup [op : {"movimiento", "revisar"}, s : Sesiones]
  \cup [op : {"cerrar"}, s : Sesiones, v : Revisiones]

\* What the close reads of the ledger (loadCajaCloseFinancialSnapshot and the
\* fingerprint made of it): the money charged, returned and moved by hand.
Foto(s) == [cobradas   |-> {f \in Facturas : cobro[f] = s},
            devueltas  |-> [f \in Facturas |-> IF cobro[f] = s THEN reversado[f] ELSE 0],
            movs       |-> movs[s]]

Init ==
  /\ estado = [s \in Sesiones |-> "ABIERTA"]
  /\ cobro = [f \in Facturas |-> Nada]
  /\ reversado = [f \in Facturas |-> 0]
  /\ movs = [s \in Sesiones |-> 0]
  /\ pedido = [p \in Pedidos |-> [estado |-> "ACTIVO", pago |-> "PENDIENTE"]]
  /\ revision = [v \in Revisiones |-> Nada]
  /\ cierre = [s \in Sesiones |-> Nada]
  /\ clave = [k \in Claves |-> Nada]
  /\ pet = [c \in Procs |-> Nada]
  /\ paso = [c \in Procs |-> 1]
  /\ foto = [c \in Procs |-> Nada]

-----------------------------------------------------------------------------
\* The locks and reads of each operation, in the order of the code.
\*   L  the advisory lock of the session, polled until a deadline
\*   S  the session row FOR UPDATE, with the check that it is ABIERTA
\*   F  the invoice and its charges FOR UPDATE
\*   P  the order FOR UPDATE
\*   K  the idempotency key, reserved by INSERT ... ON CONFLICT
\* The others lock nothing: abierta reads the state of the session, pendiente
\* that of the division, saldo what is left to return, foto the snapshot and
\* vigente the review to close with.
VentaPlan      == <<"L", "S", "K">>
PagoPlan       == <<"abierta", "K", "P", "pendiente", "L", "S">>
ReversionPlan  == <<"F", "K", "L", "abierta", "P", "saldo">>
MovimientoPlan == <<"L", "S">>
RevisarPlan    == <<"L", "S", "foto">>
CerrarPlan     == <<"L", "S", "foto", "vigente">>

PlanOf(venta, pago, reversion) ==
  [venta |-> venta, pago |-> pago, reversion |-> reversion,
   movimiento |-> MovimientoPlan, revisar |-> RevisarPlan, cerrar |-> CerrarPlan]

\* Mutants: a sale without its key, a payment that looks at the division and a
\* reversal that looks at the balance before locking, a reversal without the
\* lock of the session, and one that reserves its key after the state check.
KeylessSalePlan   == PlanOf(<<"L", "S">>, PagoPlan, ReversionPlan)
EarlyPendingPlan  == PlanOf(VentaPlan, <<"abierta", "pendiente", "K", "P", "L", "S">>, ReversionPlan)
EarlyBalancePlan  == PlanOf(VentaPlan, PagoPlan, <<"saldo", "F", "K", "L", "abierta", "P">>)
LocklessPlan      == PlanOf(VentaPlan, PagoPlan, <<"F", "K", "abierta", "P", "saldo">>)
LateKeyPlan       == PlanOf(VentaPlan, PagoPlan, <<"F", "L", "abierta", "K", "P", "saldo">>)

Plan == PlanOf(VentaPlan, PagoPlan, ReversionPlan)

Bloqueos == {"L", "S", "F", "P", "K"}

Recurso(r, t) ==
  <<t, CASE t \in {"L", "S"} -> r.s [] t = "F" -> r.f
         [] t = "P" -> PedidoDe[r.f] [] t = "K" -> r.k [] OTHER -> r.op>>

Active(c) == pet[c] # Nada
Steps(c)  == Plan[pet[c].op]
Ready(c)  == Active(c) /\ paso[c] > Len(Steps(c))
Pending(c) == Active(c) /\ paso[c] <= Len(Steps(c))
Step(c)   == Steps(c)[paso[c]]

\* Step t of the plan of c is behind it; the same, and taken after step u was.
Past(c, t)     == Active(c) /\ \E i \in 1..Len(Steps(c)) : i < paso[c] /\ Steps(c)[i] = t
PastAfter(c, t, u) ==
  /\ Active(c)
  /\ \E i, j \in 1..Len(Steps(c)) : i < j /\ j < paso[c] /\ Steps(c)[i] = u /\ Steps(c)[j] = t

Held(c) == {Recurso(pet[c], t) : t \in {b \in Bloqueos : Past(c, b)}}

Blocked(c) == /\ Step(c) \in Bloqueos
              /\ \E d \in Procs \ {c} : Recurso(pet[c], Step(c)) \in Held(d)

\* assertCloseValidationMatchesCurrentSummary, on an unlinked review.
BlindVigente(c) ==      \* a mutant: the figures are not compared
  revision[pet[c].v] # Nada /\ revision[pet[c].v].s = pet[c].s /\ ~ revision[pet[c].v].cierre

Vigente(c) == revision[pet[c].v] = [s |-> pet[c].s, foto |-> foto[c], cierre |-> FALSE]

\* The check that goes with a step; a step without one always passes.
Passes(c, t) ==
  /\ t \in {"S", "abierta"} => estado[pet[c].s] = "ABIERTA"
  /\ t = "K" => clave[pet[c].k] = Nada
  /\ t = "pendiente" => cobro[pet[c].f] = Nada
  /\ t = "saldo" => reversado[pet[c].f] + pet[c].u <= Unidades
  /\ t = "vigente" => Vigente(c)

-----------------------------------------------------------------------------
\* Model bounds: a request arrives only while its rows fit in the instance.
InFlight(op) == Cardinality({c \in Procs : Active(c) /\ pet[c].op = op})

Fits(r) ==
  /\ r.op = "venta" => InFlight("venta") < Cardinality({f \in Directas : cobro[f] = Nada})
  /\ r.op = "movimiento" => movs[r.s] + InFlight("movimiento") < MaxMovs
  /\ r.op = "revisar" =>
       InFlight("revisar") < Cardinality({v \in Revisiones : revision[v] = Nada})
  /\ r.op = "reversion" => cobro[r.f] = r.s
  /\ r.op = "cerrar" => revision[r.v] # Nada

\* A request arrives: a new one or a client's retry of one already answered.
Begin(c) ==
  /\ ~ Active(c)
  /\ \E r \in Peticiones : Fits(r) /\ pet' = [pet EXCEPT ![c] = r]
  /\ UNCHANGED <<libro, paso, foto>>

\* The transaction takes the next lock or makes the next read.
Advance(c) ==
  /\ Pending(c) /\ ~ Blocked(c) /\ Passes(c, Step(c))
  /\ paso' = [paso EXCEPT ![c] = @ + 1]
  /\ foto' = IF Step(c) = "foto" THEN [foto EXCEPT ![c] = Foto(pet[c].s)] ELSE foto
  /\ UNCHANGED <<libro, pet>>

\* COMMIT or ROLLBACK: the locks go and the connection returns to the pool.
Release(c) ==
  /\ pet' = [pet EXCEPT ![c] = Nada]
  /\ paso' = [paso EXCEPT ![c] = 1]
  /\ foto' = [foto EXCEPT ![c] = Nada]

\* A check fails.  At K the request may be a replay, which is answered with
\* the stored response; everything else is an error for the client.
Reject(c) ==
  /\ Pending(c) /\ ~ Blocked(c) /\ ~ Passes(c, Step(c))
  /\ Release(c)
  /\ UNCHANGED libro

PatientTimeout(c) ==    \* a mutant: the polling loop has no deadline
  Pending(c) /\ Step(c) = "L" /\ Blocked(c) /\ UNCHANGED vars

\* VENTAS_CAJA_FINANCIAL_LOCK_TIMEOUT.
Timeout(c) ==
  /\ Pending(c) /\ Step(c) = "L" /\ Blocked(c)
  /\ Release(c)
  /\ UNCHANGED libro

\* Any other error, a lost connection, PostgreSQL's own timeouts.
Abort(c) ==
  /\ Active(c)
  /\ Release(c)
  /\ UNCHANGED libro

-----------------------------------------------------------------------------
Committing(c, op) == Ready(c) /\ pet[c].op = op

Reserved(c) == [clave EXCEPT ![pet[c].k] = pet[c]]

FacturasDe(p) == {f \in Facturas : PedidoDe[f] = p}

CommitSale(c) ==
  /\ Committing(c, "venta")
  /\ \E f \in Directas :
       /\ cobro[f] = Nada
       /\ cobro' = [cobro EXCEPT ![f] = pet[c].s]
       /\ pedido' = [pedido EXCEPT ![PedidoDe[f]].pago = "PAGADO_CONFIRMADO"]
  /\ clave' = Reserved(c)
  /\ Release(c)
  /\ UNCHANGED <<estado, reversado, movs, revision, cierre>>

\* The order is marked paid with its last division, whatever its state.
CommitPayment(c) ==
  /\ Committing(c, "pago")
  /\ cobro' = [cobro EXCEPT ![pet[c].f] = pet[c].s]
  /\ LET p == PedidoDe[pet[c].f] IN
       pedido' = IF \A f \in FacturasDe(p) : cobro'[f] # Nada
                 THEN [pedido EXCEPT ![p].pago = "PAGADO_CONFIRMADO"] ELSE pedido
  /\ clave' = Reserved(c)
  /\ Release(c)
  /\ UNCHANGED <<estado, reversado, movs, revision, cierre>>

\* An invoice returned whole cancels its order and annuls its payment.
CommitReversal(c) ==
  /\ Committing(c, "reversion")
  /\ LET f == pet[c].f IN
       /\ reversado' = [reversado EXCEPT ![f] = @ + pet[c].u]
       /\ pedido' = IF reversado'[f] = Unidades
                    THEN [pedido EXCEPT ![PedidoDe[f]] =
                            [estado |-> "CANCELADO", pago |-> "PAGO_ANULADO"]]
                    ELSE pedido
  /\ clave' = Reserved(c)
  /\ Release(c)
  /\ UNCHANGED <<estado, cobro, movs, revision, cierre>>

CommitMovement(c) ==
  /\ Committing(c, "movimiento")
  /\ movs' = [movs EXCEPT ![pet[c].s] = @ + 1]
  /\ Release(c)
  /\ UNCHANGED <<estado, cobro, reversado, pedido, revision, cierre, clave>>

\* persistCloseValidationAttempt: an equal unlinked review is used again.
CommitReview(c) ==
  /\ Committing(c, "revisar")
  /\ LET nueva == [s |-> pet[c].s, foto |-> foto[c], cierre |-> FALSE] IN
       \/ \E v \in Revisiones : revision[v] = nueva /\ UNCHANGED revision
       \/ \E v \in Revisiones : /\ revision[v] = Nada
                                /\ revision' = [revision EXCEPT ![v] = nueva]
  /\ Release(c)
  /\ UNCHANGED <<estado, cobro, reversado, movs, pedido, cierre, clave>>

CommitClose(c) ==
  /\ Committing(c, "cerrar")
  /\ estado' = [estado EXCEPT ![pet[c].s] = "CERRADA"]
  /\ cierre' = [cierre EXCEPT ![pet[c].s] = foto[c]]
  /\ revision' = [revision EXCEPT ![pet[c].v].cierre = TRUE]
  /\ Release(c)
  /\ UNCHANGED <<cobro, reversado, movs, pedido, clave>>

Commit(c) == \/ CommitSale(c) \/ CommitPayment(c) \/ CommitReversal(c)
             \/ CommitMovement(c) \/ CommitReview(c) \/ CommitClose(c)

Next == \E c \in Procs :
          Begin(c) \/ Advance(c) \/ Commit(c) \/ Reject(c) \/ Timeout(c) \/ Abort(c)

Spec == Init /\ [][Next]_vars

\* A request goes on when nobody holds what it needs; PostgreSQL serves the
\* waiters of a row in turn (so strong fairness: a lock that is free again and
\* again is had in the end) and each poll of L either takes it or, past the
\* deadline, gives up.  Nothing makes a request fail otherwise.
Run(c) == Advance(c) \/ Commit(c) \/ Reject(c) \/ Timeout(c)

Fairness == \A c \in Procs : SF_vars(Run(c))

FairSpec == Spec /\ Fairness
-----------------------------------------------------------------------------
\* Every variable has its type, and a connection back in the pool carries
\* nothing of the request it served.
TypeOK ==
  /\ estado \in [Sesiones -> {"ABIERTA", "CERRADA"}]
  /\ cobro \in [Facturas -> Sesiones \cup {Nada}]
  /\ reversado \in [Facturas -> Nat]
  /\ movs \in [Sesiones -> Nat]
  /\ pedido \in [Pedidos -> [estado : {"ACTIVO", "CANCELADO"},
                             pago : {"PENDIENTE", "PAGADO_CONFIRMADO", "PAGO_ANULADO"}]]
  /\ revision \in [Revisiones -> Revision \cup {Nada}]
  /\ cierre \in [Sesiones -> Fotos \cup {Nada}]
  /\ clave \in [Claves -> Peticiones \cup {Nada}]
  /\ pet \in [Procs -> Peticiones \cup {Nada}]
  /\ paso \in [Procs -> Nat \ {0}]
  /\ foto \in [Procs -> Fotos \cup {Nada}]
  /\ \A c \in Procs : ~ Active(c) => paso[c] = 1 /\ foto[c] = Nada

\* What a close recorded is the ledger of its session for ever after: no sale,
\* payment, reversal or movement reaches a session once it is closed, however
\* it interleaves with the close.
ClosedLedgerFrozen ==
  \A s \in Sesiones : estado[s] = "CERRADA" => cierre[s] = Foto(s)

Ligadas(s) ==
  {v \in Revisiones : revision[v] # Nada /\ revision[v].s = s /\ revision[v].cierre = TRUE}

\* A closed session was reviewed exactly once with the figures it closed with,
\* and no review is linked to a session that is still open.
CloseWasReviewed ==
  \A s \in Sesiones :
    IF estado[s] = "CERRADA"
    THEN \E v \in Revisiones : Ligadas(s) = {v} /\ revision[v].foto = cierre[s]
    ELSE Ligadas(s) = {}

\* The reversals of an invoice never return more than it sold, and only an
\* invoice that was charged has any.
NoOverReversal ==
  \A f \in Facturas : /\ reversado[f] <= Unidades
                      /\ reversado[f] > 0 => cobro[f] # Nada

\* A division is paid once, also by two payments with different keys.
PaidOnce ==
  [][\A c \in Procs : CommitPayment(c) => cobro[pet[c].f] = Nada]_vars

\* No two transactions have an effect under the same idempotency key.
OneEffectPerKey ==
  [][\A c \in Procs : CommitSale(c) \/ CommitPayment(c) \/ CommitReversal(c)
                        => clave[pet[c].k] = Nada]_vars

\* The retry of a reversal that committed is answered with its stored response:
\* a close that came between never turns it into VENTAS_REVERSION_SESION_CERRADA.
ReplaySurvivesClose ==
  [][\A c \in Procs : Reject(c) /\ pet[c].op = "reversion" /\ Step(c) = "abierta"
                        => clave[pet[c].k] # pet[c]]_vars

\* Every request ends, although payments and reversals take the order and the
\* session in opposite orders and PostgreSQL does not see that cycle.
RequestsEnd == \A c \in Procs : Active(c) ~> ~ Active(c)

-----------------------------------------------------------------------------
\* The inductive invariant: what the locks keep true between a check and the
\* commit that relies on it.
LockExclusion == \A c, d \in Procs : c # d => Held(c) \cap Held(d) = {}

\* A session found open under its lock stays open until the lock goes.
OpenUnderLock ==
  \A c \in Procs :
    PastAfter(c, "S", "L") \/ PastAfter(c, "abierta", "L") => estado[pet[c].s] = "ABIERTA"

\* The snapshot of a review or a close is still the ledger, and the review
\* chosen still the one to close with.
SnapshotUnderLock ==
  \A c \in Procs : /\ Past(c, "foto") => foto[c] = Foto(pet[c].s)
                   /\ Past(c, "vigente") => Vigente(c)

\* A division seen pending is unpaid and a balance seen is still there.
BalanceUnderLock ==
  \A c \in Procs :
    /\ Past(c, "pendiente") => cobro[pet[c].f] = Nada
    /\ Past(c, "saldo") => reversado[pet[c].f] + pet[c].u <= Unidades
    /\ Active(c) /\ pet[c].op = "reversion" => cobro[pet[c].f] = pet[c].s

\* A key reserved is used by nobody else.
KeyUnderLock == \A c \in Procs : Past(c, "K") => clave[pet[c].k] = Nada

IInv == /\ TypeOK
        /\ LockExclusion /\ OpenUnderLock /\ SnapshotUnderLock
        /\ BalanceUnderLock /\ KeyUnderLock
        /\ ClosedLedgerFrozen /\ CloseWasReviewed /\ NoOverReversal
=============================================================================
