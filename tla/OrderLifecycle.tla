--------------------------- MODULE OrderLifecycle ---------------------------
(***************************************************************************)
(* The life of an order: created from the public menu or at the till, its  *)
(* payment confirmed or timed out, cooked, delivered, charged, reversed,   *)
(* and its ingredients taken from stock exactly when the code takes them   *)
(* (routers/ventas.js, routers/cocina.js, routers/insumos.js,              *)
(* pedidoOperationalRoutingService, inventarioPedidoService).              *)
(*                                                                         *)
(* Every request is one READ COMMITTED transaction.  A transaction whose   *)
(* only lock of this module is the row of its order, taken first, is one   *)
(* step that needs the row free.  Those that lock several rows, or read    *)
(* before they lock, go step by step: they first expire every order whose  *)
(* payment window closed, row after row, and a ROLLBACK undoes that too.   *)
(* Orders are numbered by the place of their row in the table, which is    *)
(* the order in which the UPDATE reaches them; all their lines are valid.  *)
(***************************************************************************)
EXTENDS Naturals, FiniteSets

CONSTANTS
  NumPedidos,    \* orders are 1..NumPedidos
  ConCocina,     \* orders with a line to prepare; the others sell a product
  EnLocal,       \* orders consumed on the premises
  Peticiones,    \* database connections, one request each
  Operaciones,   \* bound: the kinds of request that arrive
  MaxCreados,    \* bound: orders that are created
  Mostrador,     \* bound: orders the till creates, charges and reverses
  ControlMenu,   \* the state of payment the catalogue gives a public order
  Unidades,      \* quantity an order sells
  Libre          \* no connection

Pedidos == 1..NumPedidos

ASSUME OrderAssumption ==
  /\ NumPedidos \in Nat \ {0}
  /\ ConCocina \subseteq Pedidos /\ EnLocal \subseteq Pedidos /\ Mostrador \subseteq Pedidos
  /\ ControlMenu \in {"PENDIENTE_PAGO", "PENDIENTE_VALIDACION"}
  /\ Unidades \in Nat \ {0}
  /\ MaxCreados \in Nat
  /\ Operaciones \subseteq {"listar", "confirmar", "estado", "cocina", "descontar"}
  /\ Libre \notin Peticiones

Iniciados == {"EN_PREPARACION", "LISTO_PARA_ENTREGA", "COMPLETADO", "NO_ENTREGADO"}
Estados   == {"PENDIENTE", "EN_COCINA", "CANCELADO"} \cup Iniciados
EnFuego   == {"EN_COCINA", "EN_PREPARACION"}
Pagos     == {"PENDIENTE_PAGO", "PENDIENTE_VALIDACION", "PAGADO_CONFIRMADO",
              "CANCELADO_TIMEOUT", "PAGO_ANULADO"}

VARIABLES
  origen,     \* origen_pedido; "" while the order does not exist
  estado,     \* id_estado_pedido
  pago,       \* estado_pago
  control,    \* pedidos_pago_control.id_estado_pago_pedido
  ventana,    \* validacion_pago_vence_at: "sin", "abierta" or "vencida"
  kds,        \* the expected time of the kitchen has passed
  preparado,  \* en_preparacion_at
  salidas,    \* discounts of the order in movimientos_inventario
  entradas,   \* quantity its reversals brought back to stock
  facturado,  \* the order has an invoice
  revertido,  \* quantity its reversals returned
  candado,    \* per order, the connection that holds its row
  peticion,   \* per connection, the request it serves
  iniciado,   \* history: it reached EN_PREPARACION or a later state, by any path
  crudo,      \* history: quantity returned before that
  ciega       \* history: a reversal after that saw no sign of it

pedido     == <<origen, estado, pago, control, ventana, kds, preparado, facturado, iniciado>>
inventario == <<salidas, entradas, revertido, crudo, ciega>>
vars       == <<pedido, inventario, candado, peticion>>

-----------------------------------------------------------------------------
\* paso: expira -> toma -> decide -> inserta; filas are the rows its UPDATE
\* still has to reach, expirados those it cancelled and has not committed,
\* visto what its SELECT read of the order.
Peticion ==
  [op : Operaciones, p : Pedidos, a : Estados, paso : {"expira", "toma", "decide", "inserta"},
   filas : SUBSET Pedidos, expirados : SUBSET Pedidos,
   visto : [estado : Estados, pago : Pagos]]

Ninguna  == [op |-> "ninguna"]
SinVisto == [estado |-> "PENDIENTE", pago |-> "PENDIENTE_PAGO"]

Init ==
  /\ origen = [p \in Pedidos |-> ""]
  /\ estado = [p \in Pedidos |-> "PENDIENTE"]
  /\ pago = [p \in Pedidos |-> "PENDIENTE_PAGO"]
  /\ control = [p \in Pedidos |-> "PENDIENTE_PAGO"]
  /\ ventana = [p \in Pedidos |-> "sin"]
  /\ kds = [p \in Pedidos |-> FALSE]
  /\ preparado = [p \in Pedidos |-> FALSE]
  /\ salidas = [p \in Pedidos |-> 0]
  /\ entradas = [p \in Pedidos |-> 0]
  /\ facturado = [p \in Pedidos |-> FALSE]
  /\ revertido = [p \in Pedidos |-> 0]
  /\ candado = [p \in Pedidos |-> Libre]
  /\ peticion = [t \in Peticiones |-> Ninguna]
  /\ iniciado = [p \in Pedidos |-> FALSE]
  /\ crudo = [p \in Pedidos |-> 0]
  /\ ciega = [p \in Pedidos |-> FALSE]

Existe(p)       == origen[p] # ""
Tomable(t, p)   == candado[p] \in {Libre, t}
EnCurso(t)      == peticion[t].op # "ninguna"
En(t, ops, paso) == EnCurso(t) /\ peticion[t].op \in ops /\ peticion[t].paso = paso

\* The end of a transaction: its rows are free again.
Termina(t) ==
  /\ peticion' = [peticion EXCEPT ![t] = Ninguna]
  /\ candado' = [p \in Pedidos |-> IF candado[p] = t THEN Libre ELSE candado[p]]

\* Mutant of Rollback: a rejection that returns without it.
LeakyRollback(t) ==
  /\ peticion' = [peticion EXCEPT ![t] = Ninguna]
  /\ UNCHANGED <<pedido, inventario, candado>>

Rollback(t) == Termina(t) /\ UNCHANGED <<pedido, inventario>>

\* expirePendingPublicOrders: the rows its WHERE selects, and what it sets.
Expirable(p) ==
  /\ origen[p] = "MENU" /\ estado[p] = "PENDIENTE"
  /\ pago[p] = "PENDIENTE_VALIDACION" /\ ventana[p] = "vencida"

\* Mutant of Vencidos: a value the catalogue does not have.
LooseVencidos(E, f, valor) == [p \in Pedidos |-> IF p \in E THEN "VENCIDO" ELSE f[p]]

Vencidos(E, f, valor) == [p \in Pedidos |-> IF p \in E THEN valor ELSE f[p]]

\* COMMIT of a transaction of t that leaves order p in state e, payment g.
Commit(t, p, e, g) ==
  LET E == peticion[t].expirados IN
  /\ Termina(t)
  /\ estado' = [Vencidos(E, estado, "CANCELADO") EXCEPT ![p] = e]
  /\ pago' = [Vencidos(E, pago, "CANCELADO_TIMEOUT") EXCEPT ![p] = g]
  /\ iniciado' = [iniciado EXCEPT ![p] = @ \/ e \in Iniciados]

\* What the transaction of t reads of its order: its own writes are visible.
Ve(t, p) ==
  IF p \in peticion[t].expirados THEN [estado |-> "CANCELADO", pago |-> "CANCELADO_TIMEOUT"]
  ELSE [estado |-> estado[p], pago |-> pago[p]]

\* classifyPedidoOperationalRouting, of an order whose origin was validated.
Inicial(p, quien, pagado) ==
  IF p \in ConCocina THEN "EN_COCINA"
  ELSE IF pagado /\ quien = "CAJA" /\ p \in EnLocal THEN "COMPLETADO"
  ELSE "LISTO_PARA_ENTREGA"

-----------------------------------------------------------------------------
\* Creation.  A menu order waits for its payment; one of the till is routed
\* and takes its stock in the transaction that creates it.
Crear(p, quien, pagado) ==
  /\ ~Existe(p) /\ Cardinality({q \in Pedidos : Existe(q)}) < MaxCreados
  /\ origen' = [origen EXCEPT ![p] = quien]
  /\ facturado' = [facturado EXCEPT ![p] = pagado]
  /\ UNCHANGED <<kds, preparado, entradas, revertido, crudo, ciega, candado, peticion>>

CrearMenu(p) ==
  /\ Crear(p, "MENU", FALSE)
  /\ pago' = [pago EXCEPT ![p] = "PENDIENTE_VALIDACION"]
  /\ control' = [control EXCEPT ![p] = ControlMenu]
  /\ ventana' = [ventana EXCEPT ![p] = "abierta"]
  /\ UNCHANGED <<estado, iniciado, salidas>>

CrearEnCaja(p, pagado) ==
  LET g == IF pagado THEN "PAGADO_CONFIRMADO" ELSE "PENDIENTE_PAGO" IN
  /\ Crear(p, "CAJA", pagado)
  /\ estado' = [estado EXCEPT ![p] = Inicial(p, "CAJA", pagado)]
  /\ iniciado' = [iniciado EXCEPT ![p] = @ \/ Inicial(p, "CAJA", pagado) \in Iniciados]
  /\ pago' = [pago EXCEPT ![p] = g]
  /\ control' = [control EXCEPT ![p] = g]
  /\ salidas' = [salidas EXCEPT ![p] = @ + 1]
  /\ UNCHANGED ventana

\* Time: the ten minutes of a menu order, which nothing looks at once its
\* payment is settled, and those of the kitchen board.
CierraVentana(p) ==
  /\ ventana[p] = "abierta" /\ pago[p] = "PENDIENTE_VALIDACION"
  /\ ventana' = [ventana EXCEPT ![p] = "vencida"]
  /\ UNCHANGED <<origen, estado, pago, control, kds, preparado, facturado, iniciado,
                 inventario, candado, peticion>>

VenceKds(p) ==
  /\ estado[p] \in EnFuego /\ ~kds[p]
  /\ kds' = [kds EXCEPT ![p] = TRUE]
  /\ UNCHANGED <<origen, estado, pago, control, ventana, preparado, facturado, iniciado,
                 inventario, candado, peticion>>

\* POST registrar-pago: it looks at the control of payment, not at the state.
Pagar(p) ==
  /\ Existe(p) /\ candado[p] = Libre
  /\ control[p] = "PENDIENTE_PAGO" /\ ~facturado[p]
  /\ facturado' = [facturado EXCEPT ![p] = TRUE]
  /\ control' = [control EXCEPT ![p] = "PAGADO_CONFIRMADO"]
  /\ pago' = [pago EXCEPT ![p] = "PAGADO_CONFIRMADO"]
  /\ ventana' = [ventana EXCEPT ![p] = "sin"]
  /\ UNCHANGED <<origen, estado, kds, preparado, iniciado, inventario, candado, peticion>>

\* POST reversiones of n units.  A product always comes back; a recipe only
\* before it was prepared; what left no movement cannot be brought back.  The
\* state comes from a LEFT JOIN read FOR UPDATE OF the order only: a reversal that
\* waited for the row while its state changed reads no state (nulo), and has the
\* time of the preparation alone to go by.
Preparada(p, nulo) == preparado[p] \/ (~nulo /\ estado[p] \in Iniciados)
Vuelve(p, nulo)    == p \notin ConCocina \/ ~Preparada(p, nulo)

\* Mutant of PierdeElPedido: cancelled when one reversal asks for it all.
SingleReversalTotal(p, n) == n = Unidades

PierdeElPedido(p, n) == revertido[p] + n = Unidades

\* The reversal of n units that leaves the stock returned so far at entra.
Devolver(p, n, nulo, entra) ==
  LET total == PierdeElPedido(p, n) IN
  /\ facturado[p] /\ candado[p] = Libre
  /\ revertido[p] + n <= Unidades
  /\ revertido' = [revertido EXCEPT ![p] = @ + n]
  /\ entradas' = [entradas EXCEPT ![p] = entra]
  /\ estado' = [estado EXCEPT ![p] = IF total THEN "CANCELADO" ELSE @]
  /\ pago' = [pago EXCEPT ![p] = IF total THEN "PAGO_ANULADO" ELSE @]
  /\ crudo' = [crudo EXCEPT ![p] = IF iniciado[p] THEN @ ELSE @ + n]
  /\ ciega' = [ciega EXCEPT ![p] = @ \/ (iniciado[p] /\ nulo /\ ~preparado[p])]
  /\ UNCHANGED <<origen, control, ventana, kds, preparado, facturado, iniciado, salidas,
                 candado, peticion>>

\* returnInventoryForReversionLine: up to all that was reversed so far, what an
\* earlier reversal did not bring back included.
Objetivo(p, n, nulo) == IF Vuelve(p, nulo) THEN revertido[p] + n ELSE entradas[p]

\* Mutant of Revertir: stock comes back without its original movement.
TracelessReturn(p, n, nulo) == Devolver(p, n, nulo, Objetivo(p, n, nulo))

Revertir(p, n, nulo) ==
  /\ salidas[p] = 0 => ~Vuelve(p, nulo)
  /\ Devolver(p, n, nulo, Objetivo(p, n, nulo))

-----------------------------------------------------------------------------
\* A request arrives.  NOW() is the start of the transaction, so the rows to
\* expire are those of this instant.
Llega(t, op, p, a) ==
  /\ ~EnCurso(t)
  /\ peticion' = [peticion EXCEPT ![t] =
       [op |-> op, p |-> p, a |-> a, expirados |-> {}, visto |-> SinVisto,
        paso |-> CASE op = "descontar" -> "decide"
                   [] op = "cocina" -> "toma"
                   [] OTHER -> "expira",
        filas |-> IF op \in {"listar", "confirmar", "estado"}
                  THEN {q \in Pedidos : Expirable(q)} ELSE {}]]
  /\ UNCHANGED <<pedido, inventario, candado>>

\* A listing names no order; no request but one of the state names a state.
Objetos(op) == IF op = "listar" THEN {1} ELSE {p \in Pedidos : Existe(p)}

Destinos(op) ==
  CASE op = "estado" -> {"EN_COCINA"} \cup Iniciados
    [] op = "cocina" -> Iniciados
    [] OTHER -> {"PENDIENTE"}

\* The UPDATE reaches its next row: it waits for the row and, once it has it,
\* checks its WHERE again on the version it finds.
Siguiente(t) == CHOOSE q \in peticion[t].filas : \A r \in peticion[t].filas : q <= r

Recheck(q) == Expirable(q)

ExpirarFila(t) ==
  /\ EnCurso(t) /\ peticion[t].paso = "expira" /\ peticion[t].filas # {}
  /\ LET q == Siguiente(t) IN
     /\ Tomable(t, q)
     /\ candado' = [candado EXCEPT ![q] = t]
     /\ peticion' = [peticion EXCEPT ![t].filas = @ \ {q},
                                     ![t].expirados = IF Recheck(q) THEN @ \cup {q} ELSE @]
  /\ UNCHANGED <<pedido, inventario>>

\* The listing is that statement alone.
Listar(t) ==
  /\ En(t, {"listar"}, "expira") /\ peticion[t].filas = {}
  /\ LET p == peticion[t].p IN Commit(t, p, Ve(t, p).estado, Ve(t, p).pago)
  /\ UNCHANGED <<origen, control, ventana, kds, preparado, facturado, inventario>>

\* Mutant of Tomar: the order is read without FOR UPDATE.
UnlockedTomar(t) ==
  /\ \/ En(t, {"confirmar", "estado"}, "expira") /\ peticion[t].filas = {}
     \/ En(t, {"cocina"}, "toma")
  /\ peticion' = [peticion EXCEPT ![t].paso = "decide", ![t].visto = Ve(t, peticion[t].p)]
  /\ UNCHANGED <<pedido, inventario, candado>>

\* SELECT ... FOR UPDATE of the order itself.
Tomar(t) ==
  /\ \/ En(t, {"confirmar", "estado"}, "expira") /\ peticion[t].filas = {}
     \/ En(t, {"cocina"}, "toma")
  /\ Tomable(t, peticion[t].p)
  /\ candado' = [candado EXCEPT ![peticion[t].p] = t]
  /\ peticion' = [peticion EXCEPT ![t].paso = "decide", ![t].visto = Ve(t, peticion[t].p)]
  /\ UNCHANGED <<pedido, inventario>>

-----------------------------------------------------------------------------
\* POST confirmar-pago.  Only a pending order, or a ready one that needs no
\* kitchen, and not one already confirmed or timed out.
Confirmable(t, p) ==
  /\ \/ peticion[t].visto.estado = "PENDIENTE"
     \/ p \notin ConCocina /\ peticion[t].visto.estado = "LISTO_PARA_ENTREGA"
  /\ peticion[t].visto.pago \notin {"PAGADO_CONFIRMADO", "CANCELADO_TIMEOUT"}

\* tarde: the payment window is over by the clock of the process, which need
\* not agree with the NOW() of the database.  That branch leaves the state.
ConfirmarPago(t, tarde) ==
  /\ En(t, {"confirmar"}, "decide")
  /\ LET p == peticion[t].p IN
     /\ Confirmable(t, p)
     /\ tarde => ventana[p] # "sin"
     /\ IF tarde
        THEN Commit(t, p, estado[p], "CANCELADO_TIMEOUT")
        ELSE Commit(t, p, IF estado[p] = "PENDIENTE" THEN Inicial(p, origen[p], TRUE) ELSE estado[p],
                    "PAGADO_CONFIRMADO")
  /\ UNCHANGED <<origen, control, ventana, kds, preparado, facturado, inventario>>

\* PUT pedidos-menu/:id/estado.  Ready is left to the kitchen, and what the
\* kitchen holds is closed from here only when its time has passed.
Avanza(t, p, a) ==
  LET e == peticion[t].visto.estado IN
  /\ \/ e = "PENDIENTE" /\ a = "EN_COCINA"
     \/ e = "EN_COCINA" /\ a = "EN_PREPARACION"
     \/ e \in EnFuego /\ a \in {"COMPLETADO", "NO_ENTREGADO"} /\ kds[p]
     \/ e = "LISTO_PARA_ENTREGA" /\ a \in {"COMPLETADO", "NO_ENTREGADO"}
  /\ a = "EN_COCINA" => p \in ConCocina

CambiarEstado(t) ==
  /\ En(t, {"estado"}, "decide")
  /\ LET p == peticion[t].p
         a == peticion[t].a IN
     /\ Avanza(t, p, a) \/ a = peticion[t].visto.estado   \* a repeated request commits too
     /\ Commit(t, p, a, Ve(t, p).pago)
  /\ UNCHANGED <<origen, control, ventana, kds, preparado, facturado, inventario>>

\* PUT cocina/pedidos/:id/estado: TRANSITIONS and EXTRA_TRANSITIONS.
Cocinable(t, p, a) ==
  LET e == peticion[t].visto.estado IN
  /\ p \in ConCocina
  /\ \/ e = "EN_COCINA" /\ a \in {"EN_PREPARACION", "LISTO_PARA_ENTREGA"}
     \/ e = "EN_PREPARACION" /\ a = "LISTO_PARA_ENTREGA"
     \/ e = "LISTO_PARA_ENTREGA" /\ a \in {"COMPLETADO", "NO_ENTREGADO"}

\* Its UPDATE compares the state with the one it read.
SinConflicto(t, p) == estado[p] = peticion[t].visto.estado

\* Only the start of the preparation takes stock, unless it was taken before.
Cocinar(t) ==
  /\ En(t, {"cocina"}, "decide")
  /\ LET p == peticion[t].p
         a == peticion[t].a IN
     /\ Cocinable(t, p, a) /\ SinConflicto(t, p)
     /\ a = "EN_PREPARACION" => salidas[p] > 0
     /\ Commit(t, p, a, pago[p])
     /\ preparado' = [preparado EXCEPT ![p] = @ \/ a = "EN_PREPARACION"]
  /\ UNCHANGED <<origen, control, ventana, kds, facturado, inventario>>

\* fetchExistingPedidoMovement found nothing: on to the stock and its rows.
SinMovimiento(t) ==
  /\ \/ /\ En(t, {"cocina"}, "decide")
        /\ Cocinable(t, peticion[t].p, peticion[t].a) /\ peticion[t].a = "EN_PREPARACION"
     \/ En(t, {"descontar"}, "decide")
  /\ salidas[peticion[t].p] = 0
  /\ peticion' = [peticion EXCEPT ![t].paso = "inserta"]
  /\ UNCHANGED <<pedido, inventario, candado>>

\* Mutant of IndiceAcepta: the index was not created.
BlindIndex(p) == TRUE

\* The INSERT: the unique index is per order, line, store and ingredient, and any
\* row it refuses undoes the whole discount; of one recipe it accepts one.
IndiceAcepta(p) == salidas[p] = 0

CocinarConSalida(t) ==
  /\ En(t, {"cocina"}, "inserta")
  /\ LET p == peticion[t].p IN
     /\ IndiceAcepta(p) /\ SinConflicto(t, p)
     /\ salidas' = [salidas EXCEPT ![p] = @ + 1]
     /\ preparado' = [preparado EXCEPT ![p] = TRUE]
     /\ Commit(t, p, "EN_PREPARACION", pago[p])
  /\ UNCHANGED <<origen, control, ventana, kds, facturado, entradas, revertido, crudo, ciega>>

\* POST inventario/descontar-por-pedido takes no lock on the order.
Descontar(t) ==
  /\ En(t, {"descontar"}, "inserta")
  /\ IndiceAcepta(peticion[t].p)
  /\ salidas' = [salidas EXCEPT ![peticion[t].p] = @ + 1]
  /\ Termina(t)
  /\ UNCHANGED <<pedido, entradas, revertido, crudo, ciega>>

\* A 4xx or an error: a transition that is not allowed, a payment that cannot
\* be confirmed, stock already taken, an incomplete recipe, the unique index.
Rechazar(t) ==
  /\ EnCurso(t)
  /\ LET p == peticion[t].p
         a == peticion[t].a IN
     \/ En(t, {"confirmar"}, "decide") /\ ~Confirmable(t, p)
     \/ En(t, {"estado"}, "decide") /\ ~Avanza(t, p, a) /\ a # peticion[t].visto.estado
     \/ En(t, {"cocina"}, "decide") /\ ~(Cocinable(t, p, a) /\ SinConflicto(t, p))
     \/ En(t, {"descontar"}, "decide") /\ salidas[p] > 0
     \/ peticion[t].paso = "inserta"
  /\ Rollback(t)

-----------------------------------------------------------------------------
\* A deadlock is found by PostgreSQL, which aborts one of those in the cycle.
Pide(t) ==
  IF ~EnCurso(t) THEN {}
  ELSE IF peticion[t].paso = "expira" /\ peticion[t].filas # {} THEN {Siguiente(t)}
  ELSE IF peticion[t].paso = "toma" \/ (peticion[t].paso = "expira" /\ peticion[t].op # "listar")
  THEN {peticion[t].p}
  ELSE {}

Espera(t, u) == \E p \in Pide(t) : candado[p] = u /\ u # t

EnCiclo(t) ==
  \E C \in SUBSET Peticiones :
    t \in C /\ (\A u \in C : \E v \in C : Espera(u, v)) /\ (\A v \in C : \E u \in C : Espera(u, v))

AbortarVictima(t) == EnCiclo(t) /\ Rollback(t)

Paso(t) ==
  \/ ExpirarFila(t) \/ Listar(t) \/ Tomar(t)
  \/ (\E tarde \in BOOLEAN : ConfirmarPago(t, tarde)) \/ CambiarEstado(t) \/ Cocinar(t)
  \/ SinMovimiento(t) \/ CocinarConSalida(t) \/ Descontar(t)
  \/ Rechazar(t) \/ AbortarVictima(t)

Next ==
  \/ \E p \in Pedidos :
       \/ CrearMenu(p) \/ CierraVentana(p) \/ VenceKds(p)
       \/ /\ p \in Mostrador
          /\ \/ \E pagado \in BOOLEAN : CrearEnCaja(p, pagado)
             \/ Pagar(p)
             \/ \E n \in 1..Unidades, nulo \in BOOLEAN : Revertir(p, n, nulo)
  \/ \E t \in Peticiones :
       \/ \E op \in Operaciones : \E p \in Objetos(op), a \in Destinos(op) : Llega(t, op, p, a)
       \/ Paso(t)

Spec == Init /\ [][Next]_vars

\* A transaction that can go on does; a row is granted in the order of the
\* requests for it, so one that is released again and again is not missed.
Fairness ==
  \A t \in Peticiones :
    WF_vars(Paso(t)) /\ SF_vars(ExpirarFila(t)) /\ SF_vars(Tomar(t))

FairSpec == Spec /\ Fairness

-----------------------------------------------------------------------------
(* Correctness. *)

\* Type invariant.
TypeOK ==
  /\ origen \in [Pedidos -> {"", "MENU", "CAJA"}]
  /\ estado \in [Pedidos -> Estados]
  /\ pago \in [Pedidos -> Pagos]
  /\ control \in [Pedidos -> Pagos]
  /\ ventana \in [Pedidos -> {"sin", "abierta", "vencida"}]
  /\ kds \in [Pedidos -> BOOLEAN]
  /\ preparado \in [Pedidos -> BOOLEAN]
  /\ salidas \in [Pedidos -> Nat]
  /\ entradas \in [Pedidos -> 0..Unidades]
  /\ facturado \in [Pedidos -> BOOLEAN]
  /\ revertido \in [Pedidos -> 0..Unidades]
  /\ candado \in [Pedidos -> Peticiones \cup {Libre}]
  /\ peticion \in [Peticiones -> Peticion \cup {Ninguna}]
  /\ iniciado \in [Pedidos -> BOOLEAN] /\ crudo \in [Pedidos -> 0..Unidades]
  /\ ciega \in [Pedidos -> BOOLEAN]

\* However the kitchen, the endpoint of the inventory and the till interleave,
\* an order's ingredients leave the stock at most once: the check for an
\* existing movement is made before the INSERT and only the index is decisive.
DiscountedOnce == \A p \in Pedidos : salidas[p] <= 1

\* Reversals bring back no more than the order took from stock: an order that
\* was never discounted has nothing to return.
ReturnsWhatWasTaken == \A p \in Pedidos : entradas[p] <= Unidades * salidas[p]

\* However many reversals an order takes, before and after it was started by the
\* kitchen or the till: what came back to the stock is all that was reversed of a
\* product and, of a recipe, exactly what was reversed before anybody started it;
\* a recipe that came back whole is cancelled and was never started.  Excepted is
\* the order with a reversal that waited for its row, read no state, and found no
\* time of preparation, because it was started without one.
ReturnedIsNotCooked ==
  \A p \in Pedidos : ~ciega[p] =>
    /\ entradas[p] = IF p \in ConCocina THEN crudo[p] ELSE revertido[p]
    /\ p \in ConCocina /\ entradas[p] = Unidades => estado[p] = "CANCELADO" /\ ~iniciado[p]

\* What was settled stays settled: a confirmed payment is never timed out by
\* the sweep of another request, and no request brings a cancelled order back.
SettledStays ==
  [][\A p \in Pedidos :
       /\ pago[p] = "PAGADO_CONFIRMADO" => pago'[p] # "CANCELADO_TIMEOUT"
       /\ estado[p] = "CANCELADO" => estado'[p] = "CANCELADO"]_vars

\* Every request gets its answer: none waits for a row for ever.
RequestsEnd == \A t \in Peticiones : EnCurso(t) ~> ~EnCurso(t)
=============================================================================
