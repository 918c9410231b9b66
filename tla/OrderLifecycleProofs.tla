------------------------ MODULE OrderLifecycleProofs ------------------------
(***************************************************************************)
(* Theorems of OrderLifecycle for any number of orders, connections and    *)
(* units.  What a transaction read of its order is still true when it      *)
(* writes, because it holds the row: Decides.                              *)
(***************************************************************************)
EXTENDS OrderLifecycle, WellFoundedInduction, TLAPS

\* A request names an order that exists, and asks for a state it may ask for.
Aims(t) ==
  /\ peticion[t].op # "listar" => Existe(peticion[t].p)
  /\ peticion[t].op = "listar" => peticion[t].paso = "expira"
  /\ peticion[t].op \in {"cocina", "descontar"} =>
       peticion[t].expirados = {} /\ peticion[t].paso # "expira"
  /\ peticion[t].op = "estado" => peticion[t].a \in {"EN_COCINA"} \cup Iniciados
  /\ peticion[t].op = "cocina" => peticion[t].a \in Iniciados
  /\ peticion[t].op = "cocina" /\ peticion[t].paso = "inserta" =>
       peticion[t].visto.estado = "EN_COCINA"

\* The rows a transaction expired are locked and still as it found them.
Sweeps(t) == \A q \in peticion[t].expirados : candado[q] = t /\ Expirable(q)

\* So is the order it decides on.
Decides(t) ==
  peticion[t].op \in {"confirmar", "estado", "cocina"} /\ peticion[t].paso \in {"decide", "inserta"}
    => candado[peticion[t].p] = t /\ peticion[t].visto = Ve(t, peticion[t].p)

RequestGood(t) == EnCurso(t) => Aims(t) /\ Sweeps(t) /\ Decides(t)

\* The history of the start agrees with the state and the times that are kept: an
\* order that was started stays among the started ones until it is returned whole,
\* and a whole return of what nobody had started is never started later.
Told(p) ==
  /\ estado[p] \in Iniciados => iniciado[p]
  /\ preparado[p] => iniciado[p]
  /\ iniciado[p] => estado[p] \in Iniciados \/ revertido[p] = Unidades
  /\ crudo[p] <= revertido[p]
  /\ ~iniciado[p] => crudo[p] = revertido[p]
  /\ iniciado[p] => crudo[p] # Unidades

\* An order that does not exist has left no trace; what came back to stock had
\* left it, was returned, and was not started; a whole return cancels.
OrderGood(p) ==
  /\ ~Existe(p) => /\ salidas[p] = 0 /\ entradas[p] = 0 /\ revertido[p] = 0
                   /\ ~facturado[p] /\ estado[p] # "CANCELADO" /\ ~iniciado[p]
  /\ salidas[p] <= 1
  /\ entradas[p] <= revertido[p]
  /\ entradas[p] > 0 => salidas[p] > 0
  /\ revertido[p] = Unidades => estado[p] = "CANCELADO"
  /\ ~ciega[p] => entradas[p] = IF p \in ConCocina THEN crudo[p] ELSE revertido[p]
  /\ Told(p)

IInv ==
  /\ TypeOK
  /\ \A t \in Peticiones : RequestGood(t)
  /\ \A p \in Pedidos : OrderGood(p)

USE OrderAssumption
-----------------------------------------------------------------------------
\* Of some rows one is the first: the UPDATE has a next row to reach.
LEMMA FirstRow ==
  ASSUME NEW T \in SUBSET Nat, T # {}
  PROVE  \E x \in T : \A y \in T : x <= y
<1>. DEFINE R == OpToRel(<, Nat)
<1>1. IsWellFoundedOn(R, Nat)
  BY NatLessThanWellFounded
<1>2. \A x, y \in Nat : y < x => <<y, x>> \in R
  BY DEF OpToRel
<1>. HIDE DEF R
<1>3. PICK x \in T : \A y \in T : ~ (<<y, x>> \in R)
  BY <1>1, WFMin
<1>4. ASSUME NEW y \in T PROVE x <= y
  <2>1. x \in Nat /\ y \in Nat
    OBVIOUS
  <2>2. ~ (y < x)
    BY <1>2, <1>3, <2>1, Zenon
  <2>. QED  BY <2>1, <2>2
<1>. QED  BY <1>4

\* A connection that serves a request serves a well-formed one.
LEMMA RequestType ==
  ASSUME TypeOK, NEW t \in Peticiones, EnCurso(t)
  PROVE  /\ peticion[t] \in Peticion
         /\ peticion[t].op \in Operaciones /\ peticion[t].p \in Pedidos
         /\ peticion[t].a \in Estados
         /\ peticion[t].paso \in {"expira", "toma", "decide", "inserta"}
         /\ peticion[t].filas \in SUBSET Pedidos
         /\ peticion[t].expirados \in SUBSET Pedidos
         /\ peticion[t].visto \in [estado : Estados, pago : Pagos]
<1>1. peticion[t] \in Peticion \cup {Ninguna}
  BY DEF TypeOK
<1>2. peticion[t] # Ninguna
  BY DEF EnCurso, Ninguna
<1>3. peticion[t] \in Peticion
  BY <1>1, <1>2
<1>. QED  BY <1>3 DEF Peticion

LEMMA VeType ==
  ASSUME TypeOK, NEW t \in Peticiones, NEW p \in Pedidos
  PROVE  Ve(t, p) \in [estado : Estados, pago : Pagos]
BY DEF Ve, TypeOK, Estados, Pagos

LEMMA InicialType ==
  ASSUME NEW p, NEW quien, NEW pagado
  PROVE  Inicial(p, quien, pagado) \in Estados /\ Inicial(p, quien, pagado) # "CANCELADO"
BY DEF Inicial, Estados, Iniciados

\* The end of a transaction frees its own rows and no others.
LEMMA TerminaRows ==
  ASSUME TypeOK, NEW t \in Peticiones, Termina(t)
  PROVE  /\ peticion' \in [Peticiones -> Peticion \cup {Ninguna}]
         /\ candado' \in [Pedidos -> Peticiones \cup {Libre}]
         /\ peticion'[t] = Ninguna
         /\ \A u \in Peticiones \ {t} : peticion'[u] = peticion[u]
         /\ \A q \in Pedidos : candado[q] # t => candado'[q] = candado[q]
BY DEF TypeOK, Termina

\* A commit writes the rows it expired and its order.
LEMMA CommitRows ==
  ASSUME TypeOK, NEW t \in Peticiones, EnCurso(t), NEW p \in Pedidos,
         NEW e \in Estados, NEW g \in Pagos, Commit(t, p, e, g)
  PROVE  /\ Termina(t)
         /\ estado' \in [Pedidos -> Estados] /\ pago' \in [Pedidos -> Pagos]
         /\ estado'[p] = e /\ pago'[p] = g
         /\ iniciado' \in [Pedidos -> BOOLEAN]
         /\ iniciado'[p] <=> iniciado[p] \/ e \in Iniciados
         /\ \A q \in Pedidos \ {p} : iniciado'[q] = iniciado[q]
         /\ \A q \in Pedidos \ {p} :
              IF q \in peticion[t].expirados
              THEN estado'[q] = "CANCELADO" /\ pago'[q] = "CANCELADO_TIMEOUT"
              ELSE estado'[q] = estado[q] /\ pago'[q] = pago[q]
<1>1. Vencidos(peticion[t].expirados, estado, "CANCELADO") \in [Pedidos -> Estados]
  BY DEF Vencidos, TypeOK, Estados
<1>2. Vencidos(peticion[t].expirados, pago, "CANCELADO_TIMEOUT") \in [Pedidos -> Pagos]
  BY DEF Vencidos, TypeOK, Pagos
<1>3. /\ iniciado' \in [Pedidos -> BOOLEAN]
      /\ iniciado'[p] <=> iniciado[p] \/ e \in Iniciados
      /\ \A q \in Pedidos \ {p} : iniciado'[q] = iniciado[q]
  <2>1. iniciado \in [Pedidos -> BOOLEAN] /\ iniciado' = [iniciado EXCEPT ![p] = @ \/ e \in Iniciados]
    BY DEF TypeOK, Commit
  <2>. QED  BY <2>1, Zenon
<1>. QED  BY <1>1, <1>2, <1>3 DEF Commit, Vencidos

-----------------------------------------------------------------------------
\* A request that is not touched stays good as long as nobody writes, or takes
\* the lock of, a row that it holds.
LEMMA RequestKept ==
  ASSUME TypeOK, NEW u \in Peticiones, RequestGood(u), peticion'[u] = peticion[u],
         NEW R \in SUBSET Pedidos,
         \A q \in R : candado[q] # u \/ ~Existe(q),
         \A q \in Pedidos \ R :
           /\ estado'[q] = estado[q] /\ pago'[q] = pago[q] /\ origen'[q] = origen[q]
           /\ ventana[q] = "vencida" => ventana'[q] = "vencida",
         \A q \in Pedidos : candado[q] = u => candado'[q] = u,
         \A q \in Pedidos : Existe(q) => Existe(q)'
  PROVE  RequestGood(u)'
<1>. SUFFICES ASSUME EnCurso(u)' PROVE Aims(u)' /\ Sweeps(u)' /\ Decides(u)'
  BY DEF RequestGood
<1>1. EnCurso(u) /\ Aims(u) /\ Sweeps(u) /\ Decides(u)
  BY DEF RequestGood, EnCurso
<1>2. peticion[u].p \in Pedidos /\ peticion[u].expirados \subseteq Pedidos
  BY <1>1, RequestType
<1>3. Aims(u)'
  BY <1>1, <1>2 DEF Aims
<1>4. \A q \in peticion[u].expirados : q \notin R
  BY <1>1, <1>2 DEF Sweeps, Expirable, Existe
<1>5. Sweeps(u)'
  BY <1>1, <1>2, <1>4 DEF Sweeps, Expirable
<1>6. Decides(u)'
  <2>. SUFFICES ASSUME peticion[u].op \in {"confirmar", "estado", "cocina"},
                       peticion[u].paso \in {"decide", "inserta"}
                PROVE  candado'[peticion[u].p] = u /\ peticion[u].visto = Ve(u, peticion[u].p)'
    BY DEF Decides
  <2>1. candado[peticion[u].p] = u /\ peticion[u].visto = Ve(u, peticion[u].p)
    BY <1>1 DEF Decides
  <2>2. peticion[u].p \notin R
    BY <1>1, <1>2, <2>1 DEF Aims
  <2>. QED  BY <2>1, <2>2, <1>2 DEF Ve
<1>. QED  BY <1>3, <1>5, <1>6

LEMMA RequestUntouched ==
  ASSUME TypeOK, NEW u \in Peticiones, RequestGood(u), peticion'[u] = peticion[u],
         UNCHANGED <<estado, pago, origen>>,
         \A q \in Pedidos : ventana[q] = "vencida" => ventana'[q] = "vencida",
         \A q \in Pedidos : candado[q] = u => candado'[q] = u
  PROVE  RequestGood(u)'
<1>. DEFINE R == {}
<1>1. /\ R \in SUBSET Pedidos /\ \A q \in R : candado[q] # u \/ ~Existe(q)
      /\ \A q \in Pedidos : Existe(q) => Existe(q)'
  BY DEF Existe
<1>2. \A q \in Pedidos \ R :
        /\ estado'[q] = estado[q] /\ pago'[q] = pago[q] /\ origen'[q] = origen[q]
        /\ ventana[q] = "vencida" => ventana'[q] = "vencida"
  OBVIOUS
<1>. HIDE DEF R
<1>. QED  BY <1>1, <1>2, RequestKept

\* A connection whose request has ended is good again.
LEMMA IdleGood ==
  ASSUME NEW t \in Peticiones, peticion'[t] = Ninguna
  PROVE  RequestGood(t)'
BY DEF RequestGood, EnCurso, Ninguna

\* What a step may do to the state and the payment of order p.
Settled(p) ==
  /\ pago[p] = "PAGADO_CONFIRMADO" => pago'[p] # "CANCELADO_TIMEOUT"
  /\ estado[p] = "CANCELADO" => estado'[p] = "CANCELADO"

\* What a step may do to its start: an order that gets to a started state has been
\* started, and one that is there leaves only by a reversal.
Started(p) ==
  /\ \/ iniciado'[p] = iniciado[p] /\ (estado'[p] \in Iniciados => estado[p] \in Iniciados)
     \/ iniciado'[p] = TRUE /\ estado'[p] \in Iniciados
  /\ estado[p] \in Iniciados => estado'[p] \in Iniciados

\* An order whose inventory and preparation do not change stays good.
LEMMA OrderKept ==
  ASSUME TypeOK, NEW p \in Pedidos, OrderGood(p), Settled(p), Started(p),
         salidas'[p] = salidas[p], entradas'[p] = entradas[p],
         revertido'[p] = revertido[p], preparado'[p] = preparado[p],
         crudo'[p] = crudo[p], ciega'[p] = ciega[p],
         Existe(p) => Existe(p)',
         ~Existe(p)' => ~facturado'[p] /\ estado'[p] = estado[p]
  PROVE  OrderGood(p)'
<1>1. ~Existe(p)' => ~Existe(p) /\ ~iniciado'[p]
  BY DEF OrderGood, Told, Started
<1>2. crudo[p] \in 0..Unidades /\ revertido[p] \in 0..Unidades
  BY DEF TypeOK
<1>3. "CANCELADO" \notin Iniciados
  BY DEF Iniciados
<1>4. crudo[p] = Unidades => revertido[p] = Unidades
  BY <1>2 DEF OrderGood, Told
<1>5. Told(p)'
  <2>1. CASE iniciado'[p] = iniciado[p] /\ (estado'[p] \in Iniciados => estado[p] \in Iniciados)
    BY <2>1, <1>2 DEF OrderGood, Told, Started
  <2>2. CASE iniciado'[p] = TRUE /\ estado'[p] \in Iniciados
    BY <2>2, <1>2, <1>3, <1>4 DEF OrderGood, Told, Settled
  <2>. QED  BY <2>1, <2>2 DEF Started
<1>. QED  BY <1>1, <1>5 DEF OrderGood, Settled

\* A commit that writes what Ve shows of its order, or something that respects
\* a settled order, leaves every order settled and every request good.
LEMMA CommitGood ==
  ASSUME TypeOK, \A u \in Peticiones : RequestGood(u),
         NEW t \in Peticiones, EnCurso(t), NEW e \in Estados, NEW g \in Pagos,
         Commit(t, peticion[t].p, e, g),
         UNCHANGED <<origen, ventana>>,
         \/ candado[peticion[t].p] = t
         \/ [estado |-> e, pago |-> g] = Ve(t, peticion[t].p),
         peticion[t].p \notin peticion[t].expirados =>
           /\ estado[peticion[t].p] = "CANCELADO" => e = "CANCELADO"
           /\ pago[peticion[t].p] = "PAGADO_CONFIRMADO" => g # "CANCELADO_TIMEOUT"
           /\ estado[peticion[t].p] \in Iniciados => e \in Iniciados
  PROVE  /\ \A u \in Peticiones : RequestGood(u)'
         /\ \A q \in Pedidos : Settled(q) /\ Started(q)
         /\ \A q \in Pedidos : q # peticion[t].p /\ ~Existe(q) => estado'[q] = estado[q]
<1>. DEFINE p == peticion[t].p
            E == peticion[t].expirados
<1>1. p \in Pedidos /\ E \subseteq Pedidos /\ Sweeps(t)
  BY RequestType DEF RequestGood
<1>2. /\ Termina(t)
      /\ estado'[p] = e /\ pago'[p] = g
      /\ \A q \in Pedidos \ {p} :
           IF q \in E
           THEN estado'[q] = "CANCELADO" /\ pago'[q] = "CANCELADO_TIMEOUT"
           ELSE estado'[q] = estado[q] /\ pago'[q] = pago[q]
  BY <1>1, CommitRows
<1>3. \A q \in E : /\ candado[q] = t /\ Existe(q)
                   /\ estado[q] = "PENDIENTE" /\ pago[q] = "PENDIENTE_VALIDACION"
  BY <1>1 DEF Sweeps, Expirable, Existe
<1>4. \A q \in Pedidos : Settled(q)
  BY <1>1, <1>2, <1>3 DEF Settled
<1>5. ASSUME NEW u \in Peticiones PROVE RequestGood(u)'
  <2>1. CASE u = t
    BY <2>1, <1>2, TerminaRows, IdleGood
  <2>2. CASE u # t
    <3>. DEFINE R == {q \in Pedidos : candado[q] = t}
    <3>1. peticion'[u] = peticion[u] /\ \A q \in Pedidos : candado[q] = u => candado'[q] = u
      BY <2>2, <1>2, TerminaRows
    <3>2. p \notin R => estado'[p] = estado[p] /\ pago'[p] = pago[p]
      BY <1>1, <1>2, <1>3 DEF Ve
    <3>3. \A q \in Pedidos \ R : estado'[q] = estado[q] /\ pago'[q] = pago[q]
      BY <1>1, <1>2, <1>3, <3>2
    <3>4. \A q \in R : candado[q] # u
      BY <2>2
    <3>5. R \in SUBSET Pedidos
      OBVIOUS
    <3>6. \A q \in Pedidos : Existe(q) => Existe(q)'
      BY DEF Existe
    <3>. HIDE DEF R
    <3>7. \A q \in Pedidos \ R : /\ estado'[q] = estado[q] /\ pago'[q] = pago[q] /\ origen'[q] = origen[q]
                                 /\ ventana[q] = "vencida" => ventana'[q] = "vencida"
      BY <3>3
    <3>. QED  BY <3>1, <3>4, <3>5, <3>6, <3>7, RequestKept
  <2>. QED  BY <2>1, <2>2
<1>6. \A q \in Pedidos : q # p /\ ~Existe(q) => estado'[q] = estado[q]
  BY <1>2, <1>3
<1>7. ASSUME NEW q \in Pedidos PROVE Started(q)
  <2>1. /\ iniciado'[p] <=> iniciado[p] \/ e \in Iniciados
        /\ \A r \in Pedidos \ {p} : iniciado'[r] = iniciado[r]
        /\ iniciado \in [Pedidos -> BOOLEAN] /\ iniciado' \in [Pedidos -> BOOLEAN]
    BY <1>1, CommitRows DEF TypeOK
  <2>2. "CANCELADO" \notin Iniciados /\ "PENDIENTE" \notin Iniciados
    BY DEF Iniciados
  <2>3. CASE q = p
    <3>1. estado[p] \in Iniciados => e \in Iniciados
      BY <1>3, <2>2
    <3>. QED  BY <1>1, <1>2, <2>1, <2>3, <3>1 DEF Started
  <2>4. CASE q # p
    BY <1>2, <1>3, <2>1, <2>2, <2>4 DEF Started
  <2>. QED  BY <2>3, <2>4
<1>. QED  BY <1>4, <1>5, <1>6, <1>7
-----------------------------------------------------------------------------
\* The till, the menu and time: steps that touch one row that is free, or that
\* does not exist yet, and leave the requests alone.
LEMMA CrearGood ==
  ASSUME IInv, NEW p \in Pedidos, ~Existe(p), origen' = [origen EXCEPT ![p] = "MENU"] \/ origen' = [origen EXCEPT ![p] = "CAJA"],
         UNCHANGED <<candado, peticion>>,
         \A q \in Pedidos \ {p} : estado'[q] = estado[q] /\ pago'[q] = pago[q] /\ ventana'[q] = ventana[q]
  PROVE  /\ \A u \in Peticiones : RequestGood(u)'
         /\ \A q \in Pedidos : Existe(q) => Existe(q)'
         /\ Existe(p)'
<1>1. Existe(p)' /\ \A q \in Pedidos \ {p} : origen'[q] = origen[q]
  BY DEF IInv, TypeOK, Existe
<1>2. \A q \in Pedidos : Existe(q) => Existe(q)'
  BY <1>1 DEF Existe
<1>3. ASSUME NEW u \in Peticiones PROVE RequestGood(u)'
  BY <1>1, <1>2, RequestKept, {p} \in SUBSET Pedidos DEF IInv
<1>. QED  BY <1>1, <1>2, <1>3

LEMMA CrearMenuStep ==
  ASSUME IInv, NEW p \in Pedidos, CrearMenu(p)
  PROVE  IInv' /\ \A q \in Pedidos : Settled(q)
<1>1. TypeOK'
  BY DEF IInv, TypeOK, CrearMenu, Crear, Pagos
<1>2. /\ \A u \in Peticiones : RequestGood(u)'
      /\ \A q \in Pedidos : Existe(q) => Existe(q)'
      /\ Existe(p)'
  BY CrearGood DEF IInv, TypeOK, CrearMenu, Crear
<1>3. ASSUME NEW q \in Pedidos PROVE Settled(q) /\ Started(q)
  BY DEF IInv, TypeOK, CrearMenu, Settled, Started
<1>4. ASSUME NEW q \in Pedidos PROVE OrderGood(q)'
  <2>1. q # p => facturado'[q] = facturado[q] /\ origen'[q] = origen[q]
    <3>1. facturado' = [facturado EXCEPT ![p] = FALSE] /\ origen' = [origen EXCEPT ![p] = "MENU"]
      BY DEF CrearMenu, Crear
    <3>. QED  BY <3>1 DEF IInv, TypeOK
  <2>2. ~Existe(q)' => q # p /\ ~Existe(q) /\ ~facturado'[q]
    BY <1>2, <2>1 DEF IInv, OrderGood, Existe
  <2>. QED  BY <1>2, <1>3, <2>2, OrderKept DEF IInv, CrearMenu, Crear
<1>. QED  BY <1>1, <1>2, <1>3, <1>4 DEF IInv

LEMMA CrearEnCajaStep ==
  ASSUME IInv, NEW p \in Pedidos, NEW pagado \in BOOLEAN, CrearEnCaja(p, pagado)
  PROVE  IInv' /\ \A q \in Pedidos : Settled(q)
<1>. USE DEF CrearEnCaja, Crear
<1>1. Inicial(p, "CAJA", pagado) \in Estados /\ Inicial(p, "CAJA", pagado) # "CANCELADO"
  BY InicialType
<1>7. /\ iniciado' \in [Pedidos -> BOOLEAN]
      /\ iniciado'[p] <=> iniciado[p] \/ Inicial(p, "CAJA", pagado) \in Iniciados
      /\ \A q \in Pedidos \ {p} : iniciado'[q] = iniciado[q]
  <2>1. /\ iniciado \in [Pedidos -> BOOLEAN]
        /\ iniciado' = [iniciado EXCEPT ![p] = @ \/ Inicial(p, "CAJA", pagado) \in Iniciados]
    BY DEF IInv, TypeOK
  <2>. HIDE DEF CrearEnCaja, Crear
  <2>. QED  BY <2>1, Zenon
<1>2. TypeOK'
  <2>1. salidas \in [Pedidos -> Nat] /\ salidas' = [salidas EXCEPT ![p] = @ + 1]
    BY DEF IInv, TypeOK
  <2>2. salidas' \in [Pedidos -> Nat]
    BY <2>1
  <2>3. estado' \in [Pedidos -> Estados]
    BY <1>1 DEF IInv, TypeOK
  <2>4. pago' \in [Pedidos -> Pagos] /\ control' \in [Pedidos -> Pagos]
    BY DEF IInv, TypeOK, Pagos
  <2>5. origen' \in [Pedidos -> {"", "MENU", "CAJA"}] /\ facturado' \in [Pedidos -> BOOLEAN]
    BY DEF IInv, TypeOK
  <2>6. iniciado' \in [Pedidos -> BOOLEAN]
    BY <1>7
  <2>. QED  BY <2>2, <2>3, <2>4, <2>5, <2>6 DEF IInv, TypeOK
<1>3. /\ \A u \in Peticiones : RequestGood(u)'
      /\ \A q \in Pedidos : Existe(q) => Existe(q)'
      /\ Existe(p)'
  BY CrearGood DEF IInv, TypeOK
<1>4. ~Existe(p) /\ OrderGood(p)
  BY DEF IInv
<1>5. ASSUME NEW q \in Pedidos PROVE Settled(q)
  BY <1>4 DEF IInv, TypeOK, Settled, OrderGood
<1>6. ASSUME NEW q \in Pedidos PROVE OrderGood(q)'
  <2>1. CASE q = p
    <3>1. /\ salidas'[p] = salidas[p] + 1 /\ entradas'[p] = entradas[p]
          /\ revertido'[p] = revertido[p] /\ salidas[p] \in Nat
          /\ crudo'[p] = crudo[p] /\ ciega'[p] = ciega[p] /\ preparado'[p] = preparado[p]
          /\ crudo[p] \in 0..Unidades /\ revertido[p] = 0 /\ ~preparado[p]
          /\ estado'[p] = Inicial(p, "CAJA", pagado)
      BY <1>4 DEF IInv, TypeOK, OrderGood, Told
    <3>2. crudo[p] = 0 /\ Unidades # 0
      BY <1>4, <3>1 DEF OrderGood, Told
    <3>3. Told(p)'
      BY <1>4, <1>7, <3>1, <3>2 DEF OrderGood, Told
    <3>. QED  BY <1>3, <1>4, <2>1, <3>1, <3>2, <3>3 DEF OrderGood
  <2>2. CASE q # p
    <3>1. /\ salidas'[q] = salidas[q] /\ facturado'[q] = facturado[q]
          /\ estado'[q] = estado[q] /\ origen'[q] = origen[q]
      BY <2>2 DEF IInv, TypeOK
    <3>2. Started(q)
      BY <1>7, <2>2, <3>1 DEF Started
    <3>. QED  BY <1>3, <1>5, <3>1, <3>2, OrderKept DEF IInv, Existe, OrderGood
  <2>. QED  BY <2>1, <2>2
<1>. QED  BY <1>2, <1>3, <1>5, <1>6 DEF IInv

LEMMA TimeStep ==
  ASSUME IInv, NEW p \in Pedidos, CierraVentana(p) \/ VenceKds(p)
  PROVE  IInv' /\ \A q \in Pedidos : Settled(q)
<1>. USE DEF CierraVentana, VenceKds
<1>1. TypeOK'
  <2>1. /\ ventana' \in [Pedidos -> {"sin", "abierta", "vencida"}]
        /\ kds' \in [Pedidos -> BOOLEAN]
    <3>1. ventana' = ventana \/ ventana' = [ventana EXCEPT ![p] = "vencida"]
      OBVIOUS
    <3>2. kds' = kds \/ kds' = [kds EXCEPT ![p] = TRUE]
      OBVIOUS
    <3>3. /\ ventana \in [Pedidos -> {"sin", "abierta", "vencida"}]
          /\ kds \in [Pedidos -> BOOLEAN]
      BY DEF IInv, TypeOK
    <3>. QED  BY <3>1, <3>2, <3>3
  <2>2. UNCHANGED <<origen, estado, pago, control, preparado, facturado, iniciado, inventario,
                    candado, peticion>>
    OBVIOUS
  <2>. QED  BY <2>1, <2>2 DEF IInv, TypeOK, inventario
<1>2. UNCHANGED <<origen, estado, pago, preparado, facturado, iniciado, inventario, candado, peticion>>
  OBVIOUS
<1>3. \A q \in Pedidos : ventana[q] = "vencida" => ventana'[q] = "vencida"
  <2>1. ventana' = ventana \/ ventana' = [ventana EXCEPT ![p] = "vencida"]
    OBVIOUS
  <2>. QED  BY <2>1 DEF IInv, TypeOK
<1>4. ASSUME NEW u \in Peticiones PROVE RequestGood(u)'
  BY <1>2, <1>3, RequestUntouched DEF IInv, Existe
<1>5. ASSUME NEW q \in Pedidos PROVE Settled(q)
  BY <1>2 DEF IInv, TypeOK, Settled
<1>6. ASSUME NEW q \in Pedidos PROVE OrderGood(q)'
  BY <1>2 DEF IInv, OrderGood, Told, Existe, inventario
<1>. QED  BY <1>1, <1>4, <1>5, <1>6 DEF IInv

LEMMA PagarStep ==
  ASSUME IInv, NEW p \in Pedidos, Pagar(p)
  PROVE  IInv' /\ \A q \in Pedidos : Settled(q)
<1>. USE DEF Pagar
<1>1. TypeOK'
  BY DEF IInv, TypeOK, Pagos, inventario
<1>2. \A q \in Pedidos \ {p} : pago'[q] = pago[q] /\ ventana'[q] = ventana[q]
  BY DEF IInv, TypeOK
<1>3. ASSUME NEW u \in Peticiones PROVE RequestGood(u)'
  <2>. DEFINE R == {p}
  <2>1. \A q \in R : candado[q] # u
    OBVIOUS
  <2>2. UNCHANGED <<origen, estado, candado, peticion>> /\ RequestGood(u) /\ TypeOK
    BY DEF IInv
  <2>3. \A q \in Pedidos \ R :
          /\ estado'[q] = estado[q] /\ pago'[q] = pago[q] /\ origen'[q] = origen[q]
          /\ ventana[q] = "vencida" => ventana'[q] = "vencida"
    BY <1>2, <2>2
  <2>4. /\ peticion'[u] = peticion[u]
        /\ \A q \in Pedidos : candado[q] = u => candado'[q] = u
        /\ \A q \in Pedidos : Existe(q) => Existe(q)'
    BY <2>2 DEF Existe
  <2>5. R \in SUBSET Pedidos
    OBVIOUS
  <2>. HIDE DEF Pagar, R
  <2>. QED  BY <2>1, <2>2, <2>3, <2>4, <2>5, RequestKept
<1>4. ASSUME NEW q \in Pedidos PROVE Settled(q) /\ Started(q)
  BY DEF IInv, TypeOK, Settled, Started
<1>5. ASSUME NEW q \in Pedidos PROVE OrderGood(q)'
  <2>1. ~Existe(q)' => ~facturado'[q]
    BY DEF IInv, TypeOK, OrderGood, Existe
  <2>. QED  BY <1>4, <2>1, OrderKept DEF IInv, Existe, inventario
<1>. QED  BY <1>1, <1>3, <1>4, <1>5 DEF IInv

\* A reversal needs the movement it undoes, and the row of the order.
LEMMA RevertirStep ==
  ASSUME IInv, NEW p \in Pedidos, NEW n \in 1..Unidades, NEW nulo \in BOOLEAN,
         Revertir(p, n, nulo)
  PROVE  IInv' /\ \A q \in Pedidos : Settled(q)
<1>. USE DEF Revertir, Devolver
<1>. DEFINE total == PierdeElPedido(p, n)
            m     == Objetivo(p, n, nulo)
<1>1. /\ n \in Nat /\ n > 0
      /\ revertido[p] \in 0..Unidades /\ revertido[p] + n <= Unidades
      /\ entradas[p] \in 0..Unidades /\ entradas[p] <= revertido[p]
      /\ crudo[p] \in 0..Unidades /\ crudo[p] <= revertido[p]
  <2>1. n \in Nat /\ n > 0 /\ revertido[p] + n <= Unidades
    OBVIOUS
  <2>2. /\ revertido[p] \in 0..Unidades /\ entradas[p] \in 0..Unidades
        /\ crudo[p] \in 0..Unidades
    BY DEF IInv, TypeOK
  <2>3. OrderGood(p)
    BY DEF IInv
  <2>. HIDE DEF Revertir, Devolver
  <2>. QED  BY <2>1, <2>2, <2>3 DEF OrderGood, Told
<1>2. /\ m \in 0..Unidades
      /\ m = IF Vuelve(p, nulo) THEN revertido[p] + n ELSE entradas[p]
  BY <1>1 DEF Objetivo
<1>3. /\ estado' = [estado EXCEPT ![p] = IF total THEN "CANCELADO" ELSE @]
      /\ pago' = [pago EXCEPT ![p] = IF total THEN "PAGO_ANULADO" ELSE @]
      /\ revertido' = [revertido EXCEPT ![p] = @ + n]
      /\ entradas' = [entradas EXCEPT ![p] = m]
      /\ crudo' = [crudo EXCEPT ![p] = IF iniciado[p] THEN @ ELSE @ + n]
      /\ ciega' = [ciega EXCEPT ![p] = @ \/ (iniciado[p] /\ nulo /\ ~preparado[p])]
      /\ facturado[p] /\ candado[p] = Libre
      /\ salidas[p] = 0 => ~Vuelve(p, nulo)
      /\ UNCHANGED <<origen, control, ventana, kds, preparado, facturado, iniciado, salidas,
                     candado, peticion>>
  OBVIOUS
<1>. HIDE DEF Revertir, Devolver, m
<1>4. TypeOK'
  <2>1. estado' \in [Pedidos -> Estados] /\ pago' \in [Pedidos -> Pagos]
    BY <1>3 DEF IInv, TypeOK, Pagos, Estados
  <2>2. revertido' \in [Pedidos -> 0..Unidades] /\ crudo' \in [Pedidos -> 0..Unidades]
    <3>1. revertido[p] + n \in 0..Unidades /\ crudo[p] + n \in 0..Unidades
      BY <1>1
    <3>. QED  BY <1>3, <3>1 DEF IInv, TypeOK
  <2>3. entradas' \in [Pedidos -> 0..Unidades]
    BY <1>2, <1>3 DEF IInv, TypeOK
  <2>4. ciega' \in [Pedidos -> BOOLEAN]
    BY <1>3 DEF IInv, TypeOK
  <2>. QED  BY <1>3, <2>1, <2>2, <2>3, <2>4 DEF IInv, TypeOK
<1>5. \A q \in Pedidos \ {p} : /\ estado'[q] = estado[q] /\ pago'[q] = pago[q]
                               /\ revertido'[q] = revertido[q] /\ entradas'[q] = entradas[q]
                               /\ crudo'[q] = crudo[q] /\ ciega'[q] = ciega[q]
  BY <1>3 DEF IInv, TypeOK
<1>6. ASSUME NEW u \in Peticiones PROVE RequestGood(u)'
  <2>. DEFINE R == {p}
  <2>1. \A q \in R : candado[q] # u
    BY <1>3
  <2>2. UNCHANGED <<origen, ventana, candado, peticion>> /\ RequestGood(u) /\ TypeOK
    BY <1>3 DEF IInv
  <2>3. \A q \in Pedidos \ R :
          /\ estado'[q] = estado[q] /\ pago'[q] = pago[q] /\ origen'[q] = origen[q]
          /\ ventana[q] = "vencida" => ventana'[q] = "vencida"
    BY <1>5, <2>2
  <2>4. /\ peticion'[u] = peticion[u]
        /\ \A q \in Pedidos : candado[q] = u => candado'[q] = u
        /\ \A q \in Pedidos : Existe(q) => Existe(q)'
    BY <2>2 DEF Existe
  <2>5. R \in SUBSET Pedidos
    OBVIOUS
  <2>. HIDE DEF R
  <2>. QED  BY <2>1, <2>2, <2>3, <2>4, <2>5, RequestKept
<1>7. ASSUME NEW q \in Pedidos PROVE Settled(q)
  BY <1>3 DEF IInv, TypeOK, Settled
<1>8. OrderGood(p)'
  <2>1. OrderGood(p) /\ Told(p) /\ Existe(p) /\ Existe(p)'
    BY <1>3 DEF IInv, OrderGood, Existe
  <2>2. /\ revertido'[p] = revertido[p] + n /\ entradas'[p] = m
        /\ estado'[p] = IF total THEN "CANCELADO" ELSE estado[p]
        /\ crudo'[p] = IF iniciado[p] THEN crudo[p] ELSE crudo[p] + n
        /\ iniciado[p] /\ nulo /\ ~preparado[p] => ciega'[p]
        /\ ciega[p] => ciega'[p]
    BY <1>3 DEF IInv, TypeOK
  <2>3. salidas[p] \in Nat /\ salidas[p] <= 1
    BY <2>1 DEF IInv, TypeOK, OrderGood
  <2>4. revertido'[p] = Unidades <=> total
    BY <2>2 DEF PierdeElPedido
  <2>5. revertido[p] # Unidades
    BY <1>1
  <2>6. Told(p)'
    <3>1. "CANCELADO" \notin Iniciados
      BY DEF Iniciados
    <3>2. iniciado[p] => crudo'[p] = crudo[p] /\ crudo[p] # Unidades
      BY <2>1, <2>2 DEF Told
    <3>3. ~iniciado[p] => crudo'[p] = revertido'[p]
      BY <2>1, <2>2 DEF Told
    <3>4. crudo'[p] <= revertido'[p]
      BY <1>1, <2>2
    <3>5. iniciado[p] => estado'[p] \in Iniciados \/ revertido'[p] = Unidades
      BY <2>1, <2>2, <2>4, <2>5 DEF Told
    <3>6. /\ estado'[p] \in Iniciados => iniciado[p]
          /\ preparado[p] => iniciado[p]
      BY <2>1, <2>2, <3>1 DEF Told
    <3>. QED  BY <1>3, <3>2, <3>3, <3>4, <3>5, <3>6 DEF Told
  <2>7. ~ciega'[p] => entradas'[p] = IF p \in ConCocina THEN crudo'[p] ELSE revertido'[p]
    <3>. SUFFICES ASSUME ~ciega'[p]
                  PROVE  m = IF p \in ConCocina THEN crudo'[p] ELSE revertido'[p]
      BY <2>2
    <3>1. CASE p \notin ConCocina
      BY <1>2, <2>2, <3>1 DEF Vuelve
    <3>2. CASE p \in ConCocina /\ iniciado[p]
      <4>1. Preparada(p, nulo)
        BY <2>1, <2>2, <2>5, <3>2 DEF Preparada, Told
      <4>. QED  BY <1>2, <2>1, <2>2, <3>2, <4>1 DEF Vuelve, OrderGood
    <3>3. CASE p \in ConCocina /\ ~iniciado[p]
      <4>1. ~Preparada(p, nulo)
        BY <2>1, <3>3 DEF Preparada, Told
      <4>. QED  BY <1>2, <2>1, <2>2, <3>3, <4>1 DEF Vuelve, Told
    <3>. QED  BY <3>1, <3>2, <3>3
  <2>8. entradas'[p] <= revertido'[p] /\ (entradas'[p] > 0 => salidas[p] > 0)
    BY <1>1, <1>2, <1>3, <2>1, <2>2, <2>3 DEF OrderGood
  <2>. QED  BY <1>3, <2>1, <2>2, <2>3, <2>4, <2>6, <2>7, <2>8 DEF OrderGood
<1>9. ASSUME NEW q \in Pedidos, q # p PROVE OrderGood(q)'
  <2>1. UNCHANGED <<iniciado, preparado, salidas, origen, facturado>>
    BY <1>3
  <2>2. Started(q)
    BY <1>5, <1>9, <2>1 DEF Started
  <2>. QED  BY <1>5, <1>7, <1>9, <2>1, <2>2, OrderKept DEF IInv, Existe, OrderGood
<1>. QED  BY <1>4, <1>6, <1>7, <1>8, <1>9 DEF IInv
-----------------------------------------------------------------------------
\* The transactions.  Each is a commit, a rollback, or a step that only
\* remembers and locks.
LEMMA RollbackStep ==
  ASSUME IInv, NEW t \in Peticiones, Rollback(t)
  PROVE  IInv' /\ \A q \in Pedidos : Settled(q)
<1>. USE DEF Rollback
<1>1. /\ peticion' \in [Peticiones -> Peticion \cup {Ninguna}]
      /\ candado' \in [Pedidos -> Peticiones \cup {Libre}]
      /\ peticion'[t] = Ninguna
      /\ \A u \in Peticiones \ {t} : peticion'[u] = peticion[u]
      /\ \A q \in Pedidos : candado[q] # t => candado'[q] = candado[q]
  BY TerminaRows DEF IInv
<1>2. TypeOK'
  BY <1>1 DEF IInv, TypeOK, pedido, inventario
<1>3. ASSUME NEW u \in Peticiones PROVE RequestGood(u)'
  <2>1. CASE u = t
    BY <1>1, <2>1, IdleGood
  <2>2. CASE u # t
    <3>1. peticion'[u] = peticion[u] /\ \A q \in Pedidos : candado[q] = u => candado'[q] = u
      BY <1>1, <2>2
    <3>. QED  BY <3>1, RequestUntouched DEF IInv, pedido
  <2>. QED  BY <2>1, <2>2
<1>4. ASSUME NEW q \in Pedidos PROVE Settled(q)
  BY DEF IInv, TypeOK, Settled, pedido
<1>5. ASSUME NEW q \in Pedidos PROVE OrderGood(q)'
  BY DEF IInv, OrderGood, Told, Existe, pedido, inventario
<1>. QED  BY <1>2, <1>3, <1>4, <1>5 DEF IInv

\* A step of one request that changes at most who holds a row, in its favour.
LEMMA OwnStep ==
  ASSUME IInv, NEW t \in Peticiones, NEW r, peticion' = [peticion EXCEPT ![t] = r],
         r \in Peticion, UNCHANGED <<pedido, inventario>>,
         candado' \in [Pedidos -> Peticiones \cup {Libre}],
         \A q \in Pedidos : candado'[q] = candado[q] \/ (candado[q] \in {Libre, t} /\ candado'[q] = t),
         RequestGood(t)'
  PROVE  IInv' /\ \A q \in Pedidos : Settled(q)
<1>1. TypeOK'
  BY DEF IInv, TypeOK, pedido, inventario
<1>2. UNCHANGED <<estado, pago, origen, ventana>>
  BY DEF pedido
<1>3. ASSUME NEW u \in Peticiones PROVE RequestGood(u)'
  <2>1. CASE u # t
    <3>1. peticion'[u] = peticion[u] /\ \A q \in Pedidos : candado[q] = u => candado'[q] = u
      BY <2>1 DEF IInv, TypeOK
    <3>. QED  BY <3>1, <1>2, RequestUntouched DEF IInv
  <2>. QED  BY <2>1
<1>4. ASSUME NEW q \in Pedidos PROVE Settled(q)
  BY <1>2 DEF IInv, TypeOK, Settled
<1>5. ASSUME NEW q \in Pedidos PROVE OrderGood(q)'
  BY DEF IInv, OrderGood, Told, Existe, pedido, inventario
<1>. QED  BY <1>1, <1>3, <1>4, <1>5 DEF IInv

LEMMA LlegaStep ==
  ASSUME IInv, NEW t \in Peticiones, NEW op \in Operaciones, NEW p \in Objetos(op),
         NEW a \in Destinos(op), Llega(t, op, p, a)
  PROVE  IInv' /\ \A q \in Pedidos : Settled(q)
<1>. DEFINE r == [op |-> op, p |-> p, a |-> a, expirados |-> {}, visto |-> SinVisto,
                  paso |-> CASE op = "descontar" -> "decide"
                             [] op = "cocina" -> "toma"
                             [] OTHER -> "expira",
                  filas |-> IF op \in {"listar", "confirmar", "estado"}
                            THEN {q \in Pedidos : Expirable(q)} ELSE {}]
<1>1. p \in Pedidos /\ (op # "listar" => Existe(p))
  <2>1. 1 \in Pedidos
    BY DEF Pedidos
  <2>. QED  BY <2>1 DEF Objetos
<1>2. /\ a \in Estados
      /\ op = "estado" => a \in {"EN_COCINA"} \cup Iniciados
      /\ op = "cocina" => a \in Iniciados
  BY DEF Destinos, Estados, Iniciados
<1>3. op \in {"listar", "confirmar", "estado", "cocina", "descontar"}
  OBVIOUS
<1>4. r.paso \in {"expira", "toma", "decide", "inserta"}
  BY <1>3
<1>5. r.filas \in SUBSET Pedidos
  OBVIOUS
<1>6. SinVisto \in [estado : Estados, pago : Pagos]
  BY DEF SinVisto, Estados, Pagos
<1>7. r \in Peticion
  BY <1>1, <1>2, <1>4, <1>5, <1>6 DEF Peticion
<1>8. peticion' = [peticion EXCEPT ![t] = r] /\ UNCHANGED <<pedido, inventario, candado>>
  BY DEF Llega
<1>9. peticion'[t] = r
  BY <1>8 DEF IInv, TypeOK
<1>10. /\ op = "listar" => r.paso = "expira"
       /\ op \in {"confirmar", "estado"} => r.paso = "expira"
       /\ op = "cocina" => r.paso = "toma"
       /\ op \in {"cocina", "descontar"} => r.paso # "expira"
  BY <1>3
<1>11. RequestGood(t)'
  <2>1. /\ r.op = op /\ r.p = p /\ r.a = a /\ r.expirados = {}
        /\ op # "listar" => Existe(p)'
    BY <1>1, <1>8 DEF Existe, pedido
  <2>. HIDE DEF r
  <2>. QED  BY <1>2, <1>3, <1>9, <1>10, <2>1 DEF RequestGood, Aims, Sweeps, Decides
<1>12. candado' \in [Pedidos -> Peticiones \cup {Libre}]
  BY <1>8 DEF IInv, TypeOK
<1>. HIDE DEF r
<1>. QED  BY <1>7, <1>8, <1>11, <1>12, OwnStep

LEMMA ExpirarFilaStep ==
  ASSUME IInv, NEW t \in Peticiones, ExpirarFila(t)
  PROVE  IInv' /\ \A q \in Pedidos : Settled(q)
<1>. DEFINE q0 == Siguiente(t)
            X  == IF Recheck(q0) THEN peticion[t].expirados \cup {q0} ELSE peticion[t].expirados
            r  == [peticion[t] EXCEPT !.filas = @ \ {q0}, !.expirados = X]
<1>1. /\ EnCurso(t) /\ peticion[t].paso = "expira" /\ peticion[t].filas # {}
      /\ Tomable(t, q0) /\ candado' = [candado EXCEPT ![q0] = t]
      /\ UNCHANGED <<pedido, inventario>>
  BY DEF ExpirarFila
<1>2. /\ peticion[t] \in Peticion /\ peticion[t].filas \in SUBSET Pedidos
      /\ peticion[t].expirados \in SUBSET Pedidos
  BY <1>1, RequestType DEF IInv
<1>3. q0 \in peticion[t].filas
  <2>1. peticion[t].filas \in SUBSET Nat
    BY <1>2 DEF Pedidos
  <2>2. \E q \in peticion[t].filas : \A s \in peticion[t].filas : q <= s
    BY <1>1, <2>1, FirstRow
  <2>. QED  BY <2>2 DEF Siguiente
<1>4. X \in SUBSET Pedidos /\ peticion[t].filas \ {q0} \in SUBSET Pedidos
  BY <1>2, <1>3
<1>5. /\ r \in Peticion
      /\ r.op = peticion[t].op /\ r.p = peticion[t].p /\ r.a = peticion[t].a
      /\ r.paso = "expira" /\ r.expirados = X
  BY <1>1, <1>2, <1>4 DEF Peticion
<1>6. peticion' = [peticion EXCEPT ![t] = r]
  BY DEF ExpirarFila
<1>7. peticion'[t] = r
  BY <1>6 DEF IInv, TypeOK
<1>8. /\ candado' \in [Pedidos -> Peticiones \cup {Libre}] /\ candado'[q0] = t
      /\ \A q \in Pedidos \ {q0} : candado'[q] = candado[q]
      /\ candado[q0] \in {Libre, t}
  BY <1>1, <1>2, <1>3 DEF IInv, TypeOK, Tomable
<1>9. Aims(t) /\ Sweeps(t)
  BY <1>1 DEF IInv, RequestGood
<1>10. Aims(t)'
  BY <1>1, <1>5, <1>7, <1>9 DEF Aims, Existe, pedido
<1>11. Sweeps(t)'
  <2>. SUFFICES ASSUME NEW q \in X PROVE candado'[q] = t /\ Expirable(q)'
    BY <1>5, <1>7 DEF Sweeps
  <2>1. Expirable(q) /\ q \in Pedidos /\ (q = q0 \/ candado[q] = t)
    BY <1>4, <1>9 DEF Sweeps, Recheck
  <2>. QED  BY <1>1, <1>8, <2>1 DEF Expirable, pedido
<1>12. Decides(t)'
  BY <1>5, <1>7 DEF Decides
<1>13. RequestGood(t)'
  BY <1>10, <1>11, <1>12 DEF RequestGood
<1>14. /\ UNCHANGED <<pedido, inventario>>
       /\ \A q \in Pedidos : candado'[q] = candado[q] \/ (candado[q] \in {Libre, t} /\ candado'[q] = t)
  BY <1>1, <1>8
<1>. HIDE DEF r
<1>. QED  BY <1>5, <1>6, <1>8, <1>13, <1>14, OwnStep

LEMMA TomarStep ==
  ASSUME IInv, NEW t \in Peticiones, Tomar(t)
  PROVE  IInv' /\ \A q \in Pedidos : Settled(q)
<1>. DEFINE p == peticion[t].p
            r == [peticion[t] EXCEPT !.paso = "decide", !.visto = Ve(t, p)]
<1>1. /\ EnCurso(t) /\ Tomable(t, p) /\ candado' = [candado EXCEPT ![p] = t]
      /\ peticion' = [peticion EXCEPT ![t] = r]
      /\ UNCHANGED <<pedido, inventario>>
      /\ peticion[t].op \in {"confirmar", "estado", "cocina"}
  BY DEF Tomar, En
<1>2. peticion[t] \in Peticion /\ p \in Pedidos /\ peticion[t].expirados \in SUBSET Pedidos
  BY <1>1, RequestType DEF IInv
<1>3. Ve(t, p) \in [estado : Estados, pago : Pagos]
  BY <1>2, VeType DEF IInv
<1>4. /\ r \in Peticion
      /\ r.op = peticion[t].op /\ r.p = p /\ r.a = peticion[t].a
      /\ r.paso = "decide" /\ r.expirados = peticion[t].expirados /\ r.visto = Ve(t, p)
  BY <1>2, <1>3 DEF Peticion
<1>5. peticion'[t] = r
  BY <1>1 DEF IInv, TypeOK
<1>6. /\ candado' \in [Pedidos -> Peticiones \cup {Libre}] /\ candado'[p] = t
      /\ \A q \in Pedidos \ {p} : candado'[q] = candado[q]
      /\ candado[p] \in {Libre, t}
  BY <1>1, <1>2 DEF IInv, TypeOK, Tomable
<1>7. Aims(t) /\ Sweeps(t)
  BY <1>1 DEF IInv, RequestGood
<1>8. Aims(t)'
  BY <1>1, <1>4, <1>5, <1>7 DEF Aims, Existe, pedido
<1>9. Sweeps(t)'
  BY <1>1, <1>2, <1>4, <1>5, <1>6, <1>7 DEF Sweeps, Expirable, pedido
<1>10. Decides(t)'
  BY <1>1, <1>4, <1>5, <1>6, ZenonT(30) DEF Decides, Ve, pedido
<1>11. RequestGood(t)'
  BY <1>8, <1>9, <1>10 DEF RequestGood
<1>12. \A q \in Pedidos : candado'[q] = candado[q] \/ (candado[q] \in {Libre, t} /\ candado'[q] = t)
  BY <1>6
<1>. HIDE DEF r
<1>. QED  BY <1>1, <1>4, <1>6, <1>11, <1>12, OwnStep

LEMMA SinMovimientoStep ==
  ASSUME IInv, NEW t \in Peticiones, SinMovimiento(t)
  PROVE  IInv' /\ \A q \in Pedidos : Settled(q)
<1>. DEFINE r == [peticion[t] EXCEPT !.paso = "inserta"]
<1>1. /\ EnCurso(t) /\ peticion[t].paso = "decide"
      /\ peticion[t].op \in {"cocina", "descontar"}
      /\ peticion[t].op = "cocina" =>
           Cocinable(t, peticion[t].p, peticion[t].a) /\ peticion[t].a = "EN_PREPARACION"
      /\ peticion' = [peticion EXCEPT ![t] = r]
      /\ UNCHANGED <<pedido, inventario, candado>>
  BY DEF SinMovimiento, En
<1>2. peticion[t] \in Peticion
  BY <1>1, RequestType DEF IInv
<1>3. /\ r \in Peticion
      /\ r.op = peticion[t].op /\ r.p = peticion[t].p /\ r.a = peticion[t].a
      /\ r.paso = "inserta" /\ r.expirados = peticion[t].expirados /\ r.visto = peticion[t].visto
  BY <1>2 DEF Peticion
<1>4. peticion'[t] = r
  BY <1>1 DEF IInv, TypeOK
<1>5. Aims(t) /\ Sweeps(t) /\ Decides(t)
  BY <1>1 DEF IInv, RequestGood
<1>6. peticion[t].op = "cocina" => peticion[t].visto.estado = "EN_COCINA"
  BY <1>1 DEF Cocinable
<1>7. Aims(t)'
  BY <1>1, <1>3, <1>4, <1>5, <1>6 DEF Aims, Existe, pedido
<1>8. Sweeps(t)'
  BY <1>1, <1>3, <1>4, <1>5 DEF Sweeps, Aims
<1>9. Decides(t)'
  BY <1>1, <1>3, <1>4, <1>5 DEF Decides, Ve, pedido
<1>10. RequestGood(t)'
  BY <1>7, <1>8, <1>9 DEF RequestGood
<1>11. candado' \in [Pedidos -> Peticiones \cup {Libre}]
  BY <1>1 DEF IInv, TypeOK
<1>. HIDE DEF r
<1>. QED  BY <1>1, <1>3, <1>10, <1>11, OwnStep
-----------------------------------------------------------------------------
\* A commit that leaves the inventory and the preparation alone.
LEMMA PlainCommit ==
  ASSUME IInv, NEW t \in Peticiones, EnCurso(t), NEW e \in Estados, NEW g \in Pagos,
         Commit(t, peticion[t].p, e, g),
         UNCHANGED <<origen, control, ventana, kds, preparado, facturado, inventario>>,
         \/ candado[peticion[t].p] = t
         \/ [estado |-> e, pago |-> g] = Ve(t, peticion[t].p),
         \/ Existe(peticion[t].p)
         \/ [estado |-> e, pago |-> g] = Ve(t, peticion[t].p),
         peticion[t].p \notin peticion[t].expirados =>
           /\ estado[peticion[t].p] = "CANCELADO" => e = "CANCELADO"
           /\ pago[peticion[t].p] = "PAGADO_CONFIRMADO" => g # "CANCELADO_TIMEOUT"
           /\ estado[peticion[t].p] \in Iniciados => e \in Iniciados
  PROVE  IInv' /\ \A q \in Pedidos : Settled(q)
<1>. DEFINE p == peticion[t].p
<1>1. p \in Pedidos /\ peticion[t].expirados \in SUBSET Pedidos
  BY RequestType DEF IInv
<1>2. /\ Termina(t) /\ estado' \in [Pedidos -> Estados] /\ pago' \in [Pedidos -> Pagos]
      /\ estado'[p] = e /\ iniciado' \in [Pedidos -> BOOLEAN]
  BY <1>1, CommitRows DEF IInv
<1>3. TypeOK'
  <2>1. /\ peticion' \in [Peticiones -> Peticion \cup {Ninguna}]
        /\ candado' \in [Pedidos -> Peticiones \cup {Libre}]
    BY <1>2, TerminaRows DEF IInv
  <2>. QED  BY <1>2, <2>1 DEF IInv, TypeOK, inventario
<1>4. /\ \A u \in Peticiones : RequestGood(u)'
      /\ \A q \in Pedidos : Settled(q) /\ Started(q)
      /\ \A q \in Pedidos : q # p /\ ~Existe(q) => estado'[q] = estado[q]
  BY CommitGood DEF IInv
<1>5. ~Existe(p) => estado'[p] = estado[p]
  <2>1. Sweeps(t)
    BY DEF IInv, RequestGood
  <2>2. ~Existe(p) => p \notin peticion[t].expirados
    BY <2>1 DEF Sweeps, Expirable, Existe
  <2>. QED  BY <1>2, <2>2 DEF Ve
<1>6. ASSUME NEW q \in Pedidos PROVE OrderGood(q)'
  <2>1. ~Existe(q)' => ~facturado'[q] /\ estado'[q] = estado[q]
    BY <1>4, <1>5 DEF IInv, OrderGood, Existe
  <2>. QED  BY <1>4, <2>1, OrderKept DEF IInv, Existe, inventario
<1>. QED  BY <1>3, <1>4, <1>6 DEF IInv

LEMMA ListarStep ==
  ASSUME IInv, NEW t \in Peticiones, Listar(t)
  PROVE  IInv' /\ \A q \in Pedidos : Settled(q)
<1>. DEFINE p == peticion[t].p
            v == Ve(t, p)
<1>1. EnCurso(t) /\ Commit(t, p, v.estado, v.pago)
      /\ UNCHANGED <<origen, control, ventana, kds, preparado, facturado, inventario>>
  BY DEF Listar, En
<1>2. p \in Pedidos
  BY <1>1, RequestType DEF IInv
<1>3. v \in [estado : Estados, pago : Pagos]
  BY <1>2, VeType DEF IInv
<1>4. v.estado \in Estados /\ v.pago \in Pagos /\ [estado |-> v.estado, pago |-> v.pago] = v
  BY <1>3
<1>5. p \notin peticion[t].expirados => v.estado = estado[p] /\ v.pago = pago[p]
  BY DEF Ve
<1>. HIDE DEF v
<1>6. v = Ve(t, p)
  BY DEF v
<1>. QED  BY <1>1, <1>4, <1>5, <1>6, PlainCommit

\* What a decision of t was made on is what its order is, unless t expired it.
LEMMA DecidedOn ==
  ASSUME IInv, NEW t \in Peticiones, EnCurso(t),
         peticion[t].op \in {"confirmar", "estado", "cocina"},
         peticion[t].paso \in {"decide", "inserta"}
  PROVE  /\ peticion[t].p \in Pedidos /\ Existe(peticion[t].p)
         /\ candado[peticion[t].p] = t
         /\ peticion[t].visto = Ve(t, peticion[t].p)
         /\ IF peticion[t].p \in peticion[t].expirados
            THEN peticion[t].visto = [estado |-> "CANCELADO", pago |-> "CANCELADO_TIMEOUT"]
            ELSE /\ peticion[t].visto.estado = estado[peticion[t].p]
                 /\ peticion[t].visto.pago = pago[peticion[t].p]
<1>1. peticion[t].p \in Pedidos
  BY RequestType DEF IInv
<1>2. Existe(peticion[t].p) /\ candado[peticion[t].p] = t /\ peticion[t].visto = Ve(t, peticion[t].p)
  BY DEF IInv, RequestGood, Aims, Decides
<1>. QED  BY <1>1, <1>2 DEF Ve

LEMMA ConfirmarPagoStep ==
  ASSUME IInv, NEW t \in Peticiones, NEW tarde \in BOOLEAN, ConfirmarPago(t, tarde)
  PROVE  IInv' /\ \A q \in Pedidos : Settled(q)
<1>. DEFINE p == peticion[t].p
            e == IF tarde \/ estado[p] # "PENDIENTE" THEN estado[p] ELSE Inicial(p, origen[p], TRUE)
            g == IF tarde THEN "CANCELADO_TIMEOUT" ELSE "PAGADO_CONFIRMADO"
<1>1. /\ EnCurso(t) /\ peticion[t].op = "confirmar" /\ peticion[t].paso = "decide"
      /\ Confirmable(t, p)
      /\ UNCHANGED <<origen, control, ventana, kds, preparado, facturado, inventario>>
  BY DEF ConfirmarPago, En
<1>2. Commit(t, p, e, g)
  BY DEF ConfirmarPago
<1>3. /\ p \in Pedidos /\ Existe(p) /\ candado[p] = t
      /\ p \notin peticion[t].expirados
      /\ estado[p] # "CANCELADO" /\ pago[p] # "PAGADO_CONFIRMADO"
  BY <1>1, DecidedOn DEF Confirmable
<1>4. e \in Estados /\ g \in Pagos
  BY <1>3, InicialType DEF IInv, TypeOK, Pagos
<1>5. estado[p] \in Iniciados => e \in Iniciados
  BY DEF Iniciados
<1>. HIDE DEF e, g
<1>. QED  BY <1>1, <1>2, <1>3, <1>4, <1>5, PlainCommit

LEMMA CambiarEstadoStep ==
  ASSUME IInv, NEW t \in Peticiones, CambiarEstado(t)
  PROVE  IInv' /\ \A q \in Pedidos : Settled(q)
<1>. DEFINE p == peticion[t].p
            a == peticion[t].a
            g == Ve(t, p).pago
<1>1. /\ EnCurso(t) /\ peticion[t].op = "estado" /\ peticion[t].paso = "decide"
      /\ Avanza(t, p, a) \/ a = peticion[t].visto.estado
      /\ Commit(t, p, a, g)
      /\ UNCHANGED <<origen, control, ventana, kds, preparado, facturado, inventario>>
  BY DEF CambiarEstado, En
<1>2. a \in {"EN_COCINA"} \cup Iniciados
  BY <1>1 DEF IInv, RequestGood, Aims
<1>3. a \in Estados /\ a # "CANCELADO"
  BY <1>2 DEF Estados, Iniciados
<1>4. /\ p \in Pedidos /\ Existe(p) /\ candado[p] = t
      /\ p \notin peticion[t].expirados
      /\ estado[p] # "CANCELADO"
  BY <1>1, <1>3, DecidedOn DEF Avanza, EnFuego
<1>5. g \in Pagos /\ g = pago[p]
  BY <1>4 DEF Ve, IInv, TypeOK
<1>. HIDE DEF g
<1>6. g # "CANCELADO_TIMEOUT" \/ pago[p] # "PAGADO_CONFIRMADO"
  BY <1>5
<1>7. estado[p] \in Iniciados => a \in Iniciados
  BY <1>1, <1>4, DecidedOn DEF Avanza, Iniciados, EnFuego
<1>. QED  BY <1>1, <1>3, <1>4, <1>5, <1>6, <1>7, PlainCommit

\* A commit of the kitchen: the order it works was not returned whole.
LEMMA KitchenCommit ==
  ASSUME IInv, NEW t \in Peticiones, EnCurso(t),
         peticion[t].op = "cocina", peticion[t].paso \in {"decide", "inserta"},
         estado[peticion[t].p] # "CANCELADO",
         NEW e \in Estados, e \in Iniciados, Commit(t, peticion[t].p, e, pago[peticion[t].p]),
         UNCHANGED <<origen, control, ventana, kds, facturado, entradas, revertido, crudo, ciega>>,
         preparado' \in [Pedidos -> BOOLEAN], salidas' \in [Pedidos -> Nat],
         \A q \in Pedidos \ {peticion[t].p} :
           preparado'[q] = preparado[q] /\ salidas'[q] = salidas[q],
         salidas'[peticion[t].p] \in salidas[peticion[t].p]..1
  PROVE  IInv' /\ \A q \in Pedidos : Settled(q)
<1>0. PICK p : p = peticion[t].p
  OBVIOUS
<1>1. /\ p \in Pedidos /\ Existe(p) /\ candado[p] = t
      /\ peticion[t].expirados = {} /\ OrderGood(p)
  BY <1>0, DecidedOn DEF IInv, RequestGood, Aims
<1>2. pago[p] \in Pagos
  BY <1>1 DEF IInv, TypeOK
<1>3. /\ Termina(t) /\ estado' \in [Pedidos -> Estados] /\ pago' \in [Pedidos -> Pagos]
      /\ iniciado' \in [Pedidos -> BOOLEAN] /\ estado'[p] = e /\ iniciado'[p]
  BY <1>0, <1>1, <1>2, CommitRows DEF IInv
<1>4. TypeOK'
  <2>1. /\ peticion' \in [Peticiones -> Peticion \cup {Ninguna}]
        /\ candado' \in [Pedidos -> Peticiones \cup {Libre}]
    BY <1>3, TerminaRows DEF IInv
  <2>. QED  BY <1>3, <2>1 DEF IInv, TypeOK
<1>5. pago[p] = "PAGADO_CONFIRMADO" => pago[p] # "CANCELADO_TIMEOUT"
  OBVIOUS
<1>6. /\ \A u \in Peticiones : RequestGood(u)'
      /\ \A q \in Pedidos : Settled(q) /\ Started(q)
      /\ \A q \in Pedidos : q # p /\ ~Existe(q) => estado'[q] = estado[q]
  BY <1>0, <1>1, <1>2, <1>5, CommitGood, ZenonT(30) DEF IInv
<1>7. ASSUME NEW q \in Pedidos, q # p PROVE OrderGood(q)'
  <2>1. ~Existe(q)' => ~facturado'[q] /\ estado'[q] = estado[q]
    BY <1>0, <1>6, <1>7 DEF IInv, OrderGood, Existe
  <2>. QED  BY <1>0, <1>6, <1>7, <2>1, OrderKept DEF IInv, Existe
<1>8. OrderGood(p)'
  <2>1. /\ salidas[p] \in Nat /\ salidas'[p] \in Nat
        /\ entradas[p] \in 0..Unidades /\ revertido[p] \in 0..Unidades
        /\ crudo[p] \in 0..Unidades
    BY <1>0, <1>1 DEF IInv, TypeOK
  <2>2. revertido[p] # Unidades /\ crudo[p] <= revertido[p] /\ crudo[p] # Unidades
    BY <1>0, <1>1, <2>1 DEF OrderGood, Told
  <2>3. Existe(p)' /\ entradas' = entradas /\ revertido' = revertido /\ crudo' = crudo
    BY <1>1 DEF Existe
  <2>4. salidas'[p] <= 1 /\ salidas[p] <= salidas'[p]
    BY <1>0, <2>1
  <2>5. Told(p)'
    BY <1>3, <2>2, <2>3 DEF Told
  <2>. QED  BY <1>1, <2>1, <2>2, <2>3, <2>4, <2>5 DEF OrderGood
<1>. QED  BY <1>4, <1>6, <1>7, <1>8 DEF IInv

LEMMA CocinarStep ==
  ASSUME IInv, NEW t \in Peticiones, Cocinar(t)
  PROVE  IInv' /\ \A q \in Pedidos : Settled(q)
<1>. DEFINE p == peticion[t].p
            a == peticion[t].a
<1>1. /\ EnCurso(t) /\ peticion[t].op = "cocina" /\ peticion[t].paso = "decide"
      /\ Cocinable(t, p, a) /\ SinConflicto(t, p)
      /\ Commit(t, p, a, pago[p])
      /\ preparado' = [preparado EXCEPT ![p] = @ \/ a = "EN_PREPARACION"]
      /\ UNCHANGED <<origen, control, ventana, kds, facturado, salidas, entradas, revertido, crudo, ciega>>
  BY DEF Cocinar, En, inventario
<1>2. p \in Pedidos /\ a \in Estados /\ a \in Iniciados
  BY <1>1, RequestType DEF IInv, RequestGood, Aims
<1>3. estado[p] # "CANCELADO"
  BY <1>1 DEF Cocinable, SinConflicto
<1>4. /\ preparado \in [Pedidos -> BOOLEAN] /\ salidas' \in [Pedidos -> Nat]
      /\ salidas[p] <= 1 /\ salidas'[p] = salidas[p] /\ salidas[p] \in Nat
  BY <1>1, <1>2 DEF IInv, TypeOK, OrderGood
<1>5. /\ preparado' \in [Pedidos -> BOOLEAN]
      /\ \A q \in Pedidos \ {p} : preparado'[q] = preparado[q] /\ salidas'[q] = salidas[q]
  BY <1>1, <1>4
<1>6. salidas'[p] \in salidas[p]..1
  BY <1>4
<1>. QED  BY <1>1, <1>2, <1>3, <1>4, <1>5, <1>6, KitchenCommit

LEMMA CocinarConSalidaStep ==
  ASSUME IInv, NEW t \in Peticiones, CocinarConSalida(t)
  PROVE  IInv' /\ \A q \in Pedidos : Settled(q)
<1>0. PICK p : p = peticion[t].p
  OBVIOUS
<1>1. /\ EnCurso(t) /\ peticion[t].op = "cocina" /\ peticion[t].paso = "inserta"
      /\ IndiceAcepta(p) /\ SinConflicto(t, p)
      /\ Commit(t, p, "EN_PREPARACION", pago[p])
      /\ preparado' = [preparado EXCEPT ![p] = TRUE]
      /\ salidas' = [salidas EXCEPT ![p] = @ + 1]
      /\ UNCHANGED <<origen, control, ventana, kds, facturado, entradas, revertido, crudo, ciega>>
  BY <1>0 DEF CocinarConSalida, En
<1>2. p \in Pedidos /\ "EN_PREPARACION" \in Estados /\ "EN_PREPARACION" \in Iniciados
  BY <1>0, <1>1, RequestType DEF IInv, Estados, Iniciados
<1>3. estado[p] # "CANCELADO"
  BY <1>0, <1>1 DEF IInv, RequestGood, Aims, SinConflicto
<1>4. preparado \in [Pedidos -> BOOLEAN] /\ salidas \in [Pedidos -> Nat] /\ salidas[p] = 0
  BY <1>1 DEF IInv, TypeOK, IndiceAcepta
<1>5. /\ preparado' \in [Pedidos -> BOOLEAN] /\ salidas' \in [Pedidos -> Nat]
      /\ \A q \in Pedidos \ {p} : preparado'[q] = preparado[q] /\ salidas'[q] = salidas[q]
      /\ salidas'[p] = 1
  BY <1>1, <1>2, <1>4
<1>6. salidas'[p] \in salidas[p]..1
  BY <1>4, <1>5
<1>. QED  BY <1>0, <1>1, <1>2, <1>3, <1>5, <1>6, KitchenCommit

\* The endpoint of the inventory: the index lets the first discount in.
LEMMA DescontarStep ==
  ASSUME IInv, NEW t \in Peticiones, Descontar(t)
  PROVE  IInv' /\ \A q \in Pedidos : Settled(q)
<1>0. PICK p : p = peticion[t].p
  OBVIOUS
<1>1. /\ EnCurso(t) /\ peticion[t].op = "descontar" /\ salidas[p] = 0
      /\ salidas' = [salidas EXCEPT ![p] = @ + 1]
      /\ Termina(t) /\ UNCHANGED <<pedido, entradas, revertido, crudo, ciega>>
  BY <1>0 DEF Descontar, En, IndiceAcepta
<1>2. p \in Pedidos /\ Existe(p)
  BY <1>0, <1>1, RequestType DEF IInv, RequestGood, Aims
<1>3. /\ peticion' \in [Peticiones -> Peticion \cup {Ninguna}]
      /\ candado' \in [Pedidos -> Peticiones \cup {Libre}]
      /\ peticion'[t] = Ninguna
      /\ \A u \in Peticiones \ {t} : peticion'[u] = peticion[u]
      /\ \A q \in Pedidos : candado[q] # t => candado'[q] = candado[q]
  BY <1>1, TerminaRows DEF IInv
<1>4. salidas \in [Pedidos -> Nat]
  BY DEF IInv, TypeOK
<1>5. /\ salidas' \in [Pedidos -> Nat] /\ salidas'[p] = 1
      /\ \A q \in Pedidos \ {p} : salidas'[q] = salidas[q]
  BY <1>1, <1>2, <1>4
<1>6. TypeOK'
  BY <1>1, <1>3, <1>5 DEF IInv, TypeOK, pedido
<1>7. ASSUME NEW u \in Peticiones PROVE RequestGood(u)'
  <2>1. CASE u = t
    BY <1>3, <2>1, IdleGood
  <2>2. CASE u # t
    <3>1. peticion'[u] = peticion[u] /\ \A q \in Pedidos : candado[q] = u => candado'[q] = u
      BY <1>3, <2>2
    <3>. QED  BY <1>1, <3>1, RequestUntouched DEF IInv, pedido
  <2>. QED  BY <2>1, <2>2
<1>8. ASSUME NEW q \in Pedidos PROVE Settled(q)
  BY <1>1 DEF IInv, TypeOK, Settled, pedido
<1>9. ASSUME NEW q \in Pedidos PROVE OrderGood(q)'
  <2>1. CASE q = p
    <3>1. OrderGood(p) /\ Existe(p)'
      BY <1>1, <1>2 DEF IInv, Existe, pedido
    <3>. QED  BY <1>1, <1>5, <2>1, <3>1 DEF OrderGood, Told, pedido
  <2>2. CASE q # p
    BY <1>1, <1>5, <2>2 DEF IInv, OrderGood, Told, Existe, pedido
  <2>. QED  BY <2>1, <2>2
<1>. QED  BY <1>6, <1>7, <1>8, <1>9 DEF IInv

-----------------------------------------------------------------------------
LEMMA InitGood == Init => IInv
<1>. SUFFICES ASSUME Init PROVE IInv
  OBVIOUS
<1>0. Unidades \in Nat /\ Unidades > 0 /\ 0 \in 0..Unidades
  OBVIOUS
<1>. USE DEF Init
<1>1. TypeOK
  <2>1. /\ entradas \in [Pedidos -> 0..Unidades] /\ revertido \in [Pedidos -> 0..Unidades]
        /\ salidas \in [Pedidos -> Nat] /\ crudo \in [Pedidos -> 0..Unidades]
    BY <1>0
  <2>. QED  BY <2>1 DEF TypeOK, Estados, Pagos
<1>2. \A t \in Peticiones : RequestGood(t)
  BY DEF RequestGood, EnCurso, Ninguna
<1>3. ASSUME NEW p \in Pedidos PROVE OrderGood(p)
  <2>1. /\ salidas[p] = 0 /\ entradas[p] = 0 /\ revertido[p] = 0
        /\ estado[p] = "PENDIENTE" /\ ~facturado[p]
        /\ ~iniciado[p] /\ ~preparado[p] /\ crudo[p] = 0 /\ "PENDIENTE" \notin Iniciados
    BY DEF Iniciados
  <2>. HIDE DEF Init
  <2>. QED  BY <1>0, <2>1 DEF OrderGood, Told
<1>. QED  BY <1>1, <1>2, <1>3 DEF IInv

\* One case per action: the invariant is kept, and what is settled stays so.
LEMMA NextGood == IInv /\ [Next]_vars => IInv' /\ \A q \in Pedidos : Settled(q)
<1>. SUFFICES ASSUME IInv, [Next]_vars PROVE IInv' /\ \A q \in Pedidos : Settled(q)
  OBVIOUS
<1>1. CASE UNCHANGED vars
  <2>1. UNCHANGED <<pedido, inventario, candado, peticion>>
    BY <1>1 DEF vars
  <2>2. TypeOK'
    BY <2>1 DEF IInv, TypeOK, pedido, inventario
  <2>3. ASSUME NEW u \in Peticiones PROVE RequestGood(u)'
    BY <2>1, RequestUntouched DEF IInv, pedido
  <2>4. ASSUME NEW q \in Pedidos PROVE Settled(q) /\ OrderGood(q)'
    BY <2>1 DEF IInv, TypeOK, Settled, OrderGood, Told, Existe, pedido, inventario
  <2>. QED  BY <2>2, <2>3, <2>4 DEF IInv
<1>2. ASSUME NEW p \in Pedidos, CrearMenu(p) \/ CierraVentana(p) \/ VenceKds(p) \/ Pagar(p)
      PROVE  IInv' /\ \A q \in Pedidos : Settled(q)
  BY <1>2, CrearMenuStep, TimeStep, PagarStep
<1>3. ASSUME NEW p \in Pedidos, NEW pagado \in BOOLEAN, CrearEnCaja(p, pagado)
      PROVE  IInv' /\ \A q \in Pedidos : Settled(q)
  BY <1>3, CrearEnCajaStep
<1>4. ASSUME NEW p \in Pedidos, NEW n \in 1..Unidades, NEW nulo \in BOOLEAN,
             Revertir(p, n, nulo)
      PROVE  IInv' /\ \A q \in Pedidos : Settled(q)
  BY <1>4, RevertirStep
<1>5. ASSUME NEW t \in Peticiones, NEW op \in Operaciones, NEW p \in Objetos(op),
             NEW a \in Destinos(op), Llega(t, op, p, a)
      PROVE  IInv' /\ \A q \in Pedidos : Settled(q)
  BY <1>5, LlegaStep
<1>6. ASSUME NEW t \in Peticiones, Paso(t)
      PROVE  IInv' /\ \A q \in Pedidos : Settled(q)
  <2>1. CASE ExpirarFila(t) \/ Listar(t) \/ Tomar(t)
    BY <2>1, ExpirarFilaStep, ListarStep, TomarStep
  <2>2. CASE \E tarde \in BOOLEAN : ConfirmarPago(t, tarde)
    BY <2>2, ConfirmarPagoStep
  <2>3. CASE CambiarEstado(t) \/ Cocinar(t) \/ SinMovimiento(t) \/ CocinarConSalida(t) \/ Descontar(t)
    BY <2>3, CambiarEstadoStep, CocinarStep, SinMovimientoStep, CocinarConSalidaStep, DescontarStep
  <2>4. CASE Rechazar(t) \/ AbortarVictima(t)
    BY <2>4, RollbackStep DEF Rechazar, AbortarVictima
  <2>. QED  BY <1>6, <2>1, <2>2, <2>3, <2>4 DEF Paso
<1>. QED  BY <1>1, <1>2, <1>3, <1>4, <1>5, <1>6 DEF Next

-----------------------------------------------------------------------------
\* The inductive invariant.
THEOREM Invariance == Spec => []IInv
<1>1. IInv /\ [Next]_vars => IInv'
  BY NextGood
<1>. QED  BY InitGood, <1>1, PTL DEF Spec

\* States, payments, locks and requests keep their types, whatever meets.
THEOREM TypeCorrect == Spec => []TypeOK
BY Invariance, PTL DEF IInv

\* An order's ingredients leave the stock at most once.
THEOREM DiscountedOnceHolds == Spec => []DiscountedOnce
<1>1. IInv => DiscountedOnce
  BY DEF IInv, OrderGood, DiscountedOnce
<1>. QED  BY <1>1, Invariance, PTL

\* Reversals bring back no more than the order took from stock.
THEOREM ReturnsWhatWasTakenHolds == Spec => []ReturnsWhatWasTaken
<1>1. IInv => ReturnsWhatWasTaken
  <2>. SUFFICES ASSUME IInv, NEW p \in Pedidos PROVE entradas[p] <= Unidades * salidas[p]
    BY DEF ReturnsWhatWasTaken
  <2>1. entradas[p] \in 0..Unidades /\ salidas[p] \in Nat /\ OrderGood(p)
    BY DEF IInv, TypeOK
  <2>2. CASE salidas[p] = 0
    BY <2>1, <2>2 DEF OrderGood
  <2>3. CASE salidas[p] = 1
    BY <2>1, <2>3
  <2>. QED  BY <2>1, <2>2, <2>3 DEF OrderGood
<1>. QED  BY <1>1, Invariance, PTL

\* Of a recipe the stock got back what was returned before anybody started the
\* order, and no more; one that came back whole is cancelled and was never started.
THEOREM ReturnedIsNotCookedHolds == Spec => []ReturnedIsNotCooked
<1>1. IInv => ReturnedIsNotCooked
  <2>. SUFFICES ASSUME IInv, NEW p \in Pedidos, ~ciega[p]
                PROVE  /\ entradas[p] = IF p \in ConCocina THEN crudo[p] ELSE revertido[p]
                       /\ p \in ConCocina /\ entradas[p] = Unidades =>
                            estado[p] = "CANCELADO" /\ ~iniciado[p]
    BY DEF ReturnedIsNotCooked
  <2>1. /\ OrderGood(p) /\ Told(p)
        /\ crudo[p] \in 0..Unidades /\ revertido[p] \in 0..Unidades
    BY DEF IInv, TypeOK, OrderGood
  <2>2. crudo[p] = Unidades => estado[p] = "CANCELADO" /\ ~iniciado[p]
    BY <2>1 DEF OrderGood, Told
  <2>. QED  BY <2>1, <2>2 DEF OrderGood
<1>. QED  BY <1>1, Invariance, PTL

\* A confirmed payment is never timed out, a cancelled order never comes back.
THEOREM SettledStaysHolds == Spec => SettledStays
<1>1. IInv /\ [Next]_vars =>
        [\A p \in Pedidos :
           /\ pago[p] = "PAGADO_CONFIRMADO" => pago'[p] # "CANCELADO_TIMEOUT"
           /\ estado[p] = "CANCELADO" => estado'[p] = "CANCELADO"]_vars
  BY NextGood DEF Settled
<1>. QED  BY <1>1, Invariance, PTL DEF Spec, SettledStays
=============================================================================
