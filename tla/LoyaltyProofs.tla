--------------------------- MODULE LoyaltyProofs ---------------------------
(***************************************************************************)
(* Theorems of Loyalty for every set of invoices, rules and processes.     *)
(* What keeps two processes from crediting one invoice twice is that a     *)
(* decision stays true until it is written: DecisionStands.                *)
(***************************************************************************)
EXTENDS Loyalty, FiniteSetTheorems, TLAPS

\* Nobody works an invoice that is not paid, and one that was not charged has
\* left no trace.
QueuedPaid ==
  \A p \in Procesos : \A i \in 1..Len(cola[p]) : Pagada(cola[p][i])

\* The scheduler queues its batch and nothing else.
BatchOnly ==
  /\ fase = "quieta" => cola[Reconciliador] = <<>>
  /\ \A i \in 1..Len(cola[Reconciliador]) : cola[Reconciliador][i] \in lote

UnchargedBare ==
  \A f \in Facturas : ~ cobrada[f] =>
    fila[f] = Nada /\ ~ reservada[f] /\ contexto[f] = "igual"

\* Two processes never hold the lock of one invoice.
LockExclusive ==
  \A p, q \in Procesos : p # q /\ etapa[p] = "decidido" /\ etapa[q] = "decidido"
    => Head(cola[p]) # Head(cola[q])

\* What a process decided under the lock is still right when it writes.
Right(f, d) ==
  \/ d.que = "nada"
  \/ /\ ~ Terminal(f) /\ acum[f] = 0
     /\ d.que \in {"omitir", "acreditar"}
     /\ d.que = "acreditar" => d.snap = "completo" /\ Puntos[f] > 0
     /\ reservada[f] =>
          /\ d.snap = fila[f].snap
          /\ d.que = "omitir" => d.snap # "completo" \/ Puntos[f] = 0 \/ contexto[f] = "otro"

DecisionStands ==
  \A p \in Procesos : etapa[p] = "decidido" => Right(Head(cola[p]), dictamen[p])

\* The reconciliation decides by evidence: a contact, or the row's snapshot.
DecidedOnEvidence ==
  LET f == Head(cola[Reconciliador])
  IN etapa[Reconciliador] = "decidido" /\ dictamen[Reconciliador].que = "acreditar"
       => f \in ConContacto \/ ConSnapshot(f)

\* A reservation is on record with the eligibility and context of the payment.
ReservedOnRecord ==
  \A f \in Facturas : reservada[f] =>
    /\ fila[f] # Nada
    /\ fila[f].snap = IF apto[f] THEN "completo" ELSE "incompleto"
    /\ fila[f].ctx = "igual"

IInv ==
  /\ TypeOK
  /\ QueuedPaid
  /\ BatchOnly
  /\ UnchargedBare
  /\ LockExclusive
  /\ DecisionStands
  /\ DecidedOnEvidence
  /\ ReservedOnRecord
  /\ PointsOnce
  /\ JudgedAsPaid
  /\ NoCreditWithDebt

USE LoyaltyAssumption, NadaIsNoRow
-----------------------------------------------------------------------------
LEMMA FacturasFinite == IsFiniteSet(Facturas) /\ Facturas \subseteq Nat
BY FS_Interval DEF Facturas

\* upsertAccumulationState writes one row, and never one that is terminal.
LEMMA UpsertRow ==
  ASSUME NEW f \in Facturas, NEW st \in Reintentables \cup Terminales, NEW snap \in Snaps,
         NEW ctx \in Contextos, fila \in [Facturas -> Fila \cup {Nada}]
  PROVE  /\ Upsert(f, st, snap, ctx) \in [Facturas -> Fila \cup {Nada}]
         /\ \A g \in Facturas \ {f} : Upsert(f, st, snap, ctx)[g] = fila[g]
         /\ Upsert(f, st, snap, ctx)[f] # Nada
         /\ Terminal(f) => Upsert(f, st, snap, ctx)[f] = fila[f]
         /\ ~ Terminal(f) => Upsert(f, st, snap, ctx)[f].st = st
         /\ ConSnapshot(f) => /\ Upsert(f, st, snap, ctx)[f].snap = fila[f].snap
                              /\ Upsert(f, st, snap, ctx)[f].ctx = fila[f].ctx
         /\ ~ ConSnapshot(f) /\ ~ Terminal(f) =>
              Upsert(f, st, snap, ctx)[f].snap = snap /\ Upsert(f, st, snap, ctx)[f].ctx = ctx
<1>1. CASE Terminal(f)
  BY <1>1 DEF Upsert, Terminal
<1>2. CASE ~ Terminal(f) /\ ConSnapshot(f)
  <2>. DEFINE row == [fila[f] EXCEPT !.st = st]
  <2>1. /\ row \in Fila /\ row.st = st /\ row.snap = fila[f].snap
        /\ row.ctx = fila[f].ctx
    BY <1>2 DEF ConSnapshot, Fila
  <2>2. Upsert(f, st, snap, ctx) = [fila EXCEPT ![f] = row]
    BY <1>2 DEF Upsert
  <2>. HIDE DEF row
  <2>. QED  BY <1>2, <2>1, <2>2
<1>3. CASE ~ Terminal(f) /\ ~ ConSnapshot(f)
  <2>. DEFINE row == [st |-> st, snap |-> snap, ctx |-> ctx]
  <2>1. row \in Fila /\ row.st = st /\ row.snap = snap /\ row.ctx = ctx
    BY DEF Fila
  <2>2. Upsert(f, st, snap, ctx) = [fila EXCEPT ![f] = row]
    BY <1>3 DEF Upsert
  <2>. HIDE DEF row
  <2>. QED  BY <1>3, <2>1, <2>2
<1>. QED  BY <1>1, <1>2, <1>3

LEMMA MenorType == ASSUME NEW a \in Nat, NEW b \in Nat
                   PROVE  Menor(a, b) \in Nat /\ Menor(a, b) <= a /\ Menor(a, b) <= b
BY DEF Menor

\* What a reversal sets out to take is a number of points.
LEMMA ObjetivoType ==
  ASSUME NEW f \in Facturas, NEW n \in Nat, reverso[f] \in Nat
  PROVE  Objetivo(f, n) \in Nat
<1>1. Puntos[f] \in Nat
  OBVIOUS
<1>2. Puntos[f] * n \in Nat
  BY <1>1
<1>3. (Puntos[f] * n) \div Unidades \in Nat
  BY <1>2
<1>. QED  BY <1>1, <1>3 DEF Objetivo

\* The head of a queue is an invoice, and so is the rest of it.
LEMMA QueueHead ==
  ASSUME NEW q \in Seq(Facturas), q # <<>>
  PROVE  Head(q) \in Facturas /\ Head(q) = q[1] /\ 1 \in 1..Len(q)
OBVIOUS

LEMMA QueueTail ==
  ASSUME NEW q \in Seq(Facturas), q # <<>>
  PROVE  /\ Tail(q) \in Seq(Facturas)
         /\ \A i \in 1..Len(Tail(q)) : i + 1 \in 1..Len(q) /\ Tail(q)[i] = q[i + 1]
<1>1. Tail(q) \in Seq(Facturas) /\ Len(Tail(q)) = Len(q) - 1
  OBVIOUS
<1>2. ASSUME NEW i \in 1..Len(Tail(q)) PROVE i + 1 \in 1..Len(q) /\ Tail(q)[i] = q[i + 1]
  BY <1>1
<1>. QED  BY <1>1, <1>2

LEMMA QueueEncolada ==
  ASSUME NEW q \in Seq(Facturas), NEW f \in Facturas
  PROVE  /\ Encolada(q, f) \in Seq(Facturas)
         /\ q # <<>> => Encolada(q, f) # <<>> /\ Head(Encolada(q, f)) = Head(q)
         /\ \A i \in 1..Len(Encolada(q, f)) :
              Encolada(q, f)[i] = f \/ (i \in 1..Len(q) /\ Encolada(q, f)[i] = q[i])
<1>1. CASE Encolada(q, f) = q
  BY <1>1
<1>2. CASE Encolada(q, f) = Append(q, f)
  <2>1. Append(q, f) \in Seq(Facturas) /\ Len(Append(q, f)) = Len(q) + 1
    OBVIOUS
  <2>2. q # <<>> => Append(q, f) # <<>> /\ Head(Append(q, f)) = Head(q)
    OBVIOUS
  <2>3. \A i \in 1..Len(Append(q, f)) : Append(q, f)[i] = f \/ (i \in 1..Len(q) /\ Append(q, f)[i] = q[i])
    BY <2>1
  <2>. QED  BY <1>2, <2>1, <2>2, <2>3
<1>. QED  BY <1>1, <1>2 DEF Encolada

\* The queue of a batch: each of its invoices is of the batch.
LEMMA QueueOfBatch ==
  ASSUME NEW S \in SUBSET Facturas, NEW q \in [1..Cardinality(S) -> S]
  PROVE  q \in Seq(Facturas) /\ Len(q) = Cardinality(S) /\ \A i \in 1..Len(q) : q[i] \in S
<1>1. Cardinality(S) \in Nat
  BY FacturasFinite, FS_Subset, FS_CardinalityType
<1>2. q \in [1..Cardinality(S) -> Facturas]
  OBVIOUS
<1>3. q \in Seq(Facturas) /\ Len(q) = Cardinality(S)
  BY <1>1, <1>2
<1>. QED  BY <1>3
-----------------------------------------------------------------------------
\* The step of a process that ends its job.
LEMMA SiguienteStep ==
  ASSUME TypeOK, NEW p \in Procesos, cola[p] # <<>>, Siguiente(p)
  PROVE  /\ cola' \in [Procesos -> Seq(Facturas)] /\ cola'[p] = Tail(cola[p])
         /\ \A q \in Procesos \ {p} : cola'[q] = cola[q] /\ etapa'[q] = etapa[q]
                                      /\ dictamen'[q] = dictamen[q]
         /\ etapa' \in [Procesos -> {"inicio", "decidido", "error"}] /\ etapa'[p] = "inicio"
         /\ dictamen' \in [Procesos -> [que : {"nada", "omitir", "registrada", "acreditar"},
                                        snap : Snaps, ctx : Contextos]]
<1>1. Tail(cola[p]) \in Seq(Facturas)
  BY QueueTail DEF TypeOK
<1>2. SinDictamen \in [que : {"nada", "omitir", "registrada", "acreditar"}, snap : Snaps, ctx : Contextos]
  BY DEF SinDictamen, Snaps, Contextos
<1>. QED  BY <1>1, <1>2 DEF TypeOK, Siguiente

\* The invoice a process works, and the verdict on it.
LEMMA HeadType ==
  ASSUME TypeOK, NEW p \in Procesos, cola[p] # <<>>
  PROVE  Head(cola[p]) \in Facturas /\ Head(cola[p]) = cola[p][1] /\ 1 \in 1..Len(cola[p])
BY QueueHead DEF TypeOK

LEMMA SnapshotType ==
  ASSUME TypeOK, NEW p \in Procesos, NEW f \in Facturas
  PROVE  Snapshot(p, f) \in Snaps /\ Elegibilidad(f) \in Snaps /\ Contexto(f) \in Contextos
<1>1. Elegibilidad(f) \in Snaps
  BY DEF Elegibilidad, Snaps
<1>2. ConSnapshot(f) => fila[f].snap \in Snaps
  BY DEF ConSnapshot, TypeOK, Fila
<1>3. Contexto(f) \in Contextos
  BY DEF Contexto, ConSnapshot, TypeOK, Fila
<1>. QED  BY <1>1, <1>2, <1>3 DEF Snapshot, Snaps

LEMMA AbonarType ==
  ASSUME saldo \in Nat, deuda \in Nat, NEW n \in Nat, Abonar(n)
  PROVE  /\ saldo' \in Nat /\ deuda' \in Nat
         /\ (deuda > 0 => saldo = 0) => (deuda' > 0 => saldo' = 0)
BY DEF Abonar, Menor

LEMMA TypeStep == TypeOK /\ BatchOnly /\ [Next]_vars => TypeOK'
<1>. SUFFICES ASSUME TypeOK, BatchOnly, [Next]_vars PROVE TypeOK'
  OBVIOUS
<1>1. ASSUME NEW w \in Webs, NEW f \in Facturas, Cobrar(w, f) PROVE TypeOK'
  <2>1. w \in Procesos
    BY DEF Procesos
  <2>2. Upsert(f, "PENDING", Elegibilidad(f), contexto[f]) \in [Facturas -> Fila \cup {Nada}]
    BY UpsertRow, SnapshotType, <2>1 DEF TypeOK, Reintentables
  <2>3. Encolada(cola[w], f) \in Seq(Facturas)
        /\ (cola[w] # <<>> => Encolada(cola[w], f) # <<>>)
    BY QueueEncolada, <2>1 DEF TypeOK
  <2>4. reciente' \in Seq(Pedidos)
    <3>1. PedidoDe[f] \in Pedidos
      BY DEF Pedidos
    <3>2. Append(reciente, PedidoDe[f]) \in Seq(Pedidos)
      BY <3>1 DEF TypeOK
    <3>. QED  BY <3>2, <1>1 DEF TypeOK, Cobrar
  <2>5. fila' \in [Facturas -> Fila \cup {Nada}] /\ reservada' \in [Facturas -> BOOLEAN]
        /\ fallos' \in Nat
    <3>1. /\ fila' = fila \/ fila' = Upsert(f, "PENDING", Elegibilidad(f), contexto[f])
          /\ reservada' = reservada \/ reservada' = [reservada EXCEPT ![f] = TRUE]
          /\ fallos' = fallos \/ fallos' = fallos + 1
      BY <1>1 DEF Cobrar, Fallo
    <3>2. fila' \in [Facturas -> Fila \cup {Nada}]
      BY <2>2, <3>1 DEF TypeOK
    <3>3. reservada' \in [Facturas -> BOOLEAN]
      <4>1. CASE reservada' = reservada
        BY <4>1 DEF TypeOK
      <4>2. CASE reservada' = [reservada EXCEPT ![f] = TRUE]
        BY <4>2 DEF TypeOK
      <4>. QED  BY <3>1, <4>1, <4>2
    <3>4. fallos' \in Nat
      BY <3>1 DEF TypeOK
    <3>. QED  BY <3>2, <3>3, <3>4
  <2>6. cola' \in [Procesos -> Seq(Facturas)] /\ \A p \in Procesos : etapa[p] # "inicio" => cola'[p] # <<>>
    <3>1. cola' = cola \/ cola' = [cola EXCEPT ![w] = Encolada(cola[w], f)]
      BY <1>1 DEF Cobrar
    <3>. QED  BY <2>1, <2>3, <3>1, ZenonT(30) DEF TypeOK
  <2>7. cobrada' \in [Facturas -> BOOLEAN] /\ apto' \in [Facturas -> BOOLEAN]
    BY <1>1 DEF TypeOK, Cobrar
  <2>. QED  BY <1>1, <2>4, <2>5, <2>6, <2>7 DEF TypeOK, Cobrar, tick
<1>2. CASE EditarPerfil
  BY <1>2 DEF TypeOK, EditarPerfil, cuenta, memoria, tick
<1>14. ASSUME NEW f \in Facturas, NEW c \in {"otro", "vacio"}, Corregir(f, c) PROVE TypeOK'
  BY <1>14 DEF TypeOK, Corregir, Contextos, cuenta, memoria, tick
<1>3. CASE PasaGracia
  <2>1. Tail(reciente) \in Seq(Pedidos)
    BY <1>3 DEF TypeOK, PasaGracia
  <2>. QED  BY <1>3, <2>1 DEF TypeOK, PasaGracia, cuenta, memoria, tick
<1>4. ASSUME NEW p \in Procesos, Decidir(p) PROVE TypeOK'
  <2>1. Head(cola[p]) \in Facturas
    BY <1>4, HeadType DEF Decidir
  <2>2. Snapshot(p, Head(cola[p])) \in Snaps /\ Contexto(Head(cola[p])) \in Contextos
    BY <2>1, SnapshotType
  <2>3. dictamen' \in [Procesos -> [que : {"nada", "omitir", "registrada", "acreditar"}, snap : Snaps, ctx : Contextos]]
    BY <1>4, <2>2 DEF TypeOK, Decidir, Veredicto, Registro
  <2>. QED  BY <1>4, <2>3 DEF TypeOK, Decidir, caja, cuenta, tick
<1>5. ASSUME NEW p \in Procesos, Confirmar(p) PROVE TypeOK'
  <2>1. cola[p] # <<>> /\ Head(cola[p]) \in Facturas /\ dictamen[p].snap \in Snaps /\ dictamen[p].ctx \in Contextos
    BY <1>5, HeadType DEF TypeOK, Confirmar
  <2>2. fila' \in [Facturas -> Fila \cup {Nada}]
    <3>1. \/ fila' = fila
          \/ fila' = Upsert(Head(cola[p]), "SKIPPED_TERMINAL", dictamen[p].snap, dictamen[p].ctx)
          \/ fila' = Upsert(Head(cola[p]), "PROCESSED", dictamen[p].snap, dictamen[p].ctx)
      BY <1>5 DEF Confirmar
    <3>2. \A st \in Terminales :
            Upsert(Head(cola[p]), st, dictamen[p].snap, dictamen[p].ctx) \in [Facturas -> Fila \cup {Nada}]
      BY <2>1, UpsertRow DEF TypeOK
    <3>. QED  BY <3>1, <3>2 DEF TypeOK, Terminales
  <2>3. acum' \in [Facturas -> Nat] /\ saldo' \in Nat /\ deuda' \in Nat
    <3>1. Puntos[Head(cola[p])] \in Nat
      BY <2>1
    <3>2. saldo \in Nat /\ deuda \in Nat /\ acum \in [Facturas -> Nat]
      BY DEF TypeOK
    <3>3. \/ acum' = acum
          \/ acum' = [acum EXCEPT ![Head(cola[p])] = @ + 1]
      BY <1>5 DEF Confirmar
    <3>4. acum' \in [Facturas -> Nat]
      BY <2>1, <3>2, <3>3
    <3>5. UNCHANGED <<saldo, deuda>> \/ Abonar(Puntos[Head(cola[p])])
      BY <1>5 DEF Confirmar
    <3>. QED  BY <3>1, <3>2, <3>4, <3>5, AbonarType
  <2>4. /\ cola' \in [Procesos -> Seq(Facturas)]
        /\ etapa' \in [Procesos -> {"inicio", "decidido", "error"}]
        /\ dictamen' \in [Procesos -> [que : {"nada", "omitir", "registrada", "acreditar"}, snap : Snaps, ctx : Contextos]]
        /\ \A q \in Procesos : etapa'[q] # "inicio" => cola'[q] # <<>>
    BY <1>5, <2>1, SiguienteStep DEF TypeOK, Confirmar
  <2>. QED  BY <1>5, <2>2, <2>3, <2>4 DEF TypeOK, Confirmar, caja, tick
<1>6. ASSUME NEW p \in Procesos, FallarSiempre(p) \/ Fallar(p) PROVE TypeOK'
  <2>1. /\ etapa' = [etapa EXCEPT ![p] = "error"] /\ cola' = cola /\ cola[p] # <<>>
        /\ fallos' = fallos \/ fallos' = fallos + 1
        /\ UNCHANGED <<caja, cuenta, dictamen, tick, apto, reservada>>
    BY <1>6 DEF TypeOK, FallarSiempre, Fallar, Fallo
  <2>. QED  BY <2>1, SMTT(30) DEF TypeOK, caja, cuenta, tick
<1>7. ASSUME NEW p \in Procesos, AnotarError(p) \/ PerderError(p) PROVE TypeOK'
  <2>1. cola[p] # <<>> /\ Head(cola[p]) \in Facturas /\ dictamen[p].snap \in Snaps /\ dictamen[p].ctx \in Contextos
    BY <1>7, HeadType DEF TypeOK, AnotarError, PerderError
  <2>2. fila' \in [Facturas -> Fila \cup {Nada}]
    <3>1. Upsert(Head(cola[p]), "RETRYABLE_ERROR", dictamen[p].snap, dictamen[p].ctx) \in [Facturas -> Fila \cup {Nada}]
      BY <2>1, UpsertRow DEF TypeOK, Reintentables
    <3>. QED  BY <1>7, <3>1 DEF TypeOK, AnotarError, PerderError, cuenta
  <2>3. /\ cola' \in [Procesos -> Seq(Facturas)]
        /\ etapa' \in [Procesos -> {"inicio", "decidido", "error"}]
        /\ dictamen' \in [Procesos -> [que : {"nada", "omitir", "registrada", "acreditar"}, snap : Snaps, ctx : Contextos]]
        /\ \A q \in Procesos : etapa'[q] # "inicio" => cola'[q] # <<>>
    BY <1>7, <2>1, SiguienteStep DEF TypeOK, AnotarError, PerderError
  <2>4. fallidas' \subseteq lote'
    <3>1. p = Reconciliador => Head(cola[p]) \in lote
      BY <2>1, HeadType DEF BatchOnly
    <3>. QED  BY <1>7, <3>1 DEF TypeOK, AnotarError, PerderError, Anotar
  <2>5. /\ UNCHANGED <<caja, acum, reverso, saldo, deuda, fase, lote, cursor, apto, reservada>>
        /\ fallos' = fallos \/ fallos' = fallos + 1
    BY <1>7 DEF AnotarError, PerderError, Fallo, cuenta
  <2>. QED  BY <2>2, <2>3, <2>4, <2>5 DEF TypeOK, caja
<1>8. ASSUME NEW p \in Procesos, Caer(p) PROVE TypeOK'
  <2>1. <<>> \in Seq(Facturas)
    OBVIOUS
  <2>2. SinDictamen \in [que : {"nada", "omitir", "registrada", "acreditar"}, snap : Snaps, ctx : Contextos]
    BY DEF SinDictamen, Snaps, Contextos
  <2>. QED  BY <1>8, <2>1, <2>2 DEF TypeOK, Caer, Fallo, caja, cuenta, tick
<1>9. CASE Listar
  <2>. DEFINE ids == Primeras(Candidatas, Limite)
              caben == Primeras(ids, MaxCola + 1)
  <2>1. ids \subseteq Facturas /\ caben \subseteq ids
    BY DEF Primeras, Candidatas
  <2>2. CASE ids = {}
    BY <1>9, <2>2 DEF TypeOK, Listar, caja, cuenta
  <2>3. CASE ids # {}
    <3>1. PICK q \in [1..Cardinality(caben) -> caben] : cola' = [cola EXCEPT ![Reconciliador] = q]
      BY <1>9, <2>3 DEF Listar
    <3>2. q \in Seq(Facturas) /\ Len(q) = Cardinality(caben)
      BY <2>1, <3>1, QueueOfBatch
    <3>3. Reconciliador \in Procesos /\ etapa[Reconciliador] = "inicio"
      BY <1>9 DEF Listar, BatchOnly, TypeOK, Procesos
    <3>4. cola' \in [Procesos -> Seq(Facturas)] /\ \A p \in Procesos : etapa[p] # "inicio" => cola'[p] # <<>>
      BY <3>1, <3>2, <3>3 DEF TypeOK
    <3>5. /\ fase' = "lote" /\ lote' = ids /\ fallidas' = ids \ caben
          /\ UNCHANGED <<cursor, caja, cuenta, etapa, dictamen, fallos, apto, reservada>>
      BY <1>9, <2>3 DEF Listar
    <3>. HIDE DEF ids, caben
    <3>. QED  BY <2>1, <3>4, <3>5 DEF TypeOK, caja, cuenta
  <2>. QED  BY <2>2, <2>3
<1>10. CASE Concluir
  <2>1. cursor' \in Nat
    <3>1. CASE fallidas = {}
      <4>1. PICK f \in lote : cursor' = f
        BY <1>10, <3>1 DEF Concluir, AvanzaCursor
      <4>2. f \in 1..NumFacturas
        BY <4>1 DEF TypeOK, Facturas
      <4>. QED  BY <4>1, <4>2
    <3>2. CASE fallidas # {}
      <4>1. PICK f \in fallidas : cursor' = f - 1
        BY <1>10, <3>2 DEF Concluir, AvanzaCursor
      <4>2. f \in 1..NumFacturas
        BY <4>1 DEF TypeOK, Facturas
      <4>. QED  BY <4>1, <4>2
    <3>. QED  BY <3>1, <3>2
  <2>. QED  BY <1>10, <2>1 DEF TypeOK, Concluir, caja, cuenta, memoria
<1>11. ASSUME NEW f \in Facturas, NEW u \in 1..Unidades, Revertir(f, u) PROVE TypeOK'
  <2>1. devuelto[f] \in Nat /\ devuelto'[f] \in 0..Unidades /\ devuelto' \in [Facturas -> 0..Unidades]
    BY <1>11 DEF TypeOK, Revertir
  <2>2. Objetivo(f, devuelto'[f]) \in Nat
    BY <2>1, ObjetivoType DEF TypeOK
  <2>3. reverso' \in [Facturas -> Nat] /\ saldo' \in Nat /\ deuda' \in Nat
    <3>. DEFINE meta == Objetivo(f, devuelto'[f])
    <3>1. Menor(meta, saldo) \in Nat /\ Menor(meta, saldo) <= saldo /\ Menor(meta, saldo) <= meta
      BY <2>2, MenorType DEF TypeOK
    <3>2. \/ UNCHANGED <<saldo, reverso, deuda>>
          \/ /\ saldo' = saldo - Menor(meta, saldo)
             /\ reverso' = [reverso EXCEPT ![f] = @ + Menor(meta, saldo)]
             /\ deuda' = deuda + (meta - Menor(meta, saldo))
      BY <1>11 DEF Revertir
    <3>3. meta \in Nat
      BY <2>2
    <3>. HIDE DEF meta
    <3>4. saldo \in Nat /\ deuda \in Nat /\ reverso \in [Facturas -> Nat]
      BY DEF TypeOK
    <3>5. CASE UNCHANGED <<saldo, reverso, deuda>>
      BY <3>4, <3>5
    <3>6. CASE ~ UNCHANGED <<saldo, reverso, deuda>>
      <4>1. saldo' \in Nat /\ deuda' \in Nat
        BY <3>1, <3>2, <3>3, <3>4, <3>6
      <4>2. reverso[f] + Menor(meta, saldo) \in Nat
        BY <3>1, <3>4
      <4>. QED  BY <3>2, <3>4, <3>6, <4>1, <4>2
    <3>. QED  BY <3>5, <3>6
  <2>. QED  BY <1>11, <2>1, <2>3 DEF TypeOK, Revertir, memoria, tick
<1>12. ASSUME NEW n \in 1..saldo, Canjear(n) PROVE TypeOK'
  BY <1>12 DEF TypeOK, Canjear, caja, memoria, tick
<1>13. CASE UNCHANGED vars
  BY <1>13 DEF TypeOK, vars, caja, cuenta, memoria, tick
<1>. QED  BY <1>1, <1>2, <1>3, <1>4, <1>5, <1>6, <1>7, <1>8, <1>9, <1>10, <1>11, <1>12, <1>13, <1>14
            DEF Next, Trabajar
-----------------------------------------------------------------------------
\* The cases of a step, as the lemmas below distinguish them.
LEMMA NextCases ==
  ASSUME [Next]_vars
  PROVE  \/ \E w \in Webs, f \in Facturas : Cobrar(w, f)
         \/ EditarPerfil \/ PasaGracia \/ Listar \/ Concluir
         \/ \E f \in Facturas, c \in {"otro", "vacio"} : Corregir(f, c)
         \/ \E p \in Procesos : \/ Decidir(p) \/ Confirmar(p) \/ FallarSiempre(p)
                                \/ Fallar(p) \/ AnotarError(p) \/ PerderError(p) \/ Caer(p)
         \/ \E f \in Facturas, u \in 1..Unidades : Revertir(f, u)
         \/ \E n \in 1..saldo : Canjear(n)
         \/ UNCHANGED vars
BY DEF Next, Trabajar

\* An invoice is paid for good.
LEMMA PagadaStable ==
  ASSUME [Next]_vars, TypeOK, NEW f \in Facturas, Pagada(f)
  PROVE  Pagada(f)'
<1>1. \A g \in Facturas : cobrada[g] => cobrada'[g]
  <2>1. ASSUME NEW w \in Webs, NEW h \in Facturas, Cobrar(w, h)
        PROVE  \A g \in Facturas : cobrada[g] => cobrada'[g]
    BY <2>1 DEF Cobrar, TypeOK
  <2>2. CASE ~ \E w \in Webs, h \in Facturas : Cobrar(w, h)
    <3>1. cobrada' = cobrada
      BY <2>2, NextCases DEF EditarPerfil, Corregir, PasaGracia, Listar, Concluir, Decidir, Confirmar,
         FallarSiempre, Fallar, AnotarError, PerderError, Caer, Revertir, Canjear, vars, caja
    <3>. QED  BY <3>1
  <2>. QED  BY <2>1, <2>2
<1>. QED  BY <1>1 DEF Pagada

\* An invoice is corrected once, and not before it is charged.
LEMMA ContextoStable ==
  ASSUME [Next]_vars, TypeOK
  PROVE  \A f \in Facturas : /\ contexto[f] # "igual" => contexto'[f] = contexto[f]
                             /\ ~ cobrada[f] => contexto'[f] = contexto[f]
<1>1. ASSUME NEW g \in Facturas, NEW c \in {"otro", "vacio"}, Corregir(g, c)
      PROVE  \A f \in Facturas : /\ contexto[f] # "igual" => contexto'[f] = contexto[f]
                                 /\ ~ cobrada[f] => contexto'[f] = contexto[f]
  BY <1>1 DEF Corregir, TypeOK
<1>2. CASE contexto' = contexto
  BY <1>2
<1>. QED  BY <1>1, <1>2, NextCases DEF Cobrar, EditarPerfil, PasaGracia, Listar, Concluir,
            Decidir, Confirmar, FallarSiempre, Fallar, AnotarError, PerderError, Caer,
            Revertir, Canjear, vars, caja

\* A queue whose process ends its job, or stops, only loses jobs.
LEMMA QueueShrinks ==
  ASSUME TypeOK, NEW p \in Procesos,
         \/ cola[p] # <<>> /\ Siguiente(p)
         \/ cola' = [cola EXCEPT ![p] = <<>>]
  PROVE  /\ \A q \in Procesos : \A i \in 1..Len(cola'[q]) :
              \E j \in 1..Len(cola[q]) : cola'[q][i] = cola[q][j]
         /\ \A q \in Procesos : cola[q] = <<>> => cola'[q] = <<>>
<1>1. CASE cola[p] # <<>> /\ Siguiente(p)
  <2>1. \A i \in 1..Len(cola'[p]) : i + 1 \in 1..Len(cola[p]) /\ cola'[p][i] = cola[p][i + 1]
    <3>1. cola[p] \in Seq(Facturas)
      BY DEF TypeOK
    <3>2. cola'[p] = Tail(cola[p])
      BY <1>1, SiguienteStep
    <3>. QED  BY <1>1, <3>1, <3>2, QueueTail
  <2>2. \A q \in Procesos \ {p} : cola'[q] = cola[q]
    BY <1>1, SiguienteStep
  <2>. QED  BY <1>1, <2>1, <2>2
<1>2. CASE cola' = [cola EXCEPT ![p] = <<>>]
  BY <1>2 DEF TypeOK
<1>. QED  BY <1>1, <1>2

LEMMA QueueStep ==
  TypeOK /\ QueuedPaid /\ BatchOnly /\ [Next]_vars => QueuedPaid' /\ BatchOnly'
<1>. SUFFICES ASSUME TypeOK, QueuedPaid, BatchOnly, [Next]_vars
              PROVE  QueuedPaid' /\ BatchOnly'
  OBVIOUS
<1>0. /\ Reconciliador \in Procesos /\ Webs \subseteq Procesos
      /\ \A p \in Procesos : \A i \in 1..Len(cola[p]) : cola[p][i] \in Facturas
  BY DEF Procesos, TypeOK
<1>1. ASSUME NEW w \in Webs, NEW f \in Facturas, Cobrar(w, f) PROVE QueuedPaid' /\ BatchOnly'
  <2>1. cola' = cola \/ (cola' = [cola EXCEPT ![w] = Encolada(cola[w], f)] /\ Pagada(f)')
    BY <1>1 DEF Cobrar
  <2>2. ASSUME NEW p \in Procesos, NEW i \in 1..Len(cola'[p])
        PROVE  \/ cola'[p][i] = f /\ Pagada(f)'
               \/ i \in 1..Len(cola[p]) /\ cola'[p][i] = cola[p][i]
    <3>1. cola[w] \in Seq(Facturas) /\ w \in Procesos
      BY <1>0 DEF TypeOK
    <3>2. CASE cola' = cola
      BY <3>2
    <3>3. CASE p # w
      BY <2>1, <3>3 DEF TypeOK
    <3>4. CASE cola' # cola /\ p = w
      <4>1. cola'[w] = Encolada(cola[w], f) /\ Pagada(f)'
        BY <2>1, <3>1, <3>4 DEF TypeOK
      <4>2. \A k \in 1..Len(Encolada(cola[w], f)) :
              Encolada(cola[w], f)[k] = f
                \/ (k \in 1..Len(cola[w]) /\ Encolada(cola[w], f)[k] = cola[w][k])
        BY <3>1, QueueEncolada
      <4>3. cola'[p] = Encolada(cola[w], f) /\ i \in 1..Len(Encolada(cola[w], f))
        BY <3>4, <4>1
      <4>4. cola'[p][i] = f \/ (i \in 1..Len(cola[w]) /\ cola'[p][i] = cola[w][i])
        BY <4>2, <4>3
      <4>. QED  BY <3>4, <4>1, <4>4
    <3>. QED  BY <3>2, <3>3, <3>4
  <2>3. QueuedPaid'
    BY <2>2, <1>0, PagadaStable DEF QueuedPaid
  <2>4. cola'[Reconciliador] = cola[Reconciliador] /\ UNCHANGED <<fase, lote>>
    BY <1>1, <2>1, <1>0 DEF TypeOK, Cobrar, tick
  <2>. QED  BY <2>3, <2>4 DEF BatchOnly
<1>2. CASE Listar
  <2>. DEFINE ids == Primeras(Candidatas, Limite)
              caben == Primeras(ids, MaxCola + 1)
  <2>1. caben \subseteq ids /\ caben \subseteq Facturas /\ \A f \in caben : Pagada(f)
    BY DEF Primeras, Candidatas, Pendiente
  <2>2. CASE ids = {}
    <3>1. UNCHANGED <<cola, fase, lote>>
      BY <1>2, <2>2 DEF Listar
    <3>. QED  BY <3>1, <1>0, PagadaStable DEF QueuedPaid, BatchOnly
  <2>3. CASE ids # {}
    <3>1. PICK q \in [1..Cardinality(caben) -> caben] : cola' = [cola EXCEPT ![Reconciliador] = q]
      BY <1>2, <2>3 DEF Listar
    <3>2. \A i \in 1..Len(q) : q[i] \in caben
      BY <2>1, <3>1, QueueOfBatch
    <3>3. fase' = "lote" /\ lote' = ids
      BY <1>2, <2>3 DEF Listar
    <3>4. cola'[Reconciliador] = q /\ \A p \in Procesos \ {Reconciliador} : cola'[p] = cola[p]
      BY <3>1, <1>0 DEF TypeOK
    <3>. HIDE DEF ids, caben
    <3>5. BatchOnly'
      BY <3>2, <3>3, <3>4, <2>1 DEF BatchOnly
    <3>6. ASSUME NEW p \in Procesos, NEW i \in 1..Len(cola'[p]) PROVE Pagada(cola[p][i])'
      <4>1. cola'[p][i] \in Facturas /\ Pagada(cola'[p][i])
        BY <3>2, <3>4, <2>1, <1>0 DEF QueuedPaid
      <4>2. \A f \in Facturas : Pagada(f) => Pagada(f)'
        BY PagadaStable
      <4>. QED  BY <4>1, <4>2 DEF Pagada
    <3>. QED  BY <3>5, <3>6 DEF QueuedPaid
  <2>. QED  BY <2>2, <2>3
<1>3. CASE Concluir
  <2>1. UNCHANGED cola /\ cola[Reconciliador] = <<>>
    BY <1>3 DEF Concluir, memoria
  <2>. QED  BY <2>1, <1>0, PagadaStable DEF QueuedPaid, BatchOnly
<1>4. ASSUME NEW p \in Procesos, Confirmar(p) \/ AnotarError(p) \/ PerderError(p)
      PROVE  QueuedPaid' /\ BatchOnly'
  <2>1. cola[p] # <<>> /\ Siguiente(p) /\ UNCHANGED <<fase, lote>>
    BY <1>4 DEF Confirmar, AnotarError, PerderError, TypeOK, tick
  <2>. QED  BY <2>1, <1>0, QueueShrinks, PagadaStable, SMTT(30) DEF QueuedPaid, BatchOnly
<1>5. ASSUME NEW p \in Procesos, Caer(p) PROVE QueuedPaid' /\ BatchOnly'
  <2>1. cola' = [cola EXCEPT ![p] = <<>>] /\ (p # Reconciliador => UNCHANGED <<fase, lote>>)
    BY <1>5 DEF Caer, tick
  <2>2. QueuedPaid'
    BY <2>1, <1>0, QueueShrinks, PagadaStable DEF QueuedPaid
  <2>3. CASE p = Reconciliador
    <3>1. cola'[Reconciliador] = <<>>
      BY <2>1, <2>3, <1>0 DEF TypeOK
    <3>2. 1..Len(<<>>) = {}
      OBVIOUS
    <3>. QED  BY <3>1, <3>2, <2>2 DEF BatchOnly
  <2>4. CASE p # Reconciliador
    <3>1. cola'[Reconciliador] = cola[Reconciliador]
      BY <2>1, <2>4, <1>0 DEF TypeOK
    <3>2. fase' = fase /\ lote' = lote
      BY <2>1, <2>4
    <3>. QED  BY <3>1, <3>2, <2>2 DEF BatchOnly
  <2>. QED  BY <2>2, <2>3, <2>4
<1>6. CASE UNCHANGED <<cola, fase, lote>>
  BY <1>6, <1>0, PagadaStable DEF QueuedPaid, BatchOnly
<1>. QED  BY <1>1, <1>2, <1>3, <1>4, <1>5, <1>6, NextCases DEF EditarPerfil, Corregir, PasaGracia,
            Decidir, FallarSiempre, Fallar, Revertir, Canjear, vars, memoria, tick
-----------------------------------------------------------------------------
\* The statements about rows and movements of invoices.
RowInv == UnchargedBare /\ ReservedOnRecord /\ PointsOnce /\ JudgedAsPaid

LEMMA RowFrame ==
  ASSUME RowInv, [Next]_vars, TypeOK, UNCHANGED <<fila, acum, cobrada, apto, reservada>>
  PROVE  RowInv'
<1>1. UnchargedBare' /\ JudgedAsPaid'
  BY ContextoStable DEF RowInv, UnchargedBare, JudgedAsPaid, Terminal
<1>. QED  BY <1>1 DEF RowInv, ReservedOnRecord, PointsOnce, Terminal

\* A write on the row of one invoice, which has been charged before.
LEMMA RowWrite ==
  ASSUME TypeOK, RowInv, UNCHANGED <<cobrada, apto, reservada, contexto>>,
         NEW f \in Facturas, cobrada[f],
         NEW st \in Reintentables \cup Terminales, NEW snap \in Snaps, NEW ctx \in Contextos,
         fila' = Upsert(f, st, snap, ctx),
         \A g \in Facturas \ {f} : acum'[g] = acum[g],
         Terminal(f) => acum'[f] = acum[f],
         ~ Terminal(f) =>
           /\ acum'[f] = IF st = "PROCESSED" THEN 1 ELSE 0
           /\ reservada[f] => (st = "PROCESSED" => apto[f] /\ Puntos[f] > 0)
                              /\ (st = "SKIPPED_TERMINAL" /\ apto[f] /\ Puntos[f] > 0
                                    => contexto[f] = "otro")
  PROVE  RowInv'
<1>1. /\ \A g \in Facturas \ {f} : fila'[g] = fila[g]
      /\ fila'[f] # Nada
      /\ Terminal(f) => fila'[f] = fila[f]
      /\ ~ Terminal(f) => fila'[f].st = st
      /\ ConSnapshot(f) => fila'[f].snap = fila[f].snap /\ fila'[f].ctx = fila[f].ctx
  <2>1. fila \in [Facturas -> Fila \cup {Nada}]
    BY DEF TypeOK
  <2>2. /\ \A g \in Facturas \ {f} : Upsert(f, st, snap, ctx)[g] = fila[g]
        /\ Upsert(f, st, snap, ctx)[f] # Nada
        /\ Terminal(f) => Upsert(f, st, snap, ctx)[f] = fila[f]
        /\ ~ Terminal(f) => Upsert(f, st, snap, ctx)[f].st = st
        /\ ConSnapshot(f) => /\ Upsert(f, st, snap, ctx)[f].snap = fila[f].snap
                             /\ Upsert(f, st, snap, ctx)[f].ctx = fila[f].ctx
    BY <2>1, UpsertRow
  <2>. QED  BY <2>2
<1>2. UnchargedBare'
  BY <1>1 DEF RowInv, UnchargedBare
<1>3. ReservedOnRecord'
  BY <1>1 DEF RowInv, ReservedOnRecord, ConSnapshot
<1>4. PointsOnce'
  BY <1>1 DEF RowInv, PointsOnce, Terminal, Terminales, Reintentables
<1>5. JudgedAsPaid'
  BY <1>1 DEF RowInv, JudgedAsPaid, Terminal, Terminales, Reintentables
<1>. QED  BY <1>2, <1>3, <1>4, <1>5 DEF RowInv

\* A charge touches the row of an invoice that left no trace before.
LEMMA RowCobrar ==
  ASSUME TypeOK, RowInv, NEW w \in Webs, NEW f \in Facturas, Cobrar(w, f)
  PROVE  RowInv'
<1>1. /\ ~ cobrada[f] /\ fila[f] = Nada /\ ~ reservada[f] /\ contexto[f] = "igual"
      /\ ~ Terminal(f) /\ ~ ConSnapshot(f)
  BY DEF Cobrar, RowInv, UnchargedBare, Facturas, Terminal, ConSnapshot
<1>2. /\ cobrada' = [cobrada EXCEPT ![f] = TRUE] /\ acum' = acum /\ contexto' = contexto
      /\ apto' = [apto EXCEPT ![f] = Elegibilidad(f) = "completo"]
      /\ \/ UNCHANGED <<fila, reservada>>
         \/ /\ fila' = Upsert(f, "PENDING", Elegibilidad(f), contexto[f])
            /\ reservada' = [reservada EXCEPT ![f] = TRUE]
  BY DEF Cobrar
<1>3. CASE UNCHANGED <<fila, reservada>>
  BY <1>1, <1>2, <1>3
     DEF TypeOK, RowInv, UnchargedBare, ReservedOnRecord, PointsOnce, JudgedAsPaid, Terminal
<1>4. CASE /\ fila' = Upsert(f, "PENDING", Elegibilidad(f), contexto[f])
           /\ reservada' = [reservada EXCEPT ![f] = TRUE]
  <2>1. w \in Procesos
    BY DEF Procesos
  <2>2. /\ \A g \in Facturas \ {f} : fila'[g] = fila[g]
        /\ fila'[f] # Nada /\ fila'[f].st = "PENDING" /\ fila'[f].snap = Elegibilidad(f)
        /\ fila'[f].ctx = "igual"
    BY <1>1, <1>4, <2>1, UpsertRow, SnapshotType DEF TypeOK, Reintentables
  <2>3. apto'[f] = (Elegibilidad(f) = "completo") /\ reservada'[f] /\ cobrada'[f]
    BY <1>2, <1>4 DEF TypeOK
  <2>4. \A g \in Facturas \ {f} : /\ apto'[g] = apto[g] /\ reservada'[g] = reservada[g]
                                  /\ cobrada'[g] = cobrada[g]
    BY <1>2, <1>4 DEF TypeOK
  <2>5. UnchargedBare'
    BY <1>2, <2>2, <2>3, <2>4 DEF RowInv, UnchargedBare
  <2>6. ReservedOnRecord'
    BY <2>2, <2>3, <2>4 DEF RowInv, ReservedOnRecord, Elegibilidad
  <2>7. PointsOnce'
    BY <1>1, <1>2, <2>2 DEF RowInv, PointsOnce, Terminal, Terminales, TypeOK
  <2>8. JudgedAsPaid'
    BY <1>2, <2>2, <2>4 DEF RowInv, JudgedAsPaid, Terminal, Terminales
  <2>. QED  BY <2>5, <2>6, <2>7, <2>8 DEF RowInv
<1>. QED  BY <1>2, <1>3, <1>4

\* The invoice a process works is paid, hence charged.
LEMMA HeadCharged ==
  ASSUME TypeOK, QueuedPaid, NEW p \in Procesos, cola[p] # <<>>
  PROVE  Head(cola[p]) \in Facturas /\ cobrada[Head(cola[p])]
BY HeadType DEF QueuedPaid, Pagada

LEMMA RowConfirmar ==
  ASSUME TypeOK, QueuedPaid, DecisionStands, RowInv, NEW p \in Procesos, Confirmar(p)
  PROVE  RowInv'
<1>. DEFINE f == Head(cola[p])
            d == dictamen[p]
<1>1. f \in Facturas /\ cobrada[f] /\ d.snap \in Snaps /\ d.ctx \in Contextos /\ Right(f, d)
  BY HeadCharged DEF Confirmar, TypeOK, DecisionStands
<1>2. UNCHANGED <<cobrada, apto, reservada, contexto>>
  BY DEF Confirmar, caja
<1>3. CASE d.que = "nada"
  <2>1. [Next]_vars
    BY DEF Next, Trabajar
  <2>. QED  BY <1>2, <1>3, <2>1, RowFrame DEF Confirmar
<1>4. CASE d.que # "nada"
  <2>1. /\ ~ Terminal(f) /\ acum[f] = 0 /\ d.que \in {"omitir", "acreditar"}
        /\ d.que = "acreditar" => d.snap = "completo" /\ Puntos[f] > 0
        /\ reservada[f] =>
             /\ d.snap = (IF apto[f] THEN "completo" ELSE "incompleto")
             /\ d.que = "omitir" => d.snap # "completo" \/ Puntos[f] = 0 \/ contexto[f] = "otro"
    BY <1>1, <1>4 DEF Right, RowInv, ReservedOnRecord
  <2>2. Puntos[f] \in Nat
    BY <1>1
  <2>3. CASE d.que = "omitir"
    <3>1. fila' = Upsert(f, "SKIPPED_TERMINAL", d.snap, d.ctx) /\ acum' = acum
      BY <2>3 DEF Confirmar
    <3>2. reservada[f] /\ apto[f] /\ Puntos[f] > 0 => contexto[f] = "otro"
      BY <2>1, <2>2, <2>3
    <3>. QED  BY <1>1, <1>2, <2>1, <3>1, <3>2, RowWrite DEF Terminales
  <2>4. CASE d.que = "acreditar"
    <3>1. fila' = Upsert(f, "PROCESSED", d.snap, d.ctx) /\ acum' = [acum EXCEPT ![f] = @ + 1]
      BY <2>4 DEF Confirmar
    <3>2. acum'[f] = 1 /\ \A g \in Facturas \ {f} : acum'[g] = acum[g]
      BY <1>1, <2>1, <3>1 DEF TypeOK
    <3>3. reservada[f] => apto[f] /\ Puntos[f] > 0
      BY <2>1, <2>2, <2>4
    <3>. QED  BY <1>1, <1>2, <2>1, <3>1, <3>2, <3>3, RowWrite DEF Terminales
  <2>. QED  BY <2>1, <2>3, <2>4
<1>. QED  BY <1>3, <1>4

LEMMA RowAnotarError ==
  ASSUME TypeOK, QueuedPaid, RowInv, NEW p \in Procesos, AnotarError(p)
  PROVE  RowInv'
<1>. DEFINE f == Head(cola[p])
<1>1. f \in Facturas /\ cobrada[f] /\ dictamen[p].snap \in Snaps /\ dictamen[p].ctx \in Contextos
  BY HeadCharged DEF AnotarError, TypeOK
<1>2. fila' = Upsert(f, "RETRYABLE_ERROR", dictamen[p].snap, dictamen[p].ctx)
      /\ UNCHANGED <<acum, cobrada, apto, reservada, contexto>>
  BY DEF AnotarError, caja
<1>3. ~ Terminal(f) => acum[f] = 0
  <2>1. acum[f] \in Nat /\ acum[f] <= 1 /\ (acum[f] = 1 => Terminal(f))
    BY <1>1 DEF RowInv, PointsOnce, TypeOK
  <2>. QED  BY <2>1
<1>. QED  BY <1>1, <1>2, <1>3, RowWrite DEF Reintentables

LEMMA RowStep ==
  TypeOK /\ QueuedPaid /\ DecisionStands /\ RowInv /\ [Next]_vars => RowInv'
<1>. SUFFICES ASSUME TypeOK, QueuedPaid, DecisionStands, RowInv, [Next]_vars PROVE RowInv'
  OBVIOUS
<1>1. ASSUME NEW w \in Webs, NEW f \in Facturas, Cobrar(w, f) PROVE RowInv'
  BY <1>1, RowCobrar
<1>2. ASSUME NEW p \in Procesos, Confirmar(p) PROVE RowInv'
  BY <1>2, RowConfirmar
<1>3. ASSUME NEW p \in Procesos, AnotarError(p) PROVE RowInv'
  BY <1>3, RowAnotarError
<1>4. CASE UNCHANGED <<fila, acum, cobrada, apto, reservada>>
  BY <1>4, RowFrame
<1>. QED  BY <1>1, <1>2, <1>3, <1>4, NextCases DEF EditarPerfil, Corregir, PasaGracia, Listar, Concluir,
            Decidir, FallarSiempre, Fallar, PerderError, Caer, Revertir, Canjear, vars, caja, cuenta
-----------------------------------------------------------------------------
\* Debt and balance.
LEMMA DebtStep ==
  TypeOK /\ NoCreditWithDebt /\ [Next]_vars => NoCreditWithDebt'
<1>. SUFFICES ASSUME TypeOK, NoCreditWithDebt, [Next]_vars PROVE NoCreditWithDebt'
  OBVIOUS
<1>0. saldo \in Nat /\ deuda \in Nat
  BY DEF TypeOK
<1>1. ASSUME NEW p \in Procesos, Confirmar(p) PROVE NoCreditWithDebt'
  <2>1. CASE UNCHANGED <<saldo, deuda>>
    BY <2>1 DEF NoCreditWithDebt
  <2>2. CASE Abonar(Puntos[Head(cola[p])])
    <3>1. Head(cola[p]) \in Facturas
      BY <1>1, HeadType DEF Confirmar, TypeOK
    <3>2. Puntos[Head(cola[p])] \in Nat
      BY <3>1
    <3>. QED  BY <2>2, <3>2, <1>0, AbonarType DEF NoCreditWithDebt
  <2>. QED  BY <1>1, <2>1, <2>2 DEF Confirmar
<1>2. ASSUME NEW f \in Facturas, NEW u \in 1..Unidades, Revertir(f, u) PROVE NoCreditWithDebt'
  <2>. DEFINE meta == Objetivo(f, devuelto'[f])
  <2>1. CASE UNCHANGED <<saldo, deuda>>
    BY <2>1 DEF NoCreditWithDebt
  <2>2. CASE /\ saldo' = saldo - Menor(meta, saldo)
             /\ deuda' = deuda + (meta - Menor(meta, saldo))
    <3>1. devuelto'[f] \in Nat
      BY <1>2 DEF Revertir, TypeOK
    <3>2. meta \in Nat
      BY <3>1, ObjetivoType DEF TypeOK
    <3>. HIDE DEF meta
    <3>. QED  BY <1>0, <2>2, <3>2 DEF NoCreditWithDebt, Menor
  <2>. QED  BY <1>2, <2>1, <2>2 DEF Revertir
<1>3. ASSUME NEW n \in 1..saldo, Canjear(n) PROVE NoCreditWithDebt'
  BY <1>0, <1>3 DEF NoCreditWithDebt, Canjear
<1>4. CASE UNCHANGED <<saldo, deuda>>
  BY <1>4 DEF NoCreditWithDebt
<1>. QED  BY <1>1, <1>2, <1>3, <1>4, NextCases DEF Cobrar, EditarPerfil, Corregir, PasaGracia, Listar, Concluir,
            Decidir, FallarSiempre, Fallar, AnotarError, PerderError, Caer, vars, cuenta
-----------------------------------------------------------------------------
\* Locks and what was decided under them.
LockInv == LockExclusive /\ DecisionStands /\ DecidedOnEvidence

\* Who decided has something queued.
LEMMA DecidedHead ==
  ASSUME TypeOK, QueuedPaid, NEW p \in Procesos, etapa[p] = "decidido"
  PROVE  cola[p] # <<>> /\ Head(cola[p]) \in Facturas /\ cobrada[Head(cola[p])]
BY HeadCharged DEF TypeOK

\* A process that stays decided, on the same invoice, with rows that only got
\* what upsertAccumulationState allows, is still right.
LEMMA LockFrame ==
  ASSUME TypeOK, QueuedPaid, LockInv, [Next]_vars,
         \A p \in Procesos : etapa'[p] = "decidido" =>
           /\ etapa[p] = "decidido" /\ Head(cola'[p]) = Head(cola[p]) /\ dictamen'[p] = dictamen[p]
           /\ LET f == Head(cola[p])
              IN /\ acum'[f] = acum[f] /\ reservada'[f] = reservada[f]
                 /\ ~ Terminal(f) => ~ Terminal(f)'
                 /\ ConSnapshot(f) => ConSnapshot(f)'
                 /\ reservada[f] => fila'[f].snap = fila[f].snap
  PROVE  LockInv'
<1>1. LockExclusive'
  BY DEF LockInv, LockExclusive
<1>2. ASSUME NEW p \in Procesos, etapa'[p] = "decidido"
      PROVE  Right(Head(cola[p]), dictamen[p])'
  <2>1. Right(Head(cola[p]), dictamen[p])
    BY <1>2 DEF LockInv, DecisionStands
  <2>2. contexto[Head(cola[p])] = "otro" => contexto'[Head(cola[p])] = "otro"
    BY <1>2, ContextoStable, HeadType DEF TypeOK
  <2>. QED  BY <1>2, <2>1, <2>2 DEF Right, Terminal
<1>3. DecisionStands'
  BY <1>2 DEF DecisionStands
<1>4. DecidedOnEvidence'
  <2>1. Reconciliador \in Procesos
    BY DEF Procesos
  <2>. QED  BY <2>1 DEF LockInv, DecidedOnEvidence, ConSnapshot
<1>. QED  BY <1>1, <1>3, <1>4 DEF LockInv

LEMMA LockCobrar ==
  ASSUME TypeOK, QueuedPaid, LockInv, [Next]_vars, NEW w \in Webs, NEW f \in Facturas, Cobrar(w, f)
  PROVE  LockInv'
<1>1. ~ cobrada[f] /\ w \in Procesos
  BY DEF Cobrar, Facturas, Procesos
<1>2. ASSUME NEW p \in Procesos, etapa'[p] = "decidido"
      PROVE  /\ etapa[p] = "decidido" /\ Head(cola'[p]) = Head(cola[p]) /\ dictamen'[p] = dictamen[p]
             /\ Head(cola[p]) \in Facturas \ {f} /\ cola[p] # <<>>
  <2>1. etapa' = etapa /\ dictamen' = dictamen
        /\ (cola' = cola \/ cola' = [cola EXCEPT ![w] = Encolada(cola[w], f)])
    BY DEF Cobrar
  <2>2. cola[p] # <<>> /\ Head(cola[p]) \in Facturas /\ cobrada[Head(cola[p])]
    BY <1>2, <2>1, DecidedHead
  <2>3. Head(Encolada(cola[p], f)) = Head(cola[p])
    BY <2>2, QueueEncolada DEF TypeOK
  <2>4. cola'[p] = cola[p] \/ cola'[p] = Encolada(cola[p], f)
    BY <2>1 DEF TypeOK
  <2>. QED  BY <1>1, <1>2, <2>1, <2>2, <2>3, <2>4
<1>3. ASSUME NEW g \in Facturas \ {f}
      PROVE  fila'[g] = fila[g] /\ acum'[g] = acum[g] /\ reservada'[g] = reservada[g]
  <2>1. Upsert(f, "PENDING", Elegibilidad(f), contexto[f])[g] = fila[g]
    <3>1. fila \in [Facturas -> Fila \cup {Nada}]
      BY DEF TypeOK
    <3>2. Elegibilidad(f) \in Snaps
      BY <1>1, SnapshotType
    <3>3. contexto[f] \in Contextos
      BY DEF TypeOK
    <3>. QED  BY <3>1, <3>2, <3>3, UpsertRow DEF Reintentables
  <2>2. /\ fila' = fila \/ fila' = Upsert(f, "PENDING", Elegibilidad(f), contexto[f])
        /\ reservada' = reservada \/ reservada' = [reservada EXCEPT ![f] = TRUE]
        /\ acum' = acum
    BY DEF Cobrar
  <2>. QED  BY <2>1, <2>2 DEF TypeOK
<1>. QED  BY <1>2, <1>3, LockFrame DEF Terminal, ConSnapshot

LEMMA LockDecidir ==
  ASSUME IInv, NEW p \in Procesos, Decidir(p)
  PROVE  LockInv'
<1>. DEFINE f == Head(cola[p])
            s == Snapshot(p, f)
<1>1. f \in Facturas /\ cola[p] # <<>>
  BY HeadType DEF Decidir, IInv
<1>2. /\ UNCHANGED <<cola, fila, acum, reservada, contexto>>
      /\ etapa'[p] = "decidido" /\ \A q \in Procesos \ {p} : etapa'[q] = etapa[q]
      /\ dictamen'[p] = [que |-> IF Pagada(f) THEN Veredicto(f, s) ELSE "nada",
                         snap |-> s, ctx |-> Contexto(f)]
      /\ \A q \in Procesos \ {p} : dictamen'[q] = dictamen[q]
  BY DEF Decidir, IInv, TypeOK, caja, cuenta
<1>3. Right(f, dictamen'[p])
  <2>1. ~ Terminal(f) => acum[f] = 0
    <3>1. acum[f] \in Nat /\ acum[f] <= 1 /\ (acum[f] = 1 => Terminal(f))
      BY <1>1 DEF IInv, PointsOnce, TypeOK
    <3>. QED  BY <3>1
  <2>2. s \in Snaps
    BY <1>1, SnapshotType DEF IInv
  <2>3. reservada[f] => /\ s = fila[f].snap /\ s # "sin"
                        /\ Contexto(f) = "igual"
    BY <1>1 DEF IInv, ReservedOnRecord, ConSnapshot, Snapshot, Contexto
  <2>4. Puntos[f] \in Nat
    BY <1>1
  <2>. HIDE DEF s
  <2>5. Veredicto(f, s) = "nada" \/
          /\ ~ Terminal(f) /\ acum[f] = 0 /\ Veredicto(f, s) \in {"omitir", "acreditar"}
          /\ Veredicto(f, s) = "acreditar" => s = "completo" /\ Puntos[f] > 0
          /\ reservada[f] /\ Veredicto(f, s) = "omitir" =>
               s # "completo" \/ Puntos[f] = 0 \/ contexto[f] = "otro"
    BY <2>1, <2>2, <2>3, <2>4 DEF Veredicto, Registro, Contradice, Snaps
  <2>. QED  BY <1>1, <1>2, <2>3, <2>5 DEF Right
<1>4. LockExclusive'
  BY <1>2 DEF IInv, LockExclusive, Decidir, Free
<1>5. DecisionStands'
  <2>1. ASSUME NEW q \in Procesos, etapa'[q] = "decidido"
        PROVE  Right(Head(cola[q]), dictamen'[q])
    BY <1>2, <1>3, <2>1 DEF IInv, DecisionStands
  <2>. QED  BY <1>2, <2>1 DEF DecisionStands, Right, Terminal
<1>6. DecidedOnEvidence'
  <2>1. CASE p # Reconciliador
    BY <1>2, <2>1 DEF IInv, DecidedOnEvidence, ConSnapshot, Procesos
  <2>2. CASE p = Reconciliador
    <3>1. dictamen'[p].que = "acreditar" => s # "sin"
      BY <1>2 DEF Veredicto
    <3>2. s # "sin" => f \in ConContacto \/ ConSnapshot(f)
      BY <2>2 DEF Snapshot
    <3>. QED  BY <1>2, <2>2, <3>1, <3>2 DEF DecidedOnEvidence, ConSnapshot
  <2>. QED  BY <2>1, <2>2
<1>. QED  BY <1>4, <1>5, <1>6 DEF LockInv

\* The end of a job by Confirmar: the others work other invoices.
LEMMA LockConfirmar ==
  ASSUME TypeOK, QueuedPaid, LockInv, [Next]_vars, NEW p \in Procesos, Confirmar(p)
  PROVE  LockInv'
<1>1. /\ cola[p] # <<>> /\ Head(cola[p]) \in Facturas /\ dictamen[p].snap \in Snaps /\ dictamen[p].ctx \in Contextos
  BY DecidedHead DEF Confirmar, TypeOK
<1>2. \A g \in Facturas \ {Head(cola[p])} : fila'[g] = fila[g] /\ acum'[g] = acum[g]
  <2>1. \A st \in Terminales : \A g \in Facturas \ {Head(cola[p])} :
          Upsert(Head(cola[p]), st, dictamen[p].snap, dictamen[p].ctx)[g] = fila[g]
    <3>1. fila \in [Facturas -> Fila \cup {Nada}]
      BY DEF TypeOK
    <3>. QED  BY <1>1, <3>1, UpsertRow
  <2>2. /\ \/ fila' = fila
           \/ \E st \in Terminales : fila' = Upsert(Head(cola[p]), st, dictamen[p].snap, dictamen[p].ctx)
        /\ acum' = acum \/ acum' = [acum EXCEPT ![Head(cola[p])] = @ + 1]
    BY DEF Confirmar, Terminales
  <2>. QED  BY <1>1, <2>1, <2>2 DEF TypeOK
<1>3. /\ etapa'[p] = "inicio" /\ reservada' = reservada
      /\ \A q \in Procesos \ {p} : cola'[q] = cola[q] /\ etapa'[q] = etapa[q]
                                   /\ dictamen'[q] = dictamen[q]
  BY <1>1, SiguienteStep DEF Confirmar
<1>4. \A q \in Procesos \ {p} : etapa[q] = "decidido" =>
        Head(cola[q]) \in Facturas \ {Head(cola[p])}
  BY DecidedHead DEF Confirmar, LockInv, LockExclusive
<1>. QED  BY <1>2, <1>3, <1>4, LockFrame DEF Terminal, ConSnapshot

\* The note of a failure, outside any lock: it may meet a decided process on
\* the same invoice, and leaves its decision right.
LEMMA LockAnotarError ==
  ASSUME TypeOK, QueuedPaid, LockInv, ReservedOnRecord, [Next]_vars, NEW p \in Procesos, AnotarError(p)
  PROVE  LockInv'
<1>. DEFINE f == Head(cola[p])
            u == Upsert(f, "RETRYABLE_ERROR", dictamen[p].snap, dictamen[p].ctx)
<1>1. cola[p] # <<>> /\ f \in Facturas /\ dictamen[p].snap \in Snaps /\ dictamen[p].ctx \in Contextos
  BY HeadType DEF AnotarError, TypeOK
<1>2. fila' = u /\ acum' = acum /\ reservada' = reservada
  BY DEF AnotarError
<1>3. /\ \A g \in Facturas \ {f} : u[g] = fila[g]
      /\ u[f] # Nada
      /\ ~ Terminal(f) => u[f].st = "RETRYABLE_ERROR"
      /\ ConSnapshot(f) => u[f].snap = fila[f].snap
  BY <1>1, UpsertRow DEF TypeOK, Reintentables
<1>. HIDE DEF u
<1>4. \A g \in Facturas : /\ ~ Terminal(g) => ~ Terminal(g)'
                          /\ ConSnapshot(g) => ConSnapshot(g)'
                          /\ reservada[g] => fila'[g].snap = fila[g].snap
  BY <1>2, <1>3 DEF Terminal, ConSnapshot, Terminales, ReservedOnRecord
<1>5. /\ etapa'[p] = "inicio"
      /\ \A q \in Procesos \ {p} : cola'[q] = cola[q] /\ etapa'[q] = etapa[q]
                                   /\ dictamen'[q] = dictamen[q]
  BY <1>1, SiguienteStep DEF AnotarError
<1>6. \A q \in Procesos : etapa[q] = "decidido" => Head(cola[q]) \in Facturas
  BY DecidedHead
<1>. QED  BY <1>2, <1>4, <1>5, <1>6, LockFrame

LEMMA LockListar ==
  ASSUME TypeOK, QueuedPaid, BatchOnly, LockInv, [Next]_vars, Listar
  PROVE  LockInv'
<1>1. Reconciliador \in Procesos /\ etapa[Reconciliador] = "inicio"
  BY DEF Listar, BatchOnly, TypeOK, Procesos
<1>2. \A q \in Procesos \ {Reconciliador} : cola'[q] = cola[q]
  BY DEF Listar, TypeOK
<1>3. UNCHANGED <<fila, acum, reservada, etapa, dictamen>>
  BY DEF Listar, cuenta
<1>. QED  BY <1>1, <1>2, <1>3, LockFrame DEF Terminal, ConSnapshot

\* A process that fails, gives up or stops no longer holds anything.
LEMMA LockRelease ==
  ASSUME TypeOK, QueuedPaid, LockInv, [Next]_vars, NEW p \in Procesos,
         FallarSiempre(p) \/ Fallar(p) \/ PerderError(p) \/ Caer(p)
  PROVE  LockInv'
<1>1. UNCHANGED <<fila, acum, reservada>>
  BY DEF FallarSiempre, Fallar, PerderError, Caer, cuenta
<1>2. /\ etapa'[p] # "decidido"
      /\ \A q \in Procesos \ {p} : cola'[q] = cola[q] /\ etapa'[q] = etapa[q]
                                   /\ dictamen'[q] = dictamen[q]
  <2>1. CASE PerderError(p)
    BY <2>1, SiguienteStep DEF PerderError
  <2>2. CASE FallarSiempre(p) \/ Fallar(p) \/ Caer(p)
    BY <2>2 DEF FallarSiempre, Fallar, Caer, TypeOK
  <2>. QED  BY <2>1, <2>2
<1>. QED  BY <1>1, <1>2, LockFrame DEF Terminal, ConSnapshot

LEMMA LockStep == IInv /\ [Next]_vars => LockInv'
<1>. SUFFICES ASSUME IInv, [Next]_vars PROVE LockInv'
  OBVIOUS
<1>0. TypeOK /\ QueuedPaid /\ BatchOnly /\ LockInv /\ ReservedOnRecord
  BY DEF IInv, LockInv
<1>1. ASSUME NEW w \in Webs, NEW f \in Facturas, Cobrar(w, f) PROVE LockInv'
  BY <1>0, <1>1, LockCobrar
<1>2. ASSUME NEW p \in Procesos, Decidir(p) PROVE LockInv'
  BY <1>2, LockDecidir
<1>3. ASSUME NEW p \in Procesos, Confirmar(p) PROVE LockInv'
  BY <1>0, <1>3, LockConfirmar
<1>4. ASSUME NEW p \in Procesos, AnotarError(p) PROVE LockInv'
  BY <1>0, <1>4, LockAnotarError
<1>5. CASE Listar
  BY <1>0, <1>5, LockListar
<1>6. ASSUME NEW p \in Procesos, FallarSiempre(p) \/ Fallar(p) \/ PerderError(p) \/ Caer(p)
      PROVE  LockInv'
  BY <1>0, <1>6, LockRelease
<1>7. CASE UNCHANGED <<fila, acum, reservada, cola, etapa, dictamen>>
  BY <1>0, <1>7, LockFrame DEF Terminal, ConSnapshot
<1>. QED  BY <1>1, <1>2, <1>3, <1>4, <1>5, <1>6, <1>7, NextCases
          DEF EditarPerfil, Corregir, PasaGracia, Concluir, Revertir, Canjear, vars, cuenta, memoria
-----------------------------------------------------------------------------
LEMMA IInvInit == Init => IInv
<1>. SUFFICES ASSUME Init PROVE IInv
  OBVIOUS
<1>1. <<>> \in Seq(Facturas) /\ <<>> \in Seq(Pedidos) /\ 1..Len(<<>>) = {}
  OBVIOUS
<1>2. Reconciliador \in Procesos
  BY DEF Procesos
<1>3. TypeOK
  BY <1>1 DEF Init, TypeOK, SinDictamen, Snaps, Contextos
<1>4. QueuedPaid /\ BatchOnly
  BY <1>1, <1>2 DEF Init, QueuedPaid, BatchOnly
<1>5. UnchargedBare /\ ReservedOnRecord /\ PointsOnce /\ JudgedAsPaid /\ NoCreditWithDebt
  BY DEF Init, UnchargedBare, ReservedOnRecord, PointsOnce, JudgedAsPaid, NoCreditWithDebt, Terminal
<1>6. LockExclusive /\ DecisionStands /\ DecidedOnEvidence
  BY <1>2 DEF Init, LockExclusive, DecisionStands, DecidedOnEvidence
<1>. QED  BY <1>3, <1>4, <1>5, <1>6 DEF IInv

LEMMA IInvStep == IInv /\ [Next]_vars => IInv'
<1>. SUFFICES ASSUME IInv, [Next]_vars PROVE IInv'
  OBVIOUS
<1>1. TypeOK'
  BY TypeStep DEF IInv
<1>2. QueuedPaid' /\ BatchOnly'
  BY QueueStep DEF IInv
<1>3. RowInv'
  BY RowStep DEF IInv, RowInv
<1>4. LockInv'
  BY LockStep
<1>5. NoCreditWithDebt'
  BY DebtStep DEF IInv
<1>. QED  BY <1>1, <1>2, <1>3, <1>4, <1>5 DEF IInv, RowInv, LockInv

LEMMA Invariance == Spec => []IInv
BY IInvInit, IInvStep, PTL DEF Spec

\* The variables of the loyalty account always have their types.
THEOREM TypeCorrect == Spec => []TypeOK
BY Invariance, PTL DEF IInv

\* persistAccumulation credits an invoice once, whoever works it and whatever
\* fails, and its row says so exactly then.
THEOREM PointsOnceHolds == Spec => []PointsOnce
BY Invariance, PTL DEF IInv

\* A reserved accumulation is decided by the eligibility and the context of the
\* payment; only a correction that contradicts them refuses what was earned.
THEOREM JudgedAsPaidHolds == Spec => []JudgedAsPaid
BY Invariance, PTL DEF IInv

\* Whoever owes points has an empty balance.
THEOREM NoCreditWithDebtHolds == Spec => []NoCreditWithDebt
BY Invariance, PTL DEF IInv

\* The reconciliation credits only on a contact or a snapshot on record.
THEOREM ReconcileNeedsEvidenceHolds == Spec => ReconcileNeedsEvidence
<1>1. ASSUME IInv, [Next]_vars, NEW f \in Facturas, Confirmar(Reconciliador), acum'[f] > acum[f]
      PROVE  f \in ConContacto \/ ConSnapshot(f)
  <2>1. Reconciliador \in Procesos /\ acum \in [Facturas -> Nat] /\ acum[f] \in Nat
    BY <1>1 DEF Procesos, IInv, TypeOK
  <2>2. dictamen[Reconciliador].que = "acreditar" /\ f = Head(cola[Reconciliador])
    <3>1. \/ acum' = acum
          \/ /\ dictamen[Reconciliador].que = "acreditar"
             /\ acum' = [acum EXCEPT ![Head(cola[Reconciliador])] = @ + 1]
      BY <1>1 DEF Confirmar
    <3>. QED  BY <1>1, <2>1, <3>1
  <2>. QED  BY <1>1, <2>2 DEF Confirmar, IInv, DecidedOnEvidence
<1>2. IInv /\ [Next]_vars =>
        [\A f \in Facturas : Confirmar(Reconciliador) /\ acum'[f] > acum[f] =>
           f \in ConContacto \/ ConSnapshot(f)]_vars
  BY <1>1
<1>. QED  BY <1>2, Invariance, PTL DEF Spec, ReconcileNeedsEvidence
=============================================================================
