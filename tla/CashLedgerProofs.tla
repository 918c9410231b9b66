-------------------------- MODULE CashLedgerProofs --------------------------
(***************************************************************************)
(* IInv of CashLedger is inductive, for any sessions, invoices, orders,    *)
(* keys and connections.  The argument is two-phase locking: a commit on a *)
(* session is made by the one transaction that holds the lock L of the     *)
(* session, so what another transaction read of a session while it held L  *)
(* is still so, and a session found open under L is still open.            *)
(***************************************************************************)
EXTENDS CashLedger, TLAPS

-----------------------------------------------------------------------------
\* What the plans look like, and what a request names.

LEMMA PlanFacts ==
  /\ Plan["venta"] = <<"L", "S", "K">>
  /\ Plan["pago"] = <<"abierta", "K", "P", "pendiente", "L", "S">>
  /\ Plan["reversion"] = <<"F", "K", "L", "abierta", "P", "saldo">>
  /\ Plan["movimiento"] = <<"L", "S">>
  /\ Plan["revisar"] = <<"L", "S", "foto">>
  /\ Plan["cerrar"] = <<"L", "S", "foto", "vigente">>
BY DEF Plan, PlanOf, VentaPlan, PagoPlan, ReversionPlan, MovimientoPlan, RevisarPlan, CerrarPlan

LEMMA RequestFacts ==
  ASSUME NEW r \in Peticiones
  PROVE  /\ r.op \in {"venta", "pago", "reversion", "movimiento", "revisar", "cerrar"}
         /\ r.s \in Sesiones
         /\ r.op \in {"venta", "pago", "reversion"} => r.k \in Claves
         /\ r.op = "pago" => r.f \in Divisiones
         /\ r.op = "reversion" => r.f \in Facturas /\ r.u \in Nat
         /\ r.op = "cerrar" => r.v \in Revisiones
BY DEF Peticiones

LEMMA ActiveFacts ==
  ASSUME TypeOK, NEW c \in Procs, Active(c)
  PROVE  /\ pet[c] \in Peticiones /\ paso[c] \in Nat
         /\ pet[c].op \in {"venta", "pago", "reversion", "movimiento", "revisar", "cerrar"}
         /\ pet[c].s \in Sesiones
         /\ pet[c].op \in {"venta", "pago", "reversion"} => pet[c].k \in Claves
         /\ pet[c].op = "pago" => pet[c].f \in Divisiones
         /\ pet[c].op = "reversion" => pet[c].f \in Facturas /\ pet[c].u \in Nat
         /\ pet[c].op = "cerrar" => pet[c].v \in Revisiones
BY RequestFacts DEF TypeOK, Active

\* The plan of a request, step by step.
LEMMA StepsFacts ==
  ASSUME NEW c
  PROVE  /\ pet[c].op = "venta" => /\ Len(Steps(c)) = 3 /\ Steps(c)[1] = "L"
                                   /\ Steps(c)[2] = "S" /\ Steps(c)[3] = "K"
         /\ pet[c].op = "pago" => /\ Len(Steps(c)) = 6 /\ Steps(c)[1] = "abierta"
                                  /\ Steps(c)[2] = "K" /\ Steps(c)[3] = "P"
                                  /\ Steps(c)[4] = "pendiente" /\ Steps(c)[5] = "L"
                                  /\ Steps(c)[6] = "S"
         /\ pet[c].op = "reversion" => /\ Len(Steps(c)) = 6 /\ Steps(c)[1] = "F"
                                       /\ Steps(c)[2] = "K" /\ Steps(c)[3] = "L"
                                       /\ Steps(c)[4] = "abierta" /\ Steps(c)[5] = "P"
                                       /\ Steps(c)[6] = "saldo"
         /\ pet[c].op = "movimiento" => /\ Len(Steps(c)) = 2 /\ Steps(c)[1] = "L"
                                        /\ Steps(c)[2] = "S"
         /\ pet[c].op = "revisar" => /\ Len(Steps(c)) = 3 /\ Steps(c)[1] = "L"
                                     /\ Steps(c)[2] = "S" /\ Steps(c)[3] = "foto"
         /\ pet[c].op = "cerrar" => /\ Len(Steps(c)) = 4 /\ Steps(c)[1] = "L"
                                    /\ Steps(c)[2] = "S" /\ Steps(c)[3] = "foto"
                                    /\ Steps(c)[4] = "vigente"
<1> DEFINE op == pet[c].op
<1>1. /\ op = "venta" => Steps(c) = <<"L", "S", "K">>
      /\ op = "pago" => Steps(c) = <<"abierta", "K", "P", "pendiente", "L", "S">>
      /\ op = "reversion" => Steps(c) = <<"F", "K", "L", "abierta", "P", "saldo">>
      /\ op = "movimiento" => Steps(c) = <<"L", "S">>
      /\ op = "revisar" => Steps(c) = <<"L", "S", "foto">>
      /\ op = "cerrar" => Steps(c) = <<"L", "S", "foto", "vigente">>
  BY PlanFacts DEF Steps
<1> HIDE DEF op
<1>2. op = "venta" => /\ Len(Steps(c)) = 3 /\ Steps(c)[1] = "L"
                      /\ Steps(c)[2] = "S" /\ Steps(c)[3] = "K"
  BY <1>1
<1>3. op = "pago" => /\ Len(Steps(c)) = 6 /\ Steps(c)[1] = "abierta" /\ Steps(c)[2] = "K"
                     /\ Steps(c)[3] = "P" /\ Steps(c)[4] = "pendiente" /\ Steps(c)[5] = "L"
                     /\ Steps(c)[6] = "S"
  BY <1>1
<1>4. op = "reversion" => /\ Len(Steps(c)) = 6 /\ Steps(c)[1] = "F" /\ Steps(c)[2] = "K"
                          /\ Steps(c)[3] = "L" /\ Steps(c)[4] = "abierta"
                          /\ Steps(c)[5] = "P" /\ Steps(c)[6] = "saldo"
  BY <1>1
<1>5. op = "movimiento" => /\ Len(Steps(c)) = 2 /\ Steps(c)[1] = "L" /\ Steps(c)[2] = "S"
  BY <1>1
<1>6. op = "revisar" => /\ Len(Steps(c)) = 3 /\ Steps(c)[1] = "L" /\ Steps(c)[2] = "S"
                        /\ Steps(c)[3] = "foto"
  BY <1>1
<1>7. op = "cerrar" => /\ Len(Steps(c)) = 4 /\ Steps(c)[1] = "L" /\ Steps(c)[2] = "S"
                       /\ Steps(c)[3] = "foto" /\ Steps(c)[4] = "vigente"
  BY <1>1
<1> QED BY <1>2, <1>3, <1>4, <1>5, <1>6, <1>7 DEF op

\* A plan checks that the session is open under its lock before a transaction
\* reaches its commit, and makes the other reads the commit relies on.
LEMMA ReadyFacts ==
  ASSUME TypeOK, NEW c \in Procs, Ready(c)
  PROVE  /\ Past(c, "L")
         /\ PastAfter(c, "S", "L") \/ PastAfter(c, "abierta", "L")
         /\ pet[c].op = "pago" => Past(c, "pendiente")
         /\ pet[c].op = "reversion" => Past(c, "saldo")
         /\ pet[c].op \in {"venta", "pago", "reversion"} => Past(c, "K")
         /\ pet[c].op \in {"revisar", "cerrar"} => Past(c, "foto")
         /\ pet[c].op = "cerrar" => Past(c, "vigente")
<1>0. Active(c)
  BY DEF Ready
<1> USE <1>0, ActiveFacts, StepsFacts DEF Ready, Past, PastAfter
<1>1. CASE pet[c].op = "venta"
  BY <1>1
<1>2. CASE pet[c].op = "pago"
  BY <1>2
<1>3. CASE pet[c].op = "reversion"
  BY <1>3
<1>4. CASE pet[c].op = "movimiento"
  BY <1>4
<1>5. CASE pet[c].op = "revisar"
  BY <1>5
<1>6. CASE pet[c].op = "cerrar"
  BY <1>6
<1> QED BY <1>1, <1>2, <1>3, <1>4, <1>5, <1>6

\* The reads are made by the operations that make them, under these locks.
LEMMA ReadFacts ==
  ASSUME TypeOK, NEW c \in Procs
  PROVE  /\ Past(c, "foto") => pet[c].op \in {"revisar", "cerrar"} /\ Past(c, "L")
         /\ Past(c, "vigente") => pet[c].op = "cerrar" /\ Past(c, "L") /\ Past(c, "foto")
         /\ Past(c, "pendiente") => pet[c].op = "pago" /\ Past(c, "P")
         /\ Past(c, "saldo") => pet[c].op = "reversion" /\ Past(c, "L")
         /\ Past(c, "K") => pet[c].op \in {"venta", "pago", "reversion"}
         /\ \A t : PastAfter(c, t, "L") => Past(c, "L")
<1> SUFFICES ASSUME Active(c)
             PROVE  /\ Past(c, "foto") => pet[c].op \in {"revisar", "cerrar"} /\ Past(c, "L")
                    /\ Past(c, "vigente") => pet[c].op = "cerrar" /\ Past(c, "L") /\ Past(c, "foto")
                    /\ Past(c, "pendiente") => pet[c].op = "pago" /\ Past(c, "P")
                    /\ Past(c, "saldo") => pet[c].op = "reversion" /\ Past(c, "L")
                    /\ Past(c, "K") => pet[c].op \in {"venta", "pago", "reversion"}
                    /\ \A t : PastAfter(c, t, "L") => Past(c, "L")
    BY DEF Past, PastAfter
<1> USE ActiveFacts, StepsFacts DEF Past
<1>0. \A t : PastAfter(c, t, "L") => Past(c, "L")
  BY DEF PastAfter
<1>1. CASE pet[c].op = "venta"
  BY <1>0, <1>1
<1>2. CASE pet[c].op = "pago"
  BY <1>0, <1>2, SMTT(30)
<1>3. CASE pet[c].op = "reversion"
  BY <1>0, <1>3, SMTT(30)
<1>4. CASE pet[c].op = "movimiento"
  BY <1>0, <1>4
<1>5. CASE pet[c].op = "revisar"
  BY <1>0, <1>5
<1>6. CASE pet[c].op = "cerrar"
  BY <1>0, <1>6, SMTT(30)
<1> QED BY <1>1, <1>2, <1>3, <1>4, <1>5, <1>6

-----------------------------------------------------------------------------
\* How the locks of a connection change.

\* A connection whose request and step stay keeps its locks and reads.
LEMMA Frame ==
  ASSUME NEW d \in Procs, pet'[d] = pet[d], paso'[d] = paso[d]
  PROVE  /\ Active(d)' = Active(d)
         /\ Held(d)' = Held(d)
         /\ \A t : Past(d, t)' = Past(d, t)
         /\ \A t, u : PastAfter(d, t, u)' = PastAfter(d, t, u)
BY DEF Active, Held, Past, PastAfter, Steps

\* A connection back in the pool has neither.
LEMMA Idle ==
  ASSUME NEW d \in Procs, ~ Active(d)
  PROVE  Held(d) = {} /\ (\A t : ~ Past(d, t)) /\ (\A t, u : ~ PastAfter(d, t, u))
BY DEF Held, Past, PastAfter

LEMMA Released ==
  ASSUME TypeOK, NEW c \in Procs, Release(c)
  PROVE  /\ ~ Active(c)' /\ Held(c)' = {}
         /\ (\A t : ~ Past(c, t)') /\ (\A t, u : ~ PastAfter(c, t, u)')
         /\ \A d \in Procs \ {c} : pet'[d] = pet[d] /\ paso'[d] = paso[d] /\ foto'[d] = foto[d]
         /\ pet' \in [Procs -> Peticiones \cup {Nada}]
         /\ paso' \in [Procs -> Nat \ {0}]
         /\ foto' \in [Procs -> Fotos \cup {Nada}]
         /\ \A d \in Procs : ~ Active(d)' => paso'[d] = 1 /\ foto'[d] = Nada
<1>1. pet'[c] = Nada
  BY DEF Release, TypeOK
<1>2. ~ Active(c)'
  BY <1>1 DEF Active
<1>3. Held(c)' = {} /\ (\A t : ~ Past(c, t)') /\ (\A t, u : ~ PastAfter(c, t, u)')
  BY <1>2 DEF Held, Past, PastAfter
<1>4. \A d \in Procs \ {c} : pet'[d] = pet[d] /\ paso'[d] = paso[d] /\ foto'[d] = foto[d]
  BY DEF Release, TypeOK
<1>5. /\ pet' \in [Procs -> Peticiones \cup {Nada}]
      /\ paso' \in [Procs -> Nat \ {0}]
      /\ foto' \in [Procs -> Fotos \cup {Nada}]
  BY DEF Release, TypeOK
<1>6. \A d \in Procs : ~ Active(d)' => paso'[d] = 1 /\ foto'[d] = Nada
  <2> SUFFICES ASSUME NEW d \in Procs, ~ Active(d)' PROVE paso'[d] = 1 /\ foto'[d] = Nada
      OBVIOUS
  <2>1. CASE d = c
    BY <2>1 DEF Release, TypeOK
  <2>2. CASE d # c
    BY <2>2, <1>4 DEF Active, TypeOK
  <2> QED BY <2>1, <2>2
<1> QED BY <1>2, <1>3, <1>4, <1>5, <1>6

\* A step adds itself to what is behind, and its lock when it has one.
LEMMA Advanced ==
  ASSUME TypeOK, NEW c \in Procs, Advance(c)
  PROVE  /\ Active(c)' /\ pet' = pet
         /\ \A t : Past(c, t)' => Past(c, t) \/ t = Step(c)
         /\ \A t, u : PastAfter(c, t, u)' => PastAfter(c, t, u) \/ (t = Step(c) /\ Past(c, u))
         /\ \A d \in Procs \ {c} : paso'[d] = paso[d] /\ foto'[d] = foto[d]
<1>0. Active(c) /\ pet' = pet /\ paso'[c] = paso[c] + 1 /\ paso[c] \in Nat
      /\ paso[c] \in 1..Len(Steps(c)) /\ Len(Steps(c)) \in Nat
  <2>1. Len(Steps(c)) \in Nat
    BY StepsFacts, ActiveFacts DEF Advance, Pending
  <2> QED BY <2>1 DEF Advance, Pending, TypeOK
<1>1. Active(c)' /\ Steps(c)' = Steps(c)
  BY <1>0 DEF Active, Steps
<1>2. ASSUME NEW t, Past(c, t)' PROVE Past(c, t) \/ t = Step(c)
  <2>1. PICK i \in 1..Len(Steps(c)) : i < paso[c] + 1 /\ Steps(c)[i] = t
    BY <1>0, <1>1, <1>2 DEF Past
  <2>2. i < paso[c] \/ i = paso[c]
    BY <1>0, <2>1
  <2> QED BY <1>0, <2>1, <2>2 DEF Past, Step
<1>3. ASSUME NEW t, NEW u, PastAfter(c, t, u)'
      PROVE  PastAfter(c, t, u) \/ (t = Step(c) /\ Past(c, u))
  <2>1. PICK i, j \in 1..Len(Steps(c)) :
          i < j /\ j < paso[c] + 1 /\ Steps(c)[i] = u /\ Steps(c)[j] = t
    BY <1>0, <1>1, <1>3 DEF PastAfter
  <2>2. j < paso[c] \/ j = paso[c]
    BY <1>0, <2>1
  <2> QED BY <1>0, <2>1, <2>2 DEF PastAfter, Past, Step
<1>4. \A d \in Procs \ {c} : paso'[d] = paso[d] /\ foto'[d] = foto[d]
  BY DEF Advance, TypeOK
<1> QED BY <1>0, <1>1, <1>2, <1>3, <1>4

LEMMA HeldIs ==
  ASSUME NEW c, NEW t \in Bloqueos, Past(c, t)
  PROVE  Recurso(pet[c], t) \in Held(c)
BY DEF Held

\* Two transactions past the same kind of lock took it on different things.
LEMMA Excluded ==
  ASSUME LockExclusion, NEW c \in Procs, NEW d \in Procs, c # d
  PROVE  /\ Past(c, "L") /\ Past(d, "L") => pet[c].s # pet[d].s
         /\ Past(c, "P") /\ Past(d, "P") => PedidoDe[pet[c].f] # PedidoDe[pet[d].f]
         /\ Past(c, "K") /\ Past(d, "K") => pet[c].k # pet[d].k
<1>0. Held(c) \cap Held(d) = {}
  BY DEF LockExclusion
<1>1. \A t \in Bloqueos : Past(c, t) /\ Past(d, t) => Recurso(pet[c], t) # Recurso(pet[d], t)
  BY <1>0, HeldIs
<1>2. /\ Recurso(pet[c], "L") = <<"L", pet[c].s>> /\ Recurso(pet[d], "L") = <<"L", pet[d].s>>
      /\ Recurso(pet[c], "P") = <<"P", PedidoDe[pet[c].f]>>
      /\ Recurso(pet[d], "P") = <<"P", PedidoDe[pet[d].f]>>
      /\ Recurso(pet[c], "K") = <<"K", pet[c].k>> /\ Recurso(pet[d], "K") = <<"K", pet[d].k>>
  BY DEF Recurso
<1>3. Past(c, "L") /\ Past(d, "L") => Recurso(pet[c], "L") # Recurso(pet[d], "L")
  BY <1>1 DEF Bloqueos
<1>4. Past(c, "P") /\ Past(d, "P") => Recurso(pet[c], "P") # Recurso(pet[d], "P")
  BY <1>1 DEF Bloqueos
<1>5. Past(c, "K") /\ Past(d, "K") => Recurso(pet[c], "K") # Recurso(pet[d], "K")
  BY <1>1 DEF Bloqueos
<1> QED BY <1>2, <1>3, <1>4, <1>5

-----------------------------------------------------------------------------
\* What a commit may change, and what the other transactions keep.

UnderLock == OpenUnderLock /\ SnapshotUnderLock /\ BalanceUnderLock /\ KeyUnderLock

\* The writes of c stay in its session, its invoice, its division and its key.
LedgerStep(c) ==
  /\ \A s \in Sesiones : s # pet[c].s => /\ estado'[s] = estado[s] /\ cierre'[s] = cierre[s]
                                         /\ Foto(s)' = Foto(s)
  /\ \A v \in Revisiones :
        revision[v] # Nada /\ revision[v].s # pet[c].s => revision'[v] = revision[v]
  /\ \A f \in Facturas : cobro[f] # Nada => cobro'[f] = cobro[f]
  /\ \A f \in Divisiones : cobro'[f] # cobro[f] => pet[c].op = "pago" /\ f = pet[c].f
  /\ \A f \in Facturas : reversado'[f] # reversado[f] => pet[c].op = "reversion" /\ f = pet[c].f
  /\ \A k \in Claves : clave'[k] # clave[k]
                          => pet[c].op \in {"venta", "pago", "reversion"} /\ k = pet[c].k

LEMMA FotoType ==
  ASSUME TypeOK, NEW s \in Sesiones
  PROVE  Foto(s) \in Fotos
BY DEF TypeOK, Foto, Fotos

\* The state a commit starts from.
LEMMA CommitFacts ==
  ASSUME IInv, NEW c \in Procs, Ready(c)
  PROVE  /\ Active(c) /\ pet[c].s \in Sesiones
         /\ estado[pet[c].s] = "ABIERTA"
         /\ Past(c, "L")
         /\ pet[c].op = "pago" => cobro[pet[c].f] = Nada /\ Past(c, "P")
         /\ pet[c].op = "reversion" => /\ reversado[pet[c].f] + pet[c].u <= Unidades
                                       /\ cobro[pet[c].f] = pet[c].s
         /\ pet[c].op \in {"venta", "pago", "reversion"} => clave[pet[c].k] = Nada /\ Past(c, "K")
         /\ pet[c].op \in {"revisar", "cerrar"} => foto[c] = Foto(pet[c].s)
         /\ pet[c].op = "cerrar" => Vigente(c)
<1>1. TypeOK /\ Active(c)
  BY DEF IInv, Ready
<1> QED BY <1>1, ActiveFacts, ReadyFacts, ReadFacts
        DEF IInv, OpenUnderLock, SnapshotUnderLock, BalanceUnderLock, KeyUnderLock

\* Whoever else is past a check keeps what it checked: c holds the locks of
\* everything it writes.
LEMMA OthersKeep ==
  ASSUME IInv, NEW c \in Procs, Ready(c), Release(c), LedgerStep(c),
         NEW d \in Procs, d # c
  PROVE  /\ PastAfter(d, "S", "L")' \/ PastAfter(d, "abierta", "L")' => estado'[pet'[d].s] = "ABIERTA"
         /\ (Past(d, "foto") => foto[d] = Foto(pet[d].s))'
         /\ Past(d, "vigente")' => Vigente(d)'
         /\ Past(d, "pendiente")' => cobro'[pet'[d].f] = Nada
         /\ Past(d, "saldo")' => reversado'[pet'[d].f] + pet'[d].u <= Unidades
         /\ Active(d)' /\ pet'[d].op = "reversion" => cobro'[pet'[d].f] = pet'[d].s
         /\ Past(d, "K")' => clave'[pet'[d].k] = Nada
<1>0. TypeOK /\ LockExclusion /\ OpenUnderLock /\ SnapshotUnderLock /\ BalanceUnderLock
      /\ KeyUnderLock
  BY DEF IInv
<1>1. pet'[d] = pet[d] /\ paso'[d] = paso[d] /\ foto'[d] = foto[d]
  BY <1>0, Released
<1>2. /\ Active(d)' = Active(d)
      /\ \A t : Past(d, t)' = Past(d, t)
      /\ \A t, u : PastAfter(d, t, u)' = PastAfter(d, t, u)
  BY <1>1, Frame
<1>3. Past(c, "L") /\ (pet[c].op = "pago" => Past(c, "P"))
      /\ (pet[c].op \in {"venta", "pago", "reversion"} => Past(c, "K"))
  BY CommitFacts
<1>4. Past(d, "L") => pet[d].s # pet[c].s
  BY <1>0, <1>3, Excluded
<1>5. Active(d) => /\ pet[d].s \in Sesiones
                   /\ pet[d].op \in {"venta", "pago", "reversion"} => pet[d].k \in Claves
                   /\ pet[d].op = "pago" => pet[d].f \in Divisiones
                   /\ pet[d].op = "reversion" => pet[d].f \in Facturas
                   /\ pet[d].op = "cerrar" => pet[d].v \in Revisiones
  BY <1>0, ActiveFacts
<1>6. \A t : Past(d, t) => Active(d)
  BY DEF Past
<1>7. ASSUME PastAfter(d, "S", "L") \/ PastAfter(d, "abierta", "L")
      PROVE  estado'[pet[d].s] = "ABIERTA"
  <2>1. Past(d, "L") /\ estado[pet[d].s] = "ABIERTA"
    BY <1>0, <1>7, ReadFacts DEF OpenUnderLock
  <2> QED BY <2>1, <1>4, <1>5, <1>6 DEF LedgerStep
<1>8. ASSUME Past(d, "foto") PROVE foto[d] = Foto(pet[d].s)'
  <2>1. Past(d, "L") /\ foto[d] = Foto(pet[d].s)
    BY <1>0, <1>8, ReadFacts DEF SnapshotUnderLock
  <2>2. \A s \in Sesiones : s # pet[c].s => Foto(s)' = Foto(s)
    BY DEF LedgerStep
  <2>3. pet[d].s \in Sesiones /\ pet[d].s # pet[c].s
    BY <2>1, <1>4, <1>5, <1>6
  <2> DEFINE s0 == pet[d].s
  <2>4. Foto(s0)' = Foto(pet[d].s)
    BY <2>2, <2>3, <1>1 DEF Foto
  <2> QED BY <2>1, <2>3, <2>4, <1>1 DEF Foto
<1>9. ASSUME Past(d, "vigente") PROVE Vigente(d)'
  <2>1. Past(d, "L") /\ Vigente(d) /\ pet[d].op = "cerrar"
    BY <1>0, <1>9, ReadFacts DEF SnapshotUnderLock
  <2>2. pet[d].s # pet[c].s /\ pet[d].v \in Revisiones /\ pet[d].s \in Sesiones
    BY <2>1, <1>4, <1>5, <1>6
  <2>3. revision[pet[d].v] # Nada
    <3>1. foto[d] \in Fotos
      BY <1>0, <1>9, <2>2, ReadFacts, FotoType DEF SnapshotUnderLock
    <3>2. revision[pet[d].v] \in Revision
      BY <2>1, <2>2, <3>1 DEF Vigente, Revision
    <3> QED BY <3>2, LedgerAssumption
  <2>4. revision'[pet[d].v] = revision[pet[d].v]
    BY <2>1, <2>2, <2>3 DEF LedgerStep, Vigente
  <2> QED BY <2>1, <2>4, <1>1 DEF Vigente
<1>10. ASSUME Past(d, "pendiente") PROVE cobro'[pet[d].f] = Nada
  <2>1. Past(d, "P") /\ pet[d].op = "pago" /\ cobro[pet[d].f] = Nada
    BY <1>0, <1>10, ReadFacts DEF BalanceUnderLock
  <2>2. pet[c].op = "pago" => pet[c].f # pet[d].f
    BY <1>0, <1>3, <2>1, Excluded
  <2> QED BY <2>1, <2>2, <1>5, <1>6, <1>10 DEF LedgerStep
<1>11. ASSUME Past(d, "saldo")
       PROVE  reversado'[pet[d].f] + pet[d].u <= Unidades
  <2>1. /\ Past(d, "L") /\ pet[d].op = "reversion"
        /\ reversado[pet[d].f] + pet[d].u <= Unidades /\ cobro[pet[d].f] = pet[d].s
    BY <1>0, <1>11, <1>6, ReadFacts DEF BalanceUnderLock
  <2>2. pet[c].op = "reversion" => cobro[pet[c].f] = pet[c].s
    BY <1>0, CommitFacts DEF BalanceUnderLock
  <2>3. pet[c].op = "reversion" => pet[c].f # pet[d].f
    BY <2>1, <2>2, <1>4
  <2> QED BY <2>1, <2>3, <1>5, <1>6, <1>11 DEF LedgerStep
<1>12. ASSUME Active(d), pet[d].op = "reversion" PROVE cobro'[pet[d].f] = pet[d].s
  <2>1. cobro[pet[d].f] = pet[d].s /\ pet[d].f \in Facturas /\ pet[d].s \in Sesiones
    BY <1>0, <1>5, <1>12 DEF BalanceUnderLock
  <2> QED BY <2>1, LedgerAssumption DEF LedgerStep
<1>13. ASSUME Past(d, "K") PROVE clave'[pet[d].k] = Nada
  <2>1. pet[d].op \in {"venta", "pago", "reversion"} /\ clave[pet[d].k] = Nada
    BY <1>0, <1>13, ReadFacts DEF KeyUnderLock
  <2>2. pet[c].op \in {"venta", "pago", "reversion"} => pet[c].k # pet[d].k
    BY <1>0, <1>3, <1>13, Excluded
  <2> QED BY <2>1, <2>2, <1>5, <1>6, <1>13 DEF LedgerStep
<1>14. (Past(d, "foto") => foto[d] = Foto(pet[d].s))'
  BY <1>1, <1>2, <1>8
<1> QED BY <1>1, <1>2, <1>7, <1>9, <1>10, <1>11, <1>12, <1>13, <1>14

LEMMA ReleaseExcludes ==
  ASSUME TypeOK, LockExclusion, NEW c \in Procs, Release(c)
  PROVE  LockExclusion'
<1> SUFFICES ASSUME NEW d \in Procs, NEW e \in Procs, d # e PROVE Held(d)' \cap Held(e)' = {}
    BY DEF LockExclusion
<1>1. Held(c)' = {} /\ \A x \in Procs \ {c} : Held(x)' = Held(x)
  BY Released, Frame
<1> QED BY <1>1 DEF LockExclusion

LEMMA CommitKeeps ==
  ASSUME IInv, NEW c \in Procs, Ready(c), Release(c), LedgerStep(c)
  PROVE  LockExclusion' /\ UnderLock'
<1>0. TypeOK /\ LockExclusion
  BY DEF IInv
<1>1. ~ Active(c)' /\ (\A t : ~ Past(c, t)') /\ (\A t, u : ~ PastAfter(c, t, u)')
  BY <1>0, Released
<1>2. LockExclusion'
  BY <1>0, ReleaseExcludes
<1>3. OpenUnderLock'
  BY <1>1, OthersKeep DEF OpenUnderLock
<1>4. SnapshotUnderLock'
  BY <1>1, OthersKeep DEF SnapshotUnderLock
<1>5. BalanceUnderLock'
  BY <1>1, OthersKeep DEF BalanceUnderLock
<1>6. KeyUnderLock'
  BY <1>1, OthersKeep DEF KeyUnderLock
<1> QED BY <1>2, <1>3, <1>4, <1>5, <1>6 DEF UnderLock

-----------------------------------------------------------------------------
\* The steps that write nothing.

LEMMA LibroSame ==
  ASSUME UNCHANGED libro
  PROVE  /\ \A s : Foto(s)' = Foto(s)
         /\ ClosedLedgerFrozen' = ClosedLedgerFrozen
         /\ CloseWasReviewed' = CloseWasReviewed
         /\ NoOverReversal' = NoOverReversal
<1>1. \A s : Foto(s)' = Foto(s)
  BY DEF libro, Foto
<1>2. \A s : Ligadas(s)' = Ligadas(s)
  BY DEF libro, Ligadas
<1>3. ClosedLedgerFrozen' = ClosedLedgerFrozen
  BY <1>1 DEF libro, ClosedLedgerFrozen
<1>4. CloseWasReviewed' = CloseWasReviewed
  BY <1>2 DEF libro, CloseWasReviewed
<1>5. NoOverReversal' = NoOverReversal
  BY DEF libro, NoOverReversal
<1> QED BY <1>1, <1>3, <1>4, <1>5

\* A connection that stays, in an unchanged ledger.
LEMMA SameKeeps ==
  ASSUME IInv, UNCHANGED libro, NEW d \in Procs,
         pet'[d] = pet[d], paso'[d] = paso[d], foto'[d] = foto[d]
  PROVE  /\ (PastAfter(d, "S", "L") \/ PastAfter(d, "abierta", "L")
               => estado[pet[d].s] = "ABIERTA")'
         /\ (Past(d, "foto") => foto[d] = Foto(pet[d].s))'
         /\ (Past(d, "vigente") => Vigente(d))'
         /\ (Past(d, "pendiente") => cobro[pet[d].f] = Nada)'
         /\ (Past(d, "saldo") => reversado[pet[d].f] + pet[d].u <= Unidades)'
         /\ (Active(d) /\ pet[d].op = "reversion" => cobro[pet[d].f] = pet[d].s)'
         /\ (Past(d, "K") => clave[pet[d].k] = Nada)'
<1>1. /\ Active(d)' = Active(d)
      /\ \A t : Past(d, t)' = Past(d, t)
      /\ \A t, u : PastAfter(d, t, u)' = PastAfter(d, t, u)
  BY Frame
<1>2. Foto(pet[d].s)' = Foto(pet[d].s)
  BY DEF Foto, libro
<1>3. Vigente(d)' = Vigente(d)
  BY DEF Vigente, libro
<1> QED BY <1>1, <1>2, <1>3
        DEF IInv, OpenUnderLock, SnapshotUnderLock, BalanceUnderLock, KeyUnderLock, libro

LEMMA RollbackStep ==
  ASSUME IInv, NEW c \in Procs, Release(c), UNCHANGED libro
  PROVE  IInv'
<1>0. TypeOK /\ LockExclusion /\ ClosedLedgerFrozen /\ CloseWasReviewed /\ NoOverReversal
  BY DEF IInv
<1>1. ~ Active(c)' /\ (\A t : ~ Past(c, t)') /\ (\A t, u : ~ PastAfter(c, t, u)')
  BY <1>0, Released
<1>2. \A d \in Procs \ {c} : pet'[d] = pet[d] /\ paso'[d] = paso[d] /\ foto'[d] = foto[d]
  BY <1>0, Released
<1>3. TypeOK'
  BY <1>0, Released DEF TypeOK, libro
<1>4. LockExclusion'
  BY <1>0, ReleaseExcludes
<1>5. OpenUnderLock'
  BY <1>1, <1>2, SameKeeps DEF OpenUnderLock
<1>6. SnapshotUnderLock'
  BY <1>1, <1>2, SameKeeps DEF SnapshotUnderLock
<1>7. BalanceUnderLock'
  BY <1>1, <1>2, SameKeeps DEF BalanceUnderLock
<1>8. KeyUnderLock'
  BY <1>1, <1>2, SameKeeps DEF KeyUnderLock
<1>9. ClosedLedgerFrozen' /\ CloseWasReviewed' /\ NoOverReversal'
  BY <1>0, LibroSame
<1> QED BY <1>3, <1>4, <1>5, <1>6, <1>7, <1>8, <1>9 DEF IInv

LEMMA BeginStep ==
  ASSUME IInv, NEW c \in Procs, Begin(c)
  PROVE  IInv'
<1>0. TypeOK /\ LockExclusion /\ ClosedLedgerFrozen /\ CloseWasReviewed /\ NoOverReversal
  BY DEF IInv
<1>1. PICK r \in Peticiones : Fits(r) /\ pet' = [pet EXCEPT ![c] = r]
  BY DEF Begin
<1>2. ~ Active(c) /\ UNCHANGED <<libro, paso, foto>>
  BY DEF Begin
<1>3. pet'[c] = r /\ paso'[c] = 1 /\ paso[c] = 1 /\ foto'[c] = Nada
  BY <1>0, <1>1, <1>2 DEF TypeOK
<1>4. Held(c)' = {} /\ (\A t : ~ Past(c, t)') /\ (\A t, u : ~ PastAfter(c, t, u)')
  <2>1. \A t : ~ Past(c, t)'
    BY <1>3 DEF Past
  <2>2. \A t, u : ~ PastAfter(c, t, u)'
    BY <1>3 DEF PastAfter
  <2> QED BY <2>1, <2>2 DEF Held
<1>5. \A d \in Procs \ {c} : pet'[d] = pet[d] /\ paso'[d] = paso[d] /\ foto'[d] = foto[d]
  BY <1>0, <1>1, <1>2 DEF TypeOK
<1>6. TypeOK'
  <2>1. pet' \in [Procs -> Peticiones \cup {Nada}]
    BY <1>0, <1>1 DEF TypeOK
  <2>2. \A d \in Procs : ~ Active(d)' => paso'[d] = 1 /\ foto'[d] = Nada
    BY <1>0, <1>3, <1>5 DEF TypeOK, Active
  <2> QED BY <1>0, <1>2, <2>1, <2>2 DEF TypeOK, libro
<1>7. LockExclusion'
  <2> SUFFICES ASSUME NEW d \in Procs, NEW e \in Procs, d # e
               PROVE  Held(d)' \cap Held(e)' = {}
      BY DEF LockExclusion
  <2>1. \A x \in Procs \ {c} : Held(x)' = Held(x)
    BY <1>5, Frame
  <2> QED BY <1>0, <1>4, <2>1 DEF LockExclusion
<1>8. UNCHANGED libro
  BY <1>2
<1>9. OpenUnderLock'
  BY <1>4, <1>5, <1>8, SameKeeps DEF OpenUnderLock
<1>10. SnapshotUnderLock'
  BY <1>4, <1>5, <1>8, SameKeeps DEF SnapshotUnderLock
<1>11. BalanceUnderLock'
  <2>1. r.op = "reversion" => cobro'[r.f] = r.s
    BY <1>1, <1>8 DEF Fits, libro
  <2> QED BY <1>3, <1>4, <1>5, <1>8, <2>1, SameKeeps DEF BalanceUnderLock
<1>12. KeyUnderLock'
  BY <1>4, <1>5, <1>8, SameKeeps DEF KeyUnderLock
<1>13. ClosedLedgerFrozen' /\ CloseWasReviewed' /\ NoOverReversal'
  BY <1>0, <1>8, LibroSame
<1> QED BY <1>6, <1>7, <1>9, <1>10, <1>11, <1>12, <1>13 DEF IInv

LEMMA AdvanceStep ==
  ASSUME IInv, NEW c \in Procs, Advance(c)
  PROVE  IInv'
<1>0. TypeOK /\ LockExclusion /\ ClosedLedgerFrozen /\ CloseWasReviewed /\ NoOverReversal
  BY DEF IInv
<1>1. /\ Active(c)' /\ pet' = pet /\ UNCHANGED libro
      /\ \A t : Past(c, t)' => Past(c, t) \/ t = Step(c)
      /\ \A t, u : PastAfter(c, t, u)' => PastAfter(c, t, u) \/ (t = Step(c) /\ Past(c, u))
      /\ \A d \in Procs \ {c} : paso'[d] = paso[d] /\ foto'[d] = foto[d]
  BY <1>0, Advanced DEF Advance
<1>2. Active(c) /\ ~ Blocked(c) /\ Passes(c, Step(c))
  BY DEF Advance, Pending
<1>3. /\ foto'[c] = IF Step(c) = "foto" THEN Foto(pet[c].s) ELSE foto[c]
      /\ pet[c].s \in Sesiones
  BY <1>0, <1>2, ActiveFacts DEF Advance, TypeOK
<1>4. TypeOK'
  <2>1. paso' \in [Procs -> Nat \ {0}]
    BY <1>0 DEF Advance, TypeOK
  <2>2. foto' \in [Procs -> Fotos \cup {Nada}]
    BY <1>0, <1>3, FotoType DEF Advance, TypeOK
  <2>3. \A d \in Procs : ~ Active(d)' => paso'[d] = 1 /\ foto'[d] = Nada
    BY <1>0, <1>1 DEF TypeOK, Active
  <2> QED BY <1>0, <1>1, <2>1, <2>2, <2>3 DEF TypeOK, libro
<1>5. LockExclusion'
  <2>1. \A x \in Procs \ {c} : Held(x)' = Held(x)
    BY <1>1, Frame
  <2>2. \A d \in Procs \ {c} : Held(c)' \cap Held(d) = {}
    <3> SUFFICES ASSUME NEW d \in Procs \ {c}, NEW r \in Held(c)' PROVE r \notin Held(d)
        OBVIOUS
    <3>1. PICK t \in Bloqueos : Past(c, t)' /\ r = Recurso(pet'[c], t)
      BY DEF Held
    <3>2. r = Recurso(pet[c], t)
      BY <1>1, <3>1
    <3>3. CASE Past(c, t)
      BY <1>0, <3>2, <3>3, HeldIs DEF LockExclusion
    <3>4. CASE t = Step(c)
      BY <1>2, <3>1, <3>2, <3>4 DEF Blocked
    <3> QED BY <1>1, <3>1, <3>3, <3>4
  <2> QED BY <1>0, <2>1, <2>2 DEF LockExclusion
<1>6. \A t : Past(c, t)' => Past(c, t) \/ t = Step(c)
  BY <1>1
<1>7. OpenUnderLock'
  <2>1. PastAfter(c, "S", "L")' \/ PastAfter(c, "abierta", "L")' => estado[pet[c].s] = "ABIERTA"
    BY <1>1, <1>2 DEF IInv, OpenUnderLock, Passes
  <2> QED BY <1>1, <2>1, SameKeeps DEF OpenUnderLock, libro
<1>8. SnapshotUnderLock'
  <2>1. (Past(c, "foto") => foto[c] = Foto(pet[c].s))'
    <3>1. Foto(pet[c].s)' = Foto(pet[c].s)
      BY <1>1 DEF Foto, libro
    <3> QED BY <1>3, <1>6, <3>1 DEF IInv, SnapshotUnderLock
  <2>2. (Past(c, "vigente") => Vigente(c))'
    <3>1. CASE Past(c, "vigente")
      <4>1. Vigente(c) /\ foto[c] = Foto(pet[c].s)
        BY <1>0, <3>1, ReadFacts DEF IInv, SnapshotUnderLock
      <4> QED BY <1>1, <1>3, <4>1 DEF Vigente, libro
    <3>2. CASE Step(c) = "vigente"
      BY <1>1, <1>2, <1>3, <3>2 DEF Passes, Vigente, libro
    <3> QED BY <1>6, <3>1, <3>2
  <2> QED BY <1>1, <2>1, <2>2, SameKeeps DEF SnapshotUnderLock
<1>9. BalanceUnderLock'
  <2>1. /\ (Past(c, "pendiente") => cobro[pet[c].f] = Nada)'
        /\ (Past(c, "saldo") => reversado[pet[c].f] + pet[c].u <= Unidades)'
        /\ (Active(c) /\ pet[c].op = "reversion" => cobro[pet[c].f] = pet[c].s)'
    BY <1>1, <1>2 DEF IInv, BalanceUnderLock, Passes, libro
  <2> QED BY <1>1, <2>1, SameKeeps DEF BalanceUnderLock
<1>10. KeyUnderLock'
  <2>1. (Past(c, "K") => clave[pet[c].k] = Nada)'
    BY <1>1, <1>2 DEF IInv, KeyUnderLock, Passes, libro
  <2> QED BY <1>1, <2>1, SameKeeps DEF KeyUnderLock
<1>11. ClosedLedgerFrozen' /\ CloseWasReviewed' /\ NoOverReversal'
  BY <1>0, <1>1, LibroSame
<1> QED BY <1>4, <1>5, <1>7, <1>8, <1>9, <1>10, <1>11 DEF IInv

-----------------------------------------------------------------------------
\* The commits.

LibroType ==
  /\ estado \in [Sesiones -> {"ABIERTA", "CERRADA"}]
  /\ cobro \in [Facturas -> Sesiones \cup {Nada}]
  /\ reversado \in [Facturas -> Nat]
  /\ movs \in [Sesiones -> Nat]
  /\ pedido \in [Pedidos -> [estado : {"ACTIVO", "CANCELADO"},
                             pago : {"PENDIENTE", "PAGADO_CONFIRMADO", "PAGO_ANULADO"}]]
  /\ revision \in [Revisiones -> Revision \cup {Nada}]
  /\ cierre \in [Sesiones -> Fotos \cup {Nada}]
  /\ clave \in [Claves -> Peticiones \cup {Nada}]

\* What is left to show of a commit that respects the locks.
LEMMA CommitStep ==
  ASSUME IInv, NEW c \in Procs, Ready(c), Release(c), LedgerStep(c), LibroType',
         ClosedLedgerFrozen', CloseWasReviewed', NoOverReversal'
  PROVE  IInv'
<1>1. TypeOK'
  BY Released DEF IInv, TypeOK, LibroType
<1> QED BY <1>1, CommitKeeps DEF IInv, UnderLock

\* The part of a snapshot that is about the invoices and movements of s.
LEMMA FotoSame ==
  ASSUME NEW s \in Sesiones, movs'[s] = movs[s],
         \A f \in Facturas : /\ (cobro'[f] = s) = (cobro[f] = s)
                             /\ cobro[f] = s => reversado'[f] = reversado[f]
  PROVE  Foto(s)' = Foto(s)
<1>1. {f \in Facturas : cobro[f] = s}' = {f \in Facturas : cobro[f] = s}
  OBVIOUS
<1>2. [f \in Facturas |-> IF cobro[f] = s THEN reversado[f] ELSE 0]'
        = [f \in Facturas |-> IF cobro[f] = s THEN reversado[f] ELSE 0]
  OBVIOUS
<1> QED BY <1>1, <1>2 DEF Foto

\* The closed sessions are not that of c, and their ledgers do not change.
LEMMA OpenCommitFrozen ==
  ASSUME IInv, NEW c \in Procs, Ready(c), LedgerStep(c), UNCHANGED estado
  PROVE  ClosedLedgerFrozen'
<1> SUFFICES ASSUME NEW s \in Sesiones, estado[s] = "CERRADA"
             PROVE  (cierre[s] = Foto(s))'
    BY DEF ClosedLedgerFrozen
<1>1. s # pet[c].s
  BY CommitFacts
<1> QED BY <1>1 DEF LedgerStep, IInv, ClosedLedgerFrozen

LEMMA SameReviews ==
  ASSUME CloseWasReviewed, UNCHANGED <<estado, revision, cierre>>
  PROVE  CloseWasReviewed'
<1>1. \A s : Ligadas(s)' = Ligadas(s)
  BY DEF Ligadas
<1> QED BY <1>1 DEF CloseWasReviewed

LEMMA SaleStep ==
  ASSUME IInv, NEW c \in Procs, CommitSale(c)
  PROVE  IInv'
<1>0. TypeOK /\ Ready(c) /\ Release(c) /\ pet[c].op = "venta"
      /\ UNCHANGED <<estado, reversado, movs, revision, cierre>>
  BY DEF IInv, CommitSale, Committing
<1>1. PICK f \in Directas : cobro[f] = Nada /\ cobro' = [cobro EXCEPT ![f] = pet[c].s]
                            /\ pedido' = [pedido EXCEPT ![PedidoDe[f]].pago = "PAGADO_CONFIRMADO"]
  BY DEF CommitSale
<1>2. clave' = [clave EXCEPT ![pet[c].k] = pet[c]]
  BY DEF CommitSale, Reserved
<1>3. /\ Active(c) /\ pet[c].s \in Sesiones /\ pet[c].k \in Claves
      /\ pet[c] \in Peticiones /\ f \in Facturas /\ PedidoDe[f] \in Pedidos
  BY <1>0, ActiveFacts, LedgerAssumption DEF Ready, Facturas
<1>4. cobro \in [Facturas -> Sesiones \cup {Nada}] /\ clave \in [Claves -> Peticiones \cup {Nada}]
  BY <1>0 DEF TypeOK
<1>5. LedgerStep(c)
  <2>1. \A s \in Sesiones : s # pet[c].s => Foto(s)' = Foto(s)
    <3> SUFFICES ASSUME NEW s \in Sesiones, s # pet[c].s PROVE Foto(s)' = Foto(s)
        OBVIOUS
    <3>1. s # Nada
      BY LedgerAssumption
    <3>2. \A g \in Facturas : (cobro'[g] = s) = (cobro[g] = s)
      BY <1>1, <1>3, <1>4, <3>1
    <3> QED BY <1>0, <3>2, FotoSame
  <2>2. \A g \in Facturas : cobro[g] # Nada => cobro'[g] = cobro[g]
    BY <1>1, <1>3, <1>4
  <2>3. \A g \in Divisiones : cobro'[g] = cobro[g]
    BY <1>1, <1>3, <1>4, LedgerAssumption DEF Facturas
  <2>4. \A k \in Claves : clave'[k] # clave[k] => k = pet[c].k
    BY <1>2, <1>4
  <2> QED BY <1>0, <2>1, <2>2, <2>3, <2>4 DEF LedgerStep
<1>6. LibroType'
  <2>1. cobro' \in [Facturas -> Sesiones \cup {Nada}]
    BY <1>1, <1>3, <1>4
  <2>2. clave' \in [Claves -> Peticiones \cup {Nada}]
    BY <1>2, <1>3, <1>4
  <2>3. pedido' \in [Pedidos -> [estado : {"ACTIVO", "CANCELADO"},
                                 pago : {"PENDIENTE", "PAGADO_CONFIRMADO", "PAGO_ANULADO"}]]
    BY <1>0, <1>1, <1>3 DEF TypeOK
  <2> QED BY <1>0, <2>1, <2>2, <2>3 DEF LibroType, TypeOK
<1>7. ClosedLedgerFrozen'
  BY <1>0, <1>5, OpenCommitFrozen
<1>8. CloseWasReviewed'
  BY <1>0, SameReviews DEF IInv
<1>9. NoOverReversal'
  BY <1>0, <1>5 DEF IInv, NoOverReversal, LedgerStep
<1> QED BY <1>0, <1>5, <1>6, <1>7, <1>8, <1>9, CommitStep

LEMMA PaymentStep ==
  ASSUME IInv, NEW c \in Procs, CommitPayment(c)
  PROVE  IInv'
<1> DEFINE f == pet[c].f
           p == PedidoDe[f]
<1>0. TypeOK /\ Ready(c) /\ Release(c) /\ pet[c].op = "pago"
      /\ UNCHANGED <<estado, reversado, movs, revision, cierre>>
  BY DEF IInv, CommitPayment, Committing
<1>1. cobro' = [cobro EXCEPT ![f] = pet[c].s] /\ clave' = [clave EXCEPT ![pet[c].k] = pet[c]]
      /\ pedido' \in {pedido, [pedido EXCEPT ![p].pago = "PAGADO_CONFIRMADO"]}
  BY DEF CommitPayment, Reserved
<1>2. cobro[f] = Nada
  BY <1>0, CommitFacts
<1>3. /\ Active(c) /\ pet[c].s \in Sesiones /\ pet[c].k \in Claves
      /\ pet[c] \in Peticiones /\ f \in Facturas /\ p \in Pedidos
  BY <1>0, ActiveFacts, LedgerAssumption DEF Ready, Facturas
<1>4. cobro \in [Facturas -> Sesiones \cup {Nada}] /\ clave \in [Claves -> Peticiones \cup {Nada}]
  BY <1>0 DEF TypeOK
<1>5. LedgerStep(c)
  <2>1. \A s \in Sesiones : s # pet[c].s => Foto(s)' = Foto(s)
    <3> SUFFICES ASSUME NEW s \in Sesiones, s # pet[c].s PROVE Foto(s)' = Foto(s)
        OBVIOUS
    <3>1. s # Nada
      BY LedgerAssumption
    <3>2. \A g \in Facturas : (cobro'[g] = s) = (cobro[g] = s)
      BY <1>1, <1>2, <1>3, <1>4, <3>1
    <3> QED BY <1>0, <3>2, FotoSame
  <2>2. \A g \in Facturas : cobro[g] # Nada => cobro'[g] = cobro[g]
    BY <1>1, <1>2, <1>3, <1>4
  <2>3. \A g \in Facturas : cobro'[g] # cobro[g] => g = f
    BY <1>1, <1>4
  <2>4. \A k \in Claves : clave'[k] # clave[k] => k = pet[c].k
    BY <1>1, <1>4
  <2> QED BY <1>0, <2>1, <2>2, <2>3, <2>4 DEF LedgerStep, Facturas
<1>6. LibroType'
  <2>1. cobro' \in [Facturas -> Sesiones \cup {Nada}]
    BY <1>1, <1>3, <1>4
  <2>2. clave' \in [Claves -> Peticiones \cup {Nada}]
    BY <1>1, <1>3, <1>4
  <2>3. pedido' \in [Pedidos -> [estado : {"ACTIVO", "CANCELADO"},
                                 pago : {"PENDIENTE", "PAGADO_CONFIRMADO", "PAGO_ANULADO"}]]
    BY <1>0, <1>1, <1>3 DEF TypeOK
  <2> QED BY <1>0, <2>1, <2>2, <2>3 DEF LibroType, TypeOK
<1>7. ClosedLedgerFrozen'
  BY <1>0, <1>5, OpenCommitFrozen
<1>8. CloseWasReviewed'
  BY <1>0, SameReviews DEF IInv
<1>9. NoOverReversal'
  BY <1>0, <1>5 DEF IInv, NoOverReversal, LedgerStep
<1> QED BY <1>0, <1>5, <1>6, <1>7, <1>8, <1>9, CommitStep

LEMMA ReversalStep ==
  ASSUME IInv, NEW c \in Procs, CommitReversal(c)
  PROVE  IInv'
<1> DEFINE f == pet[c].f
           p == PedidoDe[f]
           nulo == [estado |-> "CANCELADO", pago |-> "PAGO_ANULADO"]
<1>0. TypeOK /\ Ready(c) /\ Release(c) /\ pet[c].op = "reversion"
      /\ UNCHANGED <<estado, cobro, movs, revision, cierre>>
  BY DEF IInv, CommitReversal, Committing
<1>1. reversado' = [reversado EXCEPT ![f] = @ + pet[c].u]
      /\ clave' = [clave EXCEPT ![pet[c].k] = pet[c]]
      /\ pedido' \in {pedido, [pedido EXCEPT ![p] = nulo]}
  BY DEF CommitReversal, Reserved
<1>2. reversado[f] + pet[c].u <= Unidades /\ cobro[f] = pet[c].s
  BY <1>0, CommitFacts
<1>3. /\ Active(c) /\ pet[c].s \in Sesiones /\ pet[c].k \in Claves /\ pet[c].u \in Nat
      /\ pet[c] \in Peticiones /\ f \in Facturas /\ p \in Pedidos
  BY <1>0, ActiveFacts, LedgerAssumption DEF Ready
<1>4. reversado \in [Facturas -> Nat] /\ clave \in [Claves -> Peticiones \cup {Nada}]
  BY <1>0 DEF TypeOK
<1>5. LedgerStep(c)
  <2>1. \A g \in Facturas : reversado'[g] # reversado[g] => g = f
    BY <1>1, <1>4
  <2>2. \A s \in Sesiones : s # pet[c].s => Foto(s)' = Foto(s)
    BY <1>0, <1>2, <2>1, FotoSame
  <2>3. \A k \in Claves : clave'[k] # clave[k] => k = pet[c].k
    BY <1>1, <1>4
  <2> QED BY <1>0, <2>1, <2>2, <2>3 DEF LedgerStep
<1>6. LibroType'
  <2>1. reversado' \in [Facturas -> Nat]
    BY <1>1, <1>3, <1>4
  <2>2. clave' \in [Claves -> Peticiones \cup {Nada}]
    BY <1>1, <1>3, <1>4
  <2>3. pedido' \in [Pedidos -> [estado : {"ACTIVO", "CANCELADO"},
                                 pago : {"PENDIENTE", "PAGADO_CONFIRMADO", "PAGO_ANULADO"}]]
    BY <1>0, <1>1, <1>3 DEF TypeOK
  <2> QED BY <1>0, <2>1, <2>2, <2>3 DEF LibroType, TypeOK
<1>7. ClosedLedgerFrozen'
  BY <1>0, <1>5, OpenCommitFrozen
<1>8. CloseWasReviewed'
  BY <1>0, SameReviews DEF IInv
<1>9. NoOverReversal'
  <2> SUFFICES ASSUME NEW g \in Facturas
               PROVE  reversado'[g] <= Unidades /\ (reversado'[g] > 0 => cobro'[g] # Nada)
      BY DEF NoOverReversal
  <2>1. CASE g = f
    BY <1>0, <1>1, <1>2, <1>3, <1>4, <2>1, LedgerAssumption
  <2>2. CASE g # f
    BY <1>0, <1>1, <1>4, <2>2 DEF IInv, NoOverReversal
  <2> QED BY <2>1, <2>2
<1> QED BY <1>0, <1>5, <1>6, <1>7, <1>8, <1>9, CommitStep

LEMMA MovementStep ==
  ASSUME IInv, NEW c \in Procs, CommitMovement(c)
  PROVE  IInv'
<1>0. TypeOK /\ Ready(c) /\ Release(c) /\ pet[c].op = "movimiento"
      /\ UNCHANGED <<estado, cobro, reversado, pedido, revision, cierre, clave>>
  BY DEF IInv, CommitMovement, Committing
<1>1. movs' = [movs EXCEPT ![pet[c].s] = @ + 1] /\ movs \in [Sesiones -> Nat]
  BY <1>0 DEF CommitMovement, TypeOK
<1>2. \A s \in Sesiones : s # pet[c].s => Foto(s)' = Foto(s)
  BY <1>0, <1>1, FotoSame
<1>3. LedgerStep(c)
  BY <1>0, <1>2 DEF LedgerStep
<1>4. LibroType'
  <2>1. pet[c].s \in Sesiones /\ movs[pet[c].s] + 1 \in Nat
    BY <1>0, <1>1, CommitFacts
  <2>2. movs' \in [Sesiones -> Nat]
    BY <1>1, <2>1
  <2> QED BY <1>0, <2>2 DEF LibroType, TypeOK
<1>5. ClosedLedgerFrozen'
  BY <1>0, <1>3, OpenCommitFrozen
<1>6. CloseWasReviewed' /\ NoOverReversal'
  BY <1>0, SameReviews DEF IInv, NoOverReversal
<1> QED BY <1>0, <1>3, <1>4, <1>5, <1>6, CommitStep

\* A review is written in a free row, and not linked to any close.
LEMMA ReviewStep ==
  ASSUME IInv, NEW c \in Procs, CommitReview(c)
  PROVE  IInv'
<1> DEFINE nueva == [s |-> pet[c].s, foto |-> foto[c], cierre |-> FALSE]
<1>0. TypeOK /\ Ready(c) /\ Release(c) /\ pet[c].op = "revisar"
      /\ UNCHANGED <<estado, cobro, reversado, movs, pedido, cierre, clave>>
  BY DEF IInv, CommitReview, Committing
<1>1. \/ UNCHANGED revision
      \/ \E v \in Revisiones : revision[v] = Nada /\ revision' = [revision EXCEPT ![v] = nueva]
  BY DEF CommitReview
<1>2. nueva \in Revision
  BY <1>0, CommitFacts, FotoType DEF Revision
<1>3. revision \in [Revisiones -> Revision \cup {Nada}]
  BY <1>0 DEF TypeOK
<1>4. \A v \in Revisiones : revision'[v] = revision[v] \/ (revision[v] = Nada /\ revision'[v] = nueva)
  BY <1>1, <1>3
<1>5. \A s \in Sesiones : Foto(s)' = Foto(s)
  BY <1>0, FotoSame
<1>6. LedgerStep(c)
  BY <1>0, <1>4, <1>5 DEF LedgerStep
<1>7. LibroType'
  <2>1. revision' \in [Revisiones -> Revision \cup {Nada}]
    BY <1>1, <1>2, <1>3
  <2> QED BY <1>0, <2>1 DEF LibroType, TypeOK
<1>8. ClosedLedgerFrozen'
  BY <1>0, <1>6, OpenCommitFrozen
<1>9. CloseWasReviewed'
  <2>1. nueva.cierre = FALSE
    OBVIOUS
  <2>2. \A s \in Sesiones : Ligadas(s)' = Ligadas(s)
    BY <1>4, <2>1 DEF Ligadas
  <2>3. \A s \in Sesiones : \A v \in Ligadas(s) : revision'[v] = revision[v]
    BY <1>4 DEF Ligadas
  <2> SUFFICES ASSUME NEW s \in Sesiones
               PROVE  IF estado[s] = "CERRADA"
                      THEN \E v \in Revisiones : Ligadas(s) = {v} /\ revision'[v].foto = cierre[s]
                      ELSE Ligadas(s) = {}
      BY <1>0, <2>2 DEF CloseWasReviewed
  <2> QED BY <2>3 DEF IInv, CloseWasReviewed
<1>10. NoOverReversal'
  BY <1>0 DEF IInv, NoOverReversal
<1> QED BY <1>0, <1>6, <1>7, <1>8, <1>9, <1>10, CommitStep

\* The close records the snapshot, which is the ledger, and links the review.
LEMMA CloseStep ==
  ASSUME IInv, NEW c \in Procs, CommitClose(c)
  PROVE  IInv'
<1> DEFINE s0 == pet[c].s
           v0 == pet[c].v
<1>0. TypeOK /\ Ready(c) /\ Release(c) /\ pet[c].op = "cerrar"
      /\ UNCHANGED <<cobro, reversado, movs, pedido, clave>>
  BY DEF IInv, CommitClose, Committing
<1>1. /\ estado' = [estado EXCEPT ![s0] = "CERRADA"]
      /\ cierre' = [cierre EXCEPT ![s0] = foto[c]]
      /\ revision' = [revision EXCEPT ![v0].cierre = TRUE]
  BY DEF CommitClose
<1>2. /\ s0 \in Sesiones /\ v0 \in Revisiones /\ estado[s0] = "ABIERTA"
      /\ foto[c] = Foto(s0) /\ revision[v0] = [s |-> s0, foto |-> foto[c], cierre |-> FALSE]
  BY <1>0, CommitFacts, ActiveFacts DEF Ready, Vigente
<1>3. /\ estado \in [Sesiones -> {"ABIERTA", "CERRADA"}]
      /\ cierre \in [Sesiones -> Fotos \cup {Nada}]
      /\ revision \in [Revisiones -> Revision \cup {Nada}] /\ foto[c] \in Fotos
  BY <1>0, <1>2, FotoType DEF TypeOK
<1>4. /\ revision' \in [Revisiones -> Revision \cup {Nada}]
      /\ revision'[v0] \in Revision
      /\ revision'[v0].s = s0 /\ revision'[v0].foto = foto[c] /\ revision'[v0].cierre = TRUE
      /\ \A v \in Revisiones : v # v0 => revision'[v] = revision[v]
  <2> DEFINE r == revision[v0]
             q == [r EXCEPT !.cierre = TRUE]
  <2>1. r \in Revision /\ r.s = s0 /\ r.foto = foto[c]
    BY <1>2, <1>3 DEF Revision
  <2>2. q \in Revision /\ q.s = r.s /\ q.foto = r.foto /\ q.cierre = TRUE
    BY <2>1 DEF Revision
  <2>3. revision' = [revision EXCEPT ![v0] = q]
    BY <1>1
  <2> HIDE DEF r, q
  <2> QED BY <1>2, <1>3, <2>1, <2>2, <2>3
<1>5. \A s \in Sesiones : Foto(s)' = Foto(s)
  BY <1>0, FotoSame
<1>6. \A s \in Sesiones : s # s0 => estado'[s] = estado[s] /\ cierre'[s] = cierre[s]
  BY <1>1, <1>3
<1>7. estado'[s0] = "CERRADA" /\ cierre'[s0] = foto[c]
  BY <1>1, <1>2, <1>3
<1>8. LedgerStep(c)
  BY <1>0, <1>2, <1>4, <1>5, <1>6 DEF LedgerStep
<1>9. LibroType'
  <2>1. estado' \in [Sesiones -> {"ABIERTA", "CERRADA"}]
    BY <1>1, <1>3
  <2>2. cierre' \in [Sesiones -> Fotos \cup {Nada}]
    BY <1>1, <1>3
  <2> QED BY <1>0, <1>4, <2>1, <2>2 DEF LibroType, TypeOK
<1>10. ClosedLedgerFrozen'
  <2> SUFFICES ASSUME NEW s \in Sesiones, estado'[s] = "CERRADA"
               PROVE  (cierre[s] = Foto(s))'
      BY DEF ClosedLedgerFrozen
  <2>1. CASE s = s0
    <3>1. cierre'[s] = Foto(s)
      BY <1>2, <1>7, <2>1
    <3> QED BY <1>5, <3>1
  <2>2. CASE s # s0
    BY <1>5, <1>6, <2>2 DEF IInv, ClosedLedgerFrozen
  <2> QED BY <2>1, <2>2
<1>11. CloseWasReviewed'
  <2>0. revision'[v0] # Nada
    BY <1>4, LedgerAssumption
  <2> SUFFICES ASSUME NEW s \in Sesiones
               PROVE  IF estado'[s] = "CERRADA"
                      THEN \E v \in Revisiones : Ligadas(s)' = {v} /\ revision'[v].foto = cierre'[s]
                      ELSE Ligadas(s)' = {}
      BY DEF CloseWasReviewed
  <2>1. CASE s = s0
    <3>1. Ligadas(s) = {}
      BY <1>2, <2>1 DEF IInv, CloseWasReviewed
    <3>2. Ligadas(s)' = {v0}
      BY <1>2, <1>4, <2>0, <2>1, <3>1 DEF Ligadas
    <3> QED BY <1>2, <1>4, <1>7, <2>1, <3>2
  <2>2. CASE s # s0
    <3>1. v0 \notin Ligadas(s) /\ v0 \notin Ligadas(s)'
      BY <1>2, <1>4, <2>2 DEF Ligadas
    <3>2. Ligadas(s)' = Ligadas(s)
      BY <1>4, <3>1 DEF Ligadas
    <3>3. estado'[s] = estado[s] /\ cierre'[s] = cierre[s]
      BY <1>6, <2>2
    <3> QED BY <1>4, <3>1, <3>2, <3>3 DEF IInv, CloseWasReviewed
  <2> QED BY <2>1, <2>2
<1>12. NoOverReversal'
  BY <1>0 DEF IInv, NoOverReversal
<1> QED BY <1>0, <1>8, <1>9, <1>10, <1>11, <1>12, CommitStep

-----------------------------------------------------------------------------
LEMMA InitInvariant ==
  ASSUME Init
  PROVE  IInv
<1>1. \A c \in Procs : ~ Active(c)
  BY DEF Init, Active
<1>2. \A c \in Procs : Held(c) = {} /\ (\A t : ~ Past(c, t)) /\ (\A t, u : ~ PastAfter(c, t, u))
  BY <1>1, Idle
<1>3. TypeOK
  BY <1>1 DEF Init, TypeOK
<1>4. LockExclusion /\ OpenUnderLock /\ SnapshotUnderLock /\ BalanceUnderLock /\ KeyUnderLock
  BY <1>1, <1>2 DEF LockExclusion, OpenUnderLock, SnapshotUnderLock, BalanceUnderLock,
                    KeyUnderLock
<1>5. ClosedLedgerFrozen
  BY DEF Init, ClosedLedgerFrozen
<1>6. CloseWasReviewed
  BY DEF Init, CloseWasReviewed, Ligadas
<1>7. NoOverReversal
  BY LedgerAssumption DEF Init, NoOverReversal
<1> QED BY <1>3, <1>4, <1>5, <1>6, <1>7 DEF IInv

LEMMA StutterStep ==
  ASSUME IInv, UNCHANGED vars
  PROVE  IInv'
<1>1. UNCHANGED <<libro, pet, paso, foto>>
  BY DEF vars
<1>2. TypeOK'
  BY <1>1 DEF IInv, TypeOK, libro, Active
<1>3. LockExclusion'
  BY <1>1, Frame DEF IInv, LockExclusion
<1>4. OpenUnderLock' /\ SnapshotUnderLock' /\ BalanceUnderLock' /\ KeyUnderLock'
  BY <1>1, SameKeeps DEF OpenUnderLock, SnapshotUnderLock, BalanceUnderLock, KeyUnderLock
<1>5. ClosedLedgerFrozen' /\ CloseWasReviewed' /\ NoOverReversal'
  BY <1>1, LibroSame DEF IInv
<1> QED BY <1>2, <1>3, <1>4, <1>5 DEF IInv

\* IInv is an invariant of every instance of CashLedger: no step of a request,
\* commit or rollback breaks what the locks of the other transactions keep.
THEOREM Invariance == Spec => []IInv
<1>1. Init => IInv
  BY InitInvariant
<1>2. IInv /\ [Next]_vars => IInv'
  <2> SUFFICES ASSUME IInv, [Next]_vars PROVE IInv'
      OBVIOUS
  <2>1. ASSUME NEW c \in Procs, Begin(c) PROVE IInv'
    BY <2>1, BeginStep
  <2>2. ASSUME NEW c \in Procs, Advance(c) PROVE IInv'
    BY <2>2, AdvanceStep
  <2>3. ASSUME NEW c \in Procs, Commit(c) PROVE IInv'
    BY <2>3, SaleStep, PaymentStep, ReversalStep, MovementStep, ReviewStep, CloseStep DEF Commit
  <2>4. ASSUME NEW c \in Procs, Reject(c) \/ Timeout(c) \/ Abort(c) PROVE IInv'
    BY <2>4, RollbackStep DEF Reject, Timeout, Abort
  <2>5. CASE UNCHANGED vars
    BY <2>5, StutterStep
  <2> QED BY <2>1, <2>2, <2>3, <2>4, <2>5 DEF Next
<1> QED BY <1>1, <1>2, PTL DEF Spec

\* Every variable keeps its type, and an idle connection carries nothing over.
THEOREM TypeCorrect == Spec => []TypeOK
<1>1. IInv => TypeOK
  BY DEF IInv
<1> QED BY <1>1, Invariance, PTL

\* The ledger of a closed session is for ever the one its close recorded.
THEOREM ClosedLedger == Spec => []ClosedLedgerFrozen
<1>1. IInv => ClosedLedgerFrozen
  BY DEF IInv
<1> QED BY <1>1, Invariance, PTL

\* A session is closed with exactly one review, made of the same figures.
THEOREM CloseReviewed == Spec => []CloseWasReviewed
<1>1. IInv => CloseWasReviewed
  BY DEF IInv
<1> QED BY <1>1, Invariance, PTL

\* The reversals of an invoice never return more than it sold.
THEOREM ReversalsBounded == Spec => []NoOverReversal
<1>1. IInv => NoOverReversal
  BY DEF IInv
<1> QED BY <1>1, Invariance, PTL

\* A division is paid once, whatever keys its payments carry.
THEOREM PaidOnceHolds == Spec => PaidOnce
<1>1. IInv /\ [Next]_vars => [\A c \in Procs : CommitPayment(c) => cobro[pet[c].f] = Nada]_vars
  BY CommitFacts DEF CommitPayment, Committing
<1> QED BY <1>1, Invariance, PTL DEF Spec, PaidOnce

\* No two transactions have an effect under the same idempotency key.
THEOREM OneEffectHolds == Spec => OneEffectPerKey
<1>1. IInv /\ [Next]_vars =>
        [\A c \in Procs : CommitSale(c) \/ CommitPayment(c) \/ CommitReversal(c)
                            => clave[pet[c].k] = Nada]_vars
  BY CommitFacts DEF CommitSale, CommitPayment, CommitReversal, Committing
<1> QED BY <1>1, Invariance, PTL DEF Spec, OneEffectPerKey

\* A reversal that finds its session closed has not committed before: a close
\* in between never costs a retry its stored response.
THEOREM ReplayHolds == Spec => ReplaySurvivesClose
<1>1. IInv /\ [Next]_vars =>
        [\A c \in Procs : Reject(c) /\ pet[c].op = "reversion" /\ Step(c) = "abierta"
                            => clave[pet[c].k] # pet[c]]_vars
  <2> SUFFICES ASSUME IInv, NEW c \in Procs, Reject(c), pet[c].op = "reversion",
                      Step(c) = "abierta"
               PROVE  clave[pet[c].k] # pet[c]
      OBVIOUS
  <2>1. TypeOK /\ Active(c) /\ paso[c] \in 1..Len(Steps(c)) /\ pet[c] # Nada
    BY StepsFacts DEF IInv, TypeOK, Reject, Pending, Active
  <2>2. Past(c, "K")
    BY <2>1, StepsFacts DEF Past, Step
  <2> QED BY <2>1, <2>2 DEF IInv, KeyUnderLock
<1> QED BY <1>1, Invariance, PTL DEF Spec, ReplaySurvivesClose

=============================================================================
