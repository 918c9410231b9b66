------------------------- MODULE CashSessionsProofs -------------------------
(***************************************************************************)
(* Theorems of CashSessions for any tills, users, sessions and number of   *)
(* requests.  What a request read of a user or of a session stays true     *)
(* until it commits, because whoever could change it needs a lock that the *)
(* request holds: Bueno.                                                   *)
(***************************************************************************)
EXTENDS CashSessions, FiniteSetTheorems, TLAPS

Guarda(u) == <<"usuario", u>>
Sesion(s) == <<"sesion", s>>
Cierre(s) == <<"cierre", s>>

\* Two requests never hold the same lock.
LockExclusion ==
  \A t, o \in Conexiones : t # o => peticion[t].tiene \cap peticion[o].tiene = {}

\* An opening has the lock of everybody of its team, or still waits for it, and
\* once it has checked, its cashiers are in no open session.
AperturaBuena(p) ==
  p.op = "abrir" =>
    /\ p.c \in Cajas /\ p.u \in Usuarios
    /\ \A u \in p.aux \cup {p.u} : u \in p.faltan \/ Guarda(u) \in p.tiene
    /\ p.paso = "confirmar" =>
         p.faltan = {} /\ \A u \in (p.aux \cup {p.u}) \ Supers : SesionesDe(u) = {}

\* Who works on a session holds it, and it is open.
SesionBuena(p) ==
  p.op \in {"sesion", "agregar"} \/ (p.op = "asignar" /\ p.s # Nada) =>
    p.s \in Sesiones /\ Sesion(p.s) \in p.tiene /\ Abierta(p.s)

\* Who puts one user into it has that user's lock, or waits for it.
UsuarioBueno(p) ==
  p.op \in {"agregar", "asignar"} =>
    p.u \in Usuarios /\ (p.u \in p.faltan \/ Guarda(p.u) \in p.tiene)

OtrasBuenas(p) ==
  /\ p.op \in {"asignar", "reasignar"} => p.c \in Cajas
  /\ p.op = "resolver" => p.s \in Sesiones /\ cierre[p.s] # SinCierre

\* Who resolves a close holds it from the check on; what it then found of the
\* deduction stays so.
ResolucionBuena(p) ==
  p.op = "resolver" =>
    /\ p.paso # "guardas" => Cierre(p.s) \in p.tiene
    /\ p.paso = "escribir" => p.vio \in Resoluciones /\ p.mov = cierre[p.s].deduccion

Bueno(p) ==
  AperturaBuena(p) /\ SesionBuena(p) /\ UsuarioBueno(p) /\ OtrasBuenas(p) /\ ResolucionBuena(p)

OneEach ==
  \A u \in Usuarios \ Supers : \A r, s \in SesionesDe(u) : r = s

IInv ==
  /\ TypeOK
  /\ LockExclusion
  /\ \A t \in Conexiones : Bueno(peticion[t])
  /\ OneEach
  /\ TeamEndsWithSession
  /\ PayFollowsDecision

USE CashSessionsAssumption, NadaIsNoCode
-----------------------------------------------------------------------------
\* A step that gives one request a lock nobody else holds, and writes at most
\* assignments, keeps what every request relies on.
LEMMA RequestStep ==
  ASSUME IInv, NEW t \in Conexiones, NEW r \in Peticion \cup {Ninguna},
         peticion' = [peticion EXCEPT ![t] = r],
         UNCHANGED <<sesion, equipo, cierre>>,
         asigna' \in [Usuarios -> [caja : Cajas, rol : Roles] \cup {SinCaja}],
         \A x \in r.tiene : x \in peticion[t].tiene \/ Libre(t, x),
         Bueno(r)
  PROVE  IInv'
<1>. USE DEF IInv
<1>1. TypeOK'
  BY DEF TypeOK
<1>2. \A o \in Conexiones : peticion'[o] = IF o = t THEN r ELSE peticion[o]
  BY DEF TypeOK
<1>3. LockExclusion'
  BY <1>2 DEF LockExclusion, Libre
<1>4. ASSUME NEW o \in Conexiones PROVE Bueno(peticion[o])'
  <2>1. CASE o = t
    BY <1>2, <2>1 DEF Bueno, AperturaBuena, SesionBuena, UsuarioBueno,
                      OtrasBuenas, ResolucionBuena, SesionesDe, Abierta
  <2>2. CASE o # t
    BY <1>2, <2>2 DEF Bueno, AperturaBuena, SesionBuena, UsuarioBueno,
                      OtrasBuenas, ResolucionBuena, SesionesDe, Abierta
  <2>. QED  BY <2>1, <2>2
<1>5. (OneEach /\ TeamEndsWithSession /\ PayFollowsDecision)'
  BY DEF OneEach, TeamEndsWithSession, PayFollowsDecision, SesionesDe, Abierta
<1>. QED  BY <1>1, <1>3, <1>4, <1>5

\* A request may close only a session it holds, put into one only a cashier
\* whose lock it holds, and change only a close it holds, to keep what the others
\* rely on.
LEMMA DataStep ==
  ASSUME IInv, NEW t \in Conexiones, Acaba(t),
         \A s \in Sesiones : Abierta(s) => Abierta(s)' \/ Sesion(s) \in peticion[t].tiene,
         \A u \in Usuarios \ Supers :
           \/ SesionesDe(u)' \subseteq SesionesDe(u)
           \/ Guarda(u) \in peticion[t].tiene /\ \E s : SesionesDe(u)' \subseteq {s},
         \A s \in Sesiones : cierre[s] # SinCierre =>
           cierre'[s] # SinCierre /\ (cierre'[s] = cierre[s] \/ Cierre(s) \in peticion[t].tiene),
         sesion' \in [Sesiones -> [caja : Cajas, resp : Usuarios, estado : {"ABIERTA", "CERRADA"}]
                                    \cup {SinSesion}],
         equipo' \in [Sesiones -> SUBSET Usuarios],
         asigna' \in [Usuarios -> [caja : Cajas, rol : Roles] \cup {SinCaja}],
         cierre' \in [Sesiones -> [dif : Diferencias, res : Resoluciones, deduccion : Deducciones]
                                    \cup {SinCierre}],
         \A s \in Sesiones : sesion'[s].estado = "CERRADA" <=> cierre'[s] # SinCierre,
         TeamEndsWithSession', PayFollowsDecision'
  PROVE  IInv'
<1>. USE DEF IInv
<1>1. \A o \in Conexiones : peticion'[o] = IF o = t THEN Ninguna ELSE peticion[o]
  BY DEF Acaba, TypeOK
<1>2. TypeOK'
  BY DEF TypeOK, Acaba
<1>3. LockExclusion'
  BY <1>1 DEF LockExclusion, Ninguna
<1>4. ASSUME NEW o \in Conexiones PROVE Bueno(peticion[o])'
  <2>1. CASE o = t
    BY <1>1, <2>1 DEF Bueno, AperturaBuena, SesionBuena, UsuarioBueno,
                      OtrasBuenas, ResolucionBuena, Ninguna
  <2>2. CASE o # t
    <3>1. peticion'[o] = peticion[o] /\ Bueno(peticion[o])
          /\ \A x \in peticion[o].tiene : x \notin peticion[t].tiene
      BY <1>1, <2>2 DEF LockExclusion
    <3>2. AperturaBuena(peticion[o])'
      <4>1. SUFFICES ASSUME peticion[o].op = "abrir", peticion[o].paso = "confirmar",
                            NEW u \in (peticion[o].aux \cup {peticion[o].u}) \ Supers
                     PROVE  SesionesDe(u)' = {}
        BY <3>1 DEF Bueno, AperturaBuena
      <4>2. Guarda(u) \in peticion[o].tiene /\ SesionesDe(u) = {}
        BY <3>1, <4>1 DEF Bueno, AperturaBuena
      <4>3. u \in Usuarios
        BY <3>1, <4>1 DEF TypeOK, Peticion, Ninguna, Bueno, AperturaBuena
      <4>. QED  BY <3>1, <4>2, <4>3
    <3>3. SesionBuena(peticion[o])'
      BY <3>1 DEF Bueno, SesionBuena
    <3>4. UsuarioBueno(peticion[o])' /\ OtrasBuenas(peticion[o])'
      BY <3>1 DEF Bueno, UsuarioBueno, OtrasBuenas
    <3>5. ResolucionBuena(peticion[o])'
      <4>1. SUFFICES ASSUME peticion[o].op = "resolver", peticion[o].paso = "escribir"
                     PROVE  cierre'[peticion[o].s] = cierre[peticion[o].s]
        BY <3>1 DEF Bueno, ResolucionBuena
      <4>2. /\ peticion[o].s \in Sesiones /\ cierre[peticion[o].s] # SinCierre
            /\ Cierre(peticion[o].s) \in peticion[o].tiene
        BY <3>1, <4>1 DEF Bueno, OtrasBuenas, ResolucionBuena
      <4>. QED  BY <3>1, <4>2
    <3>. QED  BY <3>1, <3>2, <3>3, <3>4, <3>5 DEF Bueno
  <2>. QED  BY <2>1, <2>2
<1>5. OneEach'
  <2>1. SUFFICES ASSUME NEW u \in Usuarios \ Supers,
                        NEW a \in SesionesDe(u)', NEW b \in SesionesDe(u)'
                 PROVE  a = b
    BY DEF OneEach
  <2>. QED  BY <2>1 DEF OneEach
<1>. QED  BY <1>2, <1>3, <1>4, <1>5

\* What a request is while it is served.
LEMMA Served ==
  ASSUME IInv, NEW t \in Conexiones, peticion[t].op # "ninguna"
  PROVE  peticion[t] \in Peticion
BY DEF IInv, TypeOK, Ninguna
-----------------------------------------------------------------------------
\* At first there is no session, close, assignment or request.
LEMMA InitIInv == Init => IInv
<1>. SUFFICES ASSUME Init PROVE IInv
  OBVIOUS
<1>1. TypeOK
  BY DEF Init, TypeOK, SinSesion, SinCierre
<1>2. LockExclusion /\ \A t \in Conexiones : Bueno(peticion[t])
  BY DEF Init, LockExclusion, Ninguna, Bueno, AperturaBuena, SesionBuena, UsuarioBueno,
         OtrasBuenas, ResolucionBuena
<1>3. OneEach /\ TeamEndsWithSession
  BY DEF Init, OneEach, TeamEndsWithSession, SesionesDe, Abierta, SinSesion
<1>4. PayFollowsDecision
  BY DEF Init, PayFollowsDecision, SinCierre, Resoluciones
<1>. QED  BY <1>1, <1>2, <1>3, <1>4 DEF IInv
-----------------------------------------------------------------------------
(* The steps that only take locks or change the request. *)

LEMMA StepAbrir ==
  ASSUME IInv, NEW t \in Conexiones, NEW c \in Cajas, NEW u \in Usuarios, Abrir(t, c, u)
  PROVE  IInv'
<1>. DEFINE r == [op |-> "abrir", c |-> c, s |-> Nada, u |-> u, vio |-> Nada, mov |-> Nada,
                  aux |-> Auxiliares(c) \ {u}, faltan |-> Auxiliares(c) \cup {u},
                  paso |-> "guardas", tiene |-> {}]
<1>1. r \in Peticion /\ Bueno(r)
  BY DEF Peticion, Auxiliares, Bueno, AperturaBuena, SesionBuena, UsuarioBueno,
         OtrasBuenas, ResolucionBuena
<1>2. peticion' = [peticion EXCEPT ![t] = r] /\ UNCHANGED <<sesion, equipo, asigna, cierre>>
  BY DEF Abrir, Prepara
<1>3. r.tiene = {}
  OBVIOUS
<1>. HIDE DEF r
<1>. QED  BY <1>1, <1>2, <1>3, RequestStep DEF IInv, TypeOK

LEMMA StepAbrirMia ==
  ASSUME IInv, NEW t \in Conexiones, NEW u \in Usuarios, AbrirMia(t, u)
  PROVE  IInv'
<1>. DEFINE c == asigna[u].caja
            r == [op |-> "abrir", c |-> c, s |-> Nada, u |-> u, vio |-> Nada, mov |-> Nada,
                  aux |-> Auxiliares(c) \ {u}, faltan |-> Auxiliares(c) \cup {u},
                  paso |-> "guardas", tiene |-> {Fila(c, u)}]
<1>1. c \in Cajas
  <2>1. asigna[u] \in [caja : Cajas, rol : Roles] \cup {SinCaja} /\ asigna[u].rol = "RESPONSABLE"
    BY DEF IInv, TypeOK, AbrirMia
  <2>2. Nada # "RESPONSABLE"
    BY DEF Roles
  <2>. QED  BY <2>1, <2>2 DEF SinCaja
<1>2. r \in Peticion /\ Bueno(r)
  BY <1>1 DEF Peticion, Auxiliares, Candados, Fila, Bueno, AperturaBuena, SesionBuena, UsuarioBueno,
              OtrasBuenas, ResolucionBuena
<1>3. /\ peticion' = [peticion EXCEPT ![t] = r] /\ UNCHANGED <<sesion, equipo, asigna, cierre>>
      /\ Libre(t, Fila(c, u))
  BY DEF AbrirMia, Prepara
<1>4. \A x \in r.tiene : Libre(t, x)
  BY <1>3
<1>. HIDE DEF r
<1>. QED  BY <1>2, <1>3, <1>4, RequestStep DEF IInv, TypeOK

LEMMA StepTomarGuarda ==
  ASSUME IInv, NEW t \in Conexiones, TomarGuarda(t)
  PROVE  IInv'
<1>1. PICK u \in Usuarios :
        /\ peticion[t] # Ninguna /\ peticion[t].paso = "guardas" /\ Libre(t, Guarda(u))
        /\ peticion' = [peticion EXCEPT ![t].faltan = @ \ {u}, ![t].tiene = @ \cup {Guarda(u)}]
        /\ UNCHANGED <<sesion, equipo, asigna, cierre>>
  BY DEF TomarGuarda, Guarda
<1>. DEFINE p == peticion[t]
            r == [p EXCEPT !.faltan = @ \ {u}, !.tiene = @ \cup {Guarda(u)}]
<1>2. p \in Peticion /\ Bueno(p)
  BY <1>1 DEF IInv, TypeOK
<1>3. r \in Peticion
  <2>1. Guarda(u) \in Candados
    BY DEF Candados, Guarda
  <2>. QED  BY <1>2, <2>1 DEF Peticion
<1>4. Bueno(r)
  BY <1>1, <1>2 DEF Peticion, Bueno, AperturaBuena, SesionBuena, UsuarioBueno,
                    OtrasBuenas, ResolucionBuena
<1>5. peticion' = [peticion EXCEPT ![t] = r] /\ UNCHANGED <<sesion, equipo, asigna, cierre>>
  BY <1>1, <1>2 DEF IInv, TypeOK, Peticion
<1>6. \A x \in r.tiene : x \in p.tiene \/ Libre(t, x)
  BY <1>1, <1>2 DEF Peticion
<1>. HIDE DEF r
<1>. QED  BY <1>3, <1>4, <1>5, <1>6, RequestStep DEF IInv, TypeOK

LEMMA StepComprobarApertura ==
  ASSUME IInv, NEW t \in Conexiones, ComprobarApertura(t)
  PROVE  IInv'
<1>. DEFINE p == peticion[t]
            r == [p EXCEPT !.paso = "confirmar"]
<1>1. p \in Peticion /\ Bueno(p)
  BY Served DEF IInv, ComprobarApertura
<1>2. r \in Peticion
  BY <1>1 DEF Peticion
<1>3. Bueno(r)
  BY <1>1 DEF ComprobarApertura, Peticion, Bueno, AperturaBuena, SesionBuena, UsuarioBueno,
              OtrasBuenas, ResolucionBuena
<1>4. peticion' = [peticion EXCEPT ![t] = r] /\ UNCHANGED <<sesion, equipo, asigna, cierre>>
  BY <1>1 DEF ComprobarApertura, IInv, TypeOK, Peticion
<1>5. r.tiene = p.tiene
  BY <1>1 DEF Peticion
<1>. HIDE DEF r
<1>. QED  BY <1>2, <1>3, <1>4, <1>5, RequestStep DEF IInv, TypeOK

LEMMA StepTomarSesion ==
  ASSUME IInv, NEW t \in Conexiones, NEW s \in Sesiones, TomarSesion(t, s)
  PROVE  IInv'
<1>. DEFINE r == [op |-> "sesion", c |-> sesion[s].caja, s |-> s, u |-> Nada, vio |-> Nada,
                  mov |-> Nada, aux |-> {}, faltan |-> {}, paso |-> "confirmar",
                  tiene |-> {Sesion(s)}]
<1>1. sesion[s].caja \in Cajas
  BY DEF IInv, TypeOK, TomarSesion, Abierta, SinSesion
<1>2. r \in Peticion /\ Bueno(r)
  BY <1>1 DEF TomarSesion, Peticion, Candados, Sesion, Bueno, AperturaBuena, SesionBuena, UsuarioBueno,
              OtrasBuenas, ResolucionBuena
<1>3. /\ peticion' = [peticion EXCEPT ![t] = r] /\ UNCHANGED <<sesion, equipo, asigna, cierre>>
      /\ Libre(t, Sesion(s))
  BY DEF TomarSesion, Empieza, Sesion
<1>4. \A x \in r.tiene : Libre(t, x)
  BY <1>3
<1>. HIDE DEF r
<1>. QED  BY <1>2, <1>3, <1>4, RequestStep DEF IInv, TypeOK

LEMMA StepAgregar ==
  ASSUME IInv, NEW t \in Conexiones, NEW u \in Usuarios, Agregar(t, u)
  PROVE  IInv'
<1>. DEFINE p == peticion[t]
            r == [p EXCEPT !.op = "agregar", !.u = u, !.faltan = {u}, !.paso = "guardas"]
<1>1. p \in Peticion /\ Bueno(p) /\ p.op = "sesion"
  BY Served DEF IInv, Agregar, Listo
<1>2. r \in Peticion
  BY <1>1 DEF Peticion
<1>3. Bueno(r)
  BY <1>1 DEF Peticion, Bueno, AperturaBuena, SesionBuena, UsuarioBueno,
              OtrasBuenas, ResolucionBuena
<1>4. /\ peticion' = [peticion EXCEPT ![t] = r] /\ r.tiene = p.tiene
      /\ UNCHANGED <<sesion, equipo, asigna, cierre>>
  BY <1>1 DEF Agregar, IInv, TypeOK, Peticion
<1>. HIDE DEF r
<1>. QED  BY <1>2, <1>3, <1>4, RequestStep DEF IInv, TypeOK

LEMMA StepAsignar ==
  ASSUME IInv, NEW t \in Conexiones, NEW c \in Cajas, NEW u \in Usuarios, Asignar(t, c, u)
  PROVE  IInv'
<1>. DEFINE Pide(s) == [op |-> "asignar", c |-> c, s |-> s, u |-> u,
              vio |-> IF asigna[u].caja = c THEN asigna[u].rol ELSE Nada, mov |-> Nada,
              aux |-> {}, faltan |-> {u}, paso |-> "guardas",
              tiene |-> (IF s = Nada THEN {} ELSE {Sesion(s)}) \cup
                        (IF asigna[u].caja = c THEN {Fila(c, u)} ELSE {})]
<1>1. PICK s \in AbiertasDe(c) \cup {Nada} :
        /\ s # Nada => Libre(t, Sesion(s))
        /\ asigna[u].caja = c => Libre(t, Fila(c, u))
        /\ peticion' = [peticion EXCEPT ![t] = Pide(s)]
        /\ UNCHANGED <<sesion, equipo, asigna, cierre>>
  BY DEF Asignar, Sesion
<1>2. s # Nada => s \in Sesiones /\ Abierta(s)
  BY <1>1 DEF AbiertasDe
<1>3. (IF asigna[u].caja = c THEN asigna[u].rol ELSE Nada) \in Roles \cup {Nada}
  BY DEF IInv, TypeOK, SinCaja
<1>4. Pide(s) \in Peticion
  BY <1>2, <1>3 DEF Peticion, Candados, Sesion, Fila
<1>5. Bueno(Pide(s))
  BY <1>2 DEF Bueno, AperturaBuena, SesionBuena, UsuarioBueno, OtrasBuenas, ResolucionBuena
<1>6. \A x \in Pide(s).tiene : Libre(t, x)
  BY <1>1
<1>. HIDE DEF Pide
<1>. QED  BY <1>1, <1>4, <1>5, <1>6, RequestStep DEF IInv, TypeOK

LEMMA StepReasignar ==
  ASSUME IInv, NEW t \in Conexiones, NEW v \in Usuarios, NEW c \in Cajas, Reasignar(t, v, c)
  PROVE  IInv'
<1>. DEFINE r == [op |-> "reasignar", c |-> c, s |-> Nada, u |-> v, vio |-> Nada, mov |-> Nada,
                  aux |-> {}, faltan |-> {}, paso |-> "confirmar", tiene |-> {Fila(c, v)}]
<1>1. r \in Peticion /\ Bueno(r)
  BY DEF Peticion, Candados, Fila, Bueno, AperturaBuena, SesionBuena, UsuarioBueno,
         OtrasBuenas, ResolucionBuena
<1>2. /\ peticion' = [peticion EXCEPT ![t] = r] /\ UNCHANGED <<sesion, equipo, asigna, cierre>>
      /\ Libre(t, Fila(c, v))
  BY DEF Reasignar, Empieza
<1>3. \A x \in r.tiene : Libre(t, x)
  BY <1>2
<1>. HIDE DEF r
<1>. QED  BY <1>1, <1>2, <1>3, RequestStep DEF IInv, TypeOK

\* An assignment given up or to another user, and a request that fails.
LEMMA StepReasignacion ==
  ASSUME IInv, NEW t \in Conexiones,
         Desactivar(t) \/ (\E u \in Usuarios, rol \in Roles : ConfirmarReasignacion(t, u, rol))
           \/ Deshacer(t)
  PROVE  IInv'
<1>1. asigna' \in [Usuarios -> [caja : Cajas, rol : Roles] \cup {SinCaja}]
  <2>1. CASE Desactivar(t)
    BY <2>1 DEF Desactivar, SinLaDe, IInv, TypeOK
  <2>2. ASSUME NEW u \in Usuarios, NEW rol \in Roles, ConfirmarReasignacion(t, u, rol)
        PROVE  asigna' \in [Usuarios -> [caja : Cajas, rol : Roles] \cup {SinCaja}]
    <3>1. peticion[t].c \in Cajas
      BY <2>2 DEF ConfirmarReasignacion, Listo, IInv, Bueno, OtrasBuenas
    <3>. QED  BY <2>2, <3>1 DEF ConfirmarReasignacion, SinLaDe, IInv, TypeOK
  <2>3. CASE Deshacer(t)
    BY <2>3 DEF Deshacer, IInv, TypeOK
  <2>. QED  BY <2>1, <2>2, <2>3
<1>2. /\ peticion' = [peticion EXCEPT ![t] = Ninguna]
      /\ UNCHANGED <<sesion, equipo, cierre>>
  BY DEF Desactivar, ConfirmarReasignacion, Deshacer, Acaba
<1>3. Ninguna.tiene = {} /\ Bueno(Ninguna)
  BY DEF Ninguna, Bueno, AperturaBuena, SesionBuena, UsuarioBueno, OtrasBuenas, ResolucionBuena
<1>. QED  BY <1>1, <1>2, <1>3, RequestStep

LEMMA StepResolver ==
  ASSUME IInv, NEW t \in Conexiones, NEW s \in Sesiones, Resolver(t, s)
  PROVE  IInv'
<1>. DEFINE r == [op |-> "resolver", c |-> sesion[s].caja, s |-> s, u |-> Nada,
                  vio |-> cierre[s].res, mov |-> Nada, aux |-> {}, faltan |-> {},
                  paso |-> "guardas", tiene |-> {}]
<1>1. sesion[s].caja \in Cajas \cup {Nada} /\ cierre[s].res \in Resoluciones \cup {Nada}
  BY DEF IInv, TypeOK, SinSesion, SinCierre
<1>2. r \in Peticion /\ Bueno(r)
  BY <1>1 DEF Resolver, Peticion, Bueno, AperturaBuena, SesionBuena, UsuarioBueno,
              OtrasBuenas, ResolucionBuena
<1>3. peticion' = [peticion EXCEPT ![t] = r] /\ UNCHANGED <<sesion, equipo, asigna, cierre>>
  BY DEF Resolver
<1>4. r.tiene = {}
  OBVIOUS
<1>. HIDE DEF r
<1>. QED  BY <1>2, <1>3, <1>4, RequestStep DEF IInv, TypeOK

LEMMA StepTomarCierre ==
  ASSUME IInv, NEW t \in Conexiones, TomarCierre(t)
  PROVE  IInv'
<1>. DEFINE p == peticion[t]
            r == [p EXCEPT !.paso = "confirmar", !.tiene = {<<"cierre", p.s>>}]
<1>1. p \in Peticion /\ Bueno(p) /\ p.op = "resolver" /\ p.s \in Sesiones
  BY Served DEF IInv, TomarCierre, Bueno, OtrasBuenas
<1>2. r \in Peticion
  <2>1. <<"cierre", p.s>> \in Candados
    BY <1>1 DEF Candados
  <2>. QED  BY <1>1, <2>1 DEF Peticion
<1>3. Bueno(r)
  BY <1>1 DEF Peticion, Bueno, AperturaBuena, SesionBuena, UsuarioBueno, OtrasBuenas,
              ResolucionBuena, Cierre
<1>4. /\ peticion' = [peticion EXCEPT ![t] = r] /\ UNCHANGED <<sesion, equipo, asigna, cierre>>
      /\ Libre(t, Cierre(p.s))
  BY <1>1 DEF TomarCierre, Cierre, IInv, TypeOK, Peticion
<1>5. \A x \in r.tiene : Libre(t, x)
  BY <1>1, <1>4 DEF Peticion, Cierre
<1>. HIDE DEF r
<1>. QED  BY <1>2, <1>3, <1>4, <1>5, RequestStep DEF IInv, TypeOK

LEMMA StepBuscarDeduccion ==
  ASSUME IInv, NEW t \in Conexiones, NEW x \in Resoluciones, BuscarDeduccion(t, x)
  PROVE  IInv'
<1>. DEFINE p == peticion[t]
            r == [p EXCEPT !.vio = x, !.mov = cierre[p.s].deduccion, !.paso = "escribir"]
<1>1. /\ p \in Peticion /\ Bueno(p) /\ p.op = "resolver" /\ p.paso = "confirmar"
      /\ p.s \in Sesiones /\ cierre[p.s] # SinCierre /\ Cierre(p.s) \in p.tiene
  BY Served DEF IInv, BuscarDeduccion, Listo, Bueno, OtrasBuenas, ResolucionBuena
<1>2. cierre[p.s].deduccion \in Deducciones
  BY <1>1 DEF IInv, TypeOK
<1>3. r \in Peticion
  BY <1>1, <1>2 DEF Peticion
<1>4. Bueno(r)
  BY <1>1, <1>2 DEF Peticion, Bueno, AperturaBuena, SesionBuena, UsuarioBueno, OtrasBuenas,
                    ResolucionBuena
<1>5. peticion' = [peticion EXCEPT ![t] = r] /\ UNCHANGED <<sesion, equipo, asigna, cierre>>
  BY <1>1 DEF BuscarDeduccion, IInv, TypeOK, Peticion
<1>6. r.tiene = p.tiene
  BY <1>1 DEF Peticion
<1>. HIDE DEF r
<1>. QED  BY <1>3, <1>4, <1>5, <1>6, RequestStep DEF IInv, TypeOK
-----------------------------------------------------------------------------
(* The steps that end a request with a write. *)

LEMMA StepConfirmarApertura ==
  ASSUME IInv, NEW t \in Conexiones, NEW s \in Sesiones, ConfirmarApertura(t, s)
  PROVE  IInv'
<1>. DEFINE p == peticion[t]
<1>1. /\ p \in Peticion /\ p.c \in Cajas /\ p.u \in Usuarios /\ p.aux \subseteq Usuarios
      /\ \A u \in (p.aux \cup {p.u}) \ Supers : SesionesDe(u) = {} /\ Guarda(u) \in p.tiene
  BY Served DEF ConfirmarApertura, Listo, IInv, Bueno, AperturaBuena, Peticion
<1>2. /\ Acaba(t) /\ UNCHANGED <<asigna, cierre>> /\ sesion[s] = SinSesion
      /\ sesion' = [sesion EXCEPT ![s] = [caja |-> p.c, resp |-> p.u, estado |-> "ABIERTA"]]
      /\ equipo' = [equipo EXCEPT ![s] = p.aux \cup {p.u}]
  BY DEF ConfirmarApertura
<1>. HIDE DEF p
<1>3. TypeOK /\ TeamEndsWithSession /\ PayFollowsDecision
  BY DEF IInv
<1>4. /\ sesion' \in [Sesiones -> [caja : Cajas, resp : Usuarios, estado : {"ABIERTA", "CERRADA"}]
                                   \cup {SinSesion}]
      /\ equipo' \in [Sesiones -> SUBSET Usuarios]
  BY <1>1, <1>2, <1>3 DEF TypeOK
<1>5. \A q \in Sesiones : sesion'[q].estado = "CERRADA" <=> cierre'[q] # SinCierre
  BY <1>2, <1>3 DEF TypeOK, SinSesion
<1>6. \A q \in Sesiones : Abierta(q) => Abierta(q)'
  BY <1>2, <1>3 DEF Abierta, TypeOK
<1>7. ASSUME NEW u \in Usuarios \ Supers
      PROVE  \/ SesionesDe(u)' \subseteq SesionesDe(u)
             \/ Guarda(u) \in p.tiene /\ \E q : SesionesDe(u)' \subseteq {q}
  <2>1. CASE u \in p.aux \cup {p.u}
    <3>1. SesionesDe(u) = {} /\ Guarda(u) \in p.tiene
      BY <1>1, <2>1
    <3>2. SesionesDe(u)' \subseteq {s}
      BY <3>1, <1>2, <1>3 DEF SesionesDe, Abierta, TypeOK
    <3>. QED  BY <3>1, <3>2
  <2>2. CASE u \notin p.aux \cup {p.u}
    BY <2>2, <1>2, <1>3 DEF SesionesDe, Abierta, TypeOK
  <2>. QED  BY <2>1, <2>2
<1>8. TeamEndsWithSession'
  BY <1>2, <1>3 DEF TeamEndsWithSession, Abierta, TypeOK
<1>9. PayFollowsDecision'
  BY <1>2, <1>3 DEF PayFollowsDecision
<1>. QED  BY <1>2, <1>3, <1>4, <1>5, <1>6, <1>7, <1>8, <1>9, DataStep DEF TypeOK, p

\* Whoever changes the team of an open session they hold, by at most one
\* cashier whose lock they hold and who is in no other.
LEMMA TeamStep ==
  ASSUME IInv, NEW t \in Conexiones, NEW s \in Sesiones, Abierta(s), Acaba(t),
         UNCHANGED <<sesion, cierre>>,
         asigna' \in [Usuarios -> [caja : Cajas, rol : Roles] \cup {SinCaja}],
         NEW team \in SUBSET Usuarios, equipo' = [equipo EXCEPT ![s] = team],
         sesion[s].resp \in team,
         \A u \in team \ (equipo[s] \cup Supers) :
           Guarda(u) \in peticion[t].tiene /\ SesionesDe(u) \subseteq {s}
  PROVE  IInv'
<1>1. TypeOK /\ TeamEndsWithSession /\ PayFollowsDecision
  BY DEF IInv
<1>2. equipo' \in [Sesiones -> SUBSET Usuarios]
  BY <1>1 DEF TypeOK
<1>3. ASSUME NEW u \in Usuarios \ Supers
      PROVE  \/ SesionesDe(u)' \subseteq SesionesDe(u)
             \/ Guarda(u) \in peticion[t].tiene /\ \E q : SesionesDe(u)' \subseteq {q}
  <2>1. CASE u \in team \ equipo[s]
    <3>1. Guarda(u) \in peticion[t].tiene /\ SesionesDe(u) \subseteq {s}
      BY <2>1
    <3>2. SesionesDe(u)' \subseteq {s}
      BY <3>1, <1>1 DEF SesionesDe, Abierta, TypeOK
    <3>. QED  BY <3>1, <3>2
  <2>2. CASE u \notin team \ equipo[s]
    BY <2>2, <1>1 DEF SesionesDe, Abierta, TypeOK
  <2>. QED  BY <2>1, <2>2
<1>4. TeamEndsWithSession'
  BY <1>1 DEF TeamEndsWithSession, Abierta, TypeOK
<1>5. PayFollowsDecision'
  BY <1>1 DEF PayFollowsDecision
<1>6. \A q \in Sesiones : Abierta(q) => Abierta(q)'
  BY DEF Abierta
<1>. QED  BY <1>1, <1>2, <1>3, <1>4, <1>5, <1>6, DataStep DEF TypeOK

\* The team of an open session a request holds.
LEMMA OwnSession ==
  ASSUME IInv, NEW t \in Conexiones,
         peticion[t].op \in {"sesion", "agregar"} \/ (peticion[t].op = "asignar" /\ peticion[t].s # Nada)
  PROVE  /\ peticion[t] \in Peticion /\ peticion[t].s \in Sesiones
         /\ Sesion(peticion[t].s) \in peticion[t].tiene /\ Abierta(peticion[t].s)
         /\ sesion[peticion[t].s].resp \in equipo[peticion[t].s]
         /\ equipo[peticion[t].s] \subseteq Usuarios
         /\ asigna \in [Usuarios -> [caja : Cajas, rol : Roles] \cup {SinCaja}]
<1>1. peticion[t] \in Peticion
  BY Served
<1>2. /\ peticion[t].s \in Sesiones /\ Sesion(peticion[t].s) \in peticion[t].tiene
      /\ Abierta(peticion[t].s)
  BY DEF IInv, Bueno, SesionBuena
<1>. QED  BY <1>1, <1>2 DEF IInv, TypeOK, TeamEndsWithSession

LEMMA StepConfirmarAgregado ==
  ASSUME IInv, NEW t \in Conexiones, ConfirmarAgregado(t)
  PROVE  IInv'
<1>. DEFINE p == peticion[t]
            s == p.s
            team == equipo[s] \cup {p.u}
<1>1. p.op = "agregar" /\ p.faltan = {} /\ SesionesDe(p.u) = {}
  BY DEF ConfirmarAgregado
<1>2. p.u \in Usuarios /\ Guarda(p.u) \in p.tiene
  BY <1>1 DEF IInv, Bueno, UsuarioBueno
<1>3. /\ equipo' = [equipo EXCEPT ![s] = team]
      /\ Acaba(t) /\ UNCHANGED <<sesion, asigna, cierre>>
  BY DEF ConfirmarAgregado
<1>4. /\ s \in Sesiones /\ Abierta(s) /\ sesion[s].resp \in team /\ team \in SUBSET Usuarios
      /\ asigna' \in [Usuarios -> [caja : Cajas, rol : Roles] \cup {SinCaja}]
  BY <1>1, <1>2, <1>3, OwnSession
<1>5. \A u \in team \ (equipo[s] \cup Supers) :
        Guarda(u) \in peticion[t].tiene /\ SesionesDe(u) \subseteq {s}
  BY <1>1, <1>2
<1>. HIDE DEF p, s, team
<1>. QED  BY <1>3, <1>4, <1>5, TeamStep

LEMMA StepAutoAuxiliar ==
  ASSUME IInv, NEW t \in Conexiones, NEW u \in Usuarios, AutoAuxiliar(t, u)
  PROVE  IInv'
<1>. DEFINE s == peticion[t].s
            team == equipo[s] \cup {u}
<1>1. /\ peticion[t].op = "sesion" /\ u \in Supers
      /\ Acaba(t) /\ UNCHANGED <<sesion, asigna, cierre>>
      /\ equipo' = [equipo EXCEPT ![s] = team]
  BY DEF AutoAuxiliar, Listo
<1>2. /\ s \in Sesiones /\ Abierta(s) /\ sesion[s].resp \in team /\ team \in SUBSET Usuarios
      /\ asigna' \in [Usuarios -> [caja : Cajas, rol : Roles] \cup {SinCaja}]
  BY <1>1, OwnSession
<1>3. team \ (equipo[s] \cup Supers) = {}
  BY <1>1
<1>. HIDE DEF s, team
<1>. QED  BY <1>1, <1>2, <1>3, TeamStep

LEMMA StepRetirar ==
  ASSUME IInv, NEW t \in Conexiones, NEW u \in Usuarios, Retirar(t, u)
  PROVE  IInv'
<1>. DEFINE p == peticion[t]
<1>1. /\ p.op = "sesion" /\ u # sesion[p.s].resp /\ Acaba(t) /\ UNCHANGED <<sesion, asigna, cierre>>
      /\ equipo' = [equipo EXCEPT ![p.s] = equipo[p.s] \ {u}]
  BY DEF Retirar, Listo
<1>2. /\ p.s \in Sesiones /\ Abierta(p.s) /\ sesion[p.s].resp \in equipo[p.s] \ {u}
      /\ equipo[p.s] \ {u} \in SUBSET Usuarios
      /\ asigna' \in [Usuarios -> [caja : Cajas, rol : Roles] \cup {SinCaja}]
  BY <1>1, OwnSession
<1>3. (equipo[p.s] \ {u}) \ (equipo[p.s] \cup Supers) = {}
  OBVIOUS
<1>. QED  BY <1>1, <1>2, <1>3, TeamStep

LEMMA StepCerrar ==
  ASSUME IInv, NEW t \in Conexiones, NEW d \in Diferencias, Cerrar(t, d)
  PROVE  IInv'
<1>. DEFINE p == peticion[t]
            k == [dif |-> d, res |-> IF d = "cuadra" THEN "CAJA_CUADRA" ELSE "PENDIENTE_REVISION",
                  deduccion |-> "ninguna"]
<1>1. /\ p.op = "sesion" /\ Acaba(t) /\ UNCHANGED asigna
      /\ sesion' = [sesion EXCEPT ![p.s].estado = "CERRADA"]
      /\ equipo' = [equipo EXCEPT ![p.s] = {}]
      /\ cierre' = [cierre EXCEPT ![p.s] = k]
  BY DEF Cerrar, Listo
<1>2. p.s \in Sesiones /\ Sesion(p.s) \in p.tiene /\ Abierta(p.s)
  BY <1>1, OwnSession
<1>3. /\ k \in [dif : Diferencias, res : Resoluciones, deduccion : Deducciones] /\ k # SinCierre
      /\ k.deduccion = "activa" <=> k.res = "DESCUENTO_EMPLEADO"
  BY DEF Resoluciones, Deducciones, SinCierre
<1>. HIDE DEF p, k
<1>4. TypeOK /\ TeamEndsWithSession /\ PayFollowsDecision
  BY DEF IInv
<1>5. sesion[p.s] \in [caja : Cajas, resp : Usuarios, estado : {"ABIERTA", "CERRADA"}]
  BY <1>2, <1>4 DEF TypeOK, Abierta, SinSesion
<1>6. /\ sesion' \in [Sesiones -> [caja : Cajas, resp : Usuarios, estado : {"ABIERTA", "CERRADA"}]
                                   \cup {SinSesion}]
      /\ equipo' \in [Sesiones -> SUBSET Usuarios]
      /\ cierre' \in [Sesiones -> [dif : Diferencias, res : Resoluciones, deduccion : Deducciones]
                                   \cup {SinCierre}]
  BY <1>1, <1>2, <1>3, <1>4, <1>5 DEF TypeOK
<1>7. \A q \in Sesiones : sesion'[q].estado = "CERRADA" <=> cierre'[q] # SinCierre
  BY <1>1, <1>2, <1>3, <1>4, <1>5 DEF TypeOK
<1>8. \A q \in Sesiones : Abierta(q) => Abierta(q)' \/ Sesion(q) \in p.tiene
  BY <1>1, <1>2, <1>4 DEF Abierta, TypeOK
<1>9. \A u \in Usuarios : SesionesDe(u)' \subseteq SesionesDe(u)
  BY <1>1, <1>2, <1>4, <1>5 DEF SesionesDe, Abierta, TypeOK
<1>10. TeamEndsWithSession'
  BY <1>1, <1>2, <1>4, <1>5 DEF TeamEndsWithSession, Abierta, TypeOK
<1>11. /\ PayFollowsDecision'
       /\ \A q \in Sesiones : cierre[q] # SinCierre => cierre'[q] = cierre[q]
  BY <1>1, <1>2, <1>3, <1>4 DEF PayFollowsDecision, TypeOK, Abierta
<1>. QED  BY <1>1, <1>4, <1>6, <1>7, <1>8, <1>9, <1>10, <1>11, DataStep DEF TypeOK, p

LEMMA StepConfirmarAsignacion ==
  ASSUME IInv, NEW t \in Conexiones, NEW rol \in Roles, ConfirmarAsignacion(t, rol)
  PROVE  IInv'
<1>. DEFINE p == peticion[t]
<1>1. /\ p.op = "asignar" /\ p.faltan = {} /\ Acaba(t) /\ UNCHANGED <<sesion, cierre>>
      /\ SesionesDe(p.u) = {} \/ p.s \in SesionesDe(p.u)
      /\ asigna' = [asigna EXCEPT ![p.u] = [caja |-> p.c, rol |-> rol]]
      /\ equipo' = IF p.s # Nada /\ rol = "AUXILIAR"
                     THEN [equipo EXCEPT ![p.s] = @ \cup {p.u}] ELSE equipo
  BY DEF ConfirmarAsignacion
<1>2. p.u \in Usuarios /\ Guarda(p.u) \in p.tiene /\ p.c \in Cajas
  BY <1>1 DEF IInv, Bueno, UsuarioBueno, OtrasBuenas, ResolucionBuena
<1>3. asigna' \in [Usuarios -> [caja : Cajas, rol : Roles] \cup {SinCaja}]
  BY <1>1, <1>2 DEF IInv, TypeOK
<1>4. CASE p.s # Nada
  <2>. DEFINE s == p.s
              team == IF rol = "AUXILIAR" THEN equipo[s] \cup {p.u} ELSE equipo[s]
  <2>1. /\ s \in Sesiones /\ Abierta(s) /\ sesion[s].resp \in team /\ team \in SUBSET Usuarios
    BY <1>1, <1>2, <1>4, OwnSession
  <2>2. equipo' = [equipo EXCEPT ![s] = team]
    BY <1>1, <1>4 DEF IInv, TypeOK
  <2>3. ASSUME NEW u \in team \ (equipo[s] \cup Supers)
        PROVE  Guarda(u) \in peticion[t].tiene /\ SesionesDe(u) \subseteq {s}
    <3>1. u = p.u /\ u \in Usuarios \ Supers
      BY <1>2
    <3>2. \A q \in SesionesDe(u) : q = s
      BY <1>1, <3>1 DEF IInv, OneEach
    <3>. QED  BY <1>2, <3>1, <3>2
  <2>4. Acaba(t) /\ UNCHANGED <<sesion, cierre>>
    BY <1>1
  <2>. HIDE DEF p, s, team
  <2>. QED  BY <1>3, <2>1, <2>2, <2>3, <2>4, TeamStep
<1>5. CASE p.s = Nada
  <2>1. UNCHANGED <<sesion, equipo, cierre>>
    BY <1>1, <1>5
  <2>2. Ninguna.tiene = {} /\ Bueno(Ninguna)
    BY DEF Ninguna, Bueno, AperturaBuena, SesionBuena, UsuarioBueno,
           OtrasBuenas, ResolucionBuena
  <2>. QED  BY <1>1, <1>3, <2>1, <2>2, RequestStep DEF Acaba
<1>. QED  BY <1>4, <1>5

LEMMA StepConfirmarResolucion ==
  ASSUME IInv, NEW t \in Conexiones, ConfirmarResolucion(t)
  PROVE  IInv'
<1>. DEFINE p == peticion[t]
<1>1. /\ p.op = "resolver" /\ p.paso = "escribir"
      /\ Acaba(t) /\ UNCHANGED <<sesion, equipo, asigna>>
      /\ cierre' = [cierre EXCEPT ![p.s].res = p.vio,
                                  ![p.s].deduccion = Sincronizada(p.vio, p.mov, @)]
  BY DEF ConfirmarResolucion
<1>2. /\ p.s \in Sesiones /\ cierre[p.s] # SinCierre /\ Cierre(p.s) \in p.tiene
      /\ p.vio \in Resoluciones /\ p.mov = cierre[p.s].deduccion
  BY <1>1 DEF IInv, Bueno, OtrasBuenas, ResolucionBuena
<1>3. TypeOK /\ TeamEndsWithSession /\ PayFollowsDecision
  BY DEF IInv
<1>. HIDE DEF p
<1>4. PICK k \in [dif : Diferencias, res : Resoluciones, deduccion : Deducciones] :
        /\ cierre' = [cierre EXCEPT ![p.s] = k]
        /\ k.deduccion = "activa" <=> k.res = "DESCUENTO_EMPLEADO"
  <2>. DEFINE d == Sincronizada(p.vio, p.mov, cierre[p.s].deduccion)
              k == [cierre[p.s] EXCEPT !.res = p.vio, !.deduccion = d]
  <2>1. cierre[p.s] \in [dif : Diferencias, res : Resoluciones, deduccion : Deducciones]
    BY <1>2, <1>3 DEF TypeOK
  <2>2. d \in Deducciones /\ (d = "activa" <=> p.vio = "DESCUENTO_EMPLEADO")
    BY <1>2, <2>1 DEF Sincronizada, Deducciones
  <2>. HIDE DEF d
  <2>3. /\ k \in [dif : Diferencias, res : Resoluciones, deduccion : Deducciones]
        /\ k.deduccion = "activa" <=> k.res = "DESCUENTO_EMPLEADO"
    BY <1>2, <2>1, <2>2
  <2>4. cierre' = [cierre EXCEPT ![p.s] = k]
    BY <1>1, <1>2, <1>3, <2>1 DEF TypeOK, d
  <2>. QED  BY <2>3, <2>4
<1>5. k # SinCierre
  BY DEF SinCierre, Resoluciones
<1>6. /\ cierre' \in [Sesiones -> [dif : Diferencias, res : Resoluciones, deduccion : Deducciones]
                                   \cup {SinCierre}]
      /\ \A q \in Sesiones : cierre'[q] # SinCierre <=> cierre[q] # SinCierre
      /\ \A q \in Sesiones : cierre'[q] = cierre[q] \/ Cierre(q) \in p.tiene
      /\ PayFollowsDecision'
  BY <1>2, <1>3, <1>4, <1>5 DEF TypeOK, PayFollowsDecision
<1>7. /\ \A q \in Sesiones : Abierta(q) => Abierta(q)'
      /\ \A u \in Usuarios : SesionesDe(u)' \subseteq SesionesDe(u)
      /\ TeamEndsWithSession'
      /\ \A q \in Sesiones : sesion'[q].estado = "CERRADA" <=> cierre'[q] # SinCierre
  BY <1>1, <1>3, <1>6 DEF Abierta, SesionesDe, TeamEndsWithSession, TypeOK
<1>. QED  BY <1>1, <1>3, <1>6, <1>7, DataStep DEF TypeOK, p
-----------------------------------------------------------------------------
LEMMA NextIInv == IInv /\ [Next]_vars => IInv'
<1>. SUFFICES ASSUME IInv, [Next]_vars PROVE IInv'
  OBVIOUS
<1>1. CASE UNCHANGED vars
  BY <1>1 DEF vars, IInv, TypeOK, LockExclusion, Bueno, AperturaBuena, SesionBuena, UsuarioBueno,
              OtrasBuenas, ResolucionBuena, OneEach, TeamEndsWithSession, PayFollowsDecision, SesionesDe, Abierta
<1>2. CASE Next
  BY <1>2, StepAbrir, StepAbrirMia, StepTomarGuarda, StepComprobarApertura, StepConfirmarApertura,
     StepTomarSesion, StepAgregar, StepConfirmarAgregado, StepAutoAuxiliar, StepRetirar, StepCerrar,
     StepAsignar, StepConfirmarAsignacion, StepReasignar, StepReasignacion, StepResolver,
     StepTomarCierre, StepBuscarDeduccion, StepConfirmarResolucion
     DEF Next
<1>. QED  BY <1>1, <1>2

\* The invariant the theorems below follow from: type correctness, that no lock
\* has two holders, and that what a request has read under its locks is so.
THEOREM Invariance == Spec => []IInv
BY InitIInv, NextIInv, PTL DEF Spec

\* Every variable keeps its type, and exactly the closed sessions have a close.
THEOREM TypeCorrect == Spec => []TypeOK
<1>1. IInv => TypeOK
  BY DEF IInv
<1>. QED  BY <1>1, Invariance, PTL

\* The locks of the users suffice, for any number of tills, users, sessions and
\* requests at once: a cashier is in one open session at most.
THEOREM NobodyInTwoTillsHolds == Spec => []NobodyInTwoTills
<1>1. IInv => NobodyInTwoTills
  <2>1. SUFFICES ASSUME IInv, NEW u \in Usuarios \ Supers
                 PROVE  Cardinality(SesionesDe(u)) <= 1
    BY DEF NobodyInTwoTills
  <2>2. CASE SesionesDe(u) = {}
    BY <2>2, FS_EmptySet
  <2>3. CASE SesionesDe(u) # {}
    <3>1. PICK s : s \in SesionesDe(u)
      BY <2>3
    <3>2. SesionesDe(u) = {s}
      BY <2>1, <3>1 DEF IInv, OneEach
    <3>3. Cardinality({s}) = 1
      BY FS_Singleton
    <3>. QED  BY <3>2, <3>3
  <2>. QED  BY <2>2, <2>3
<1>. QED  BY <1>1, Invariance, PTL

\* The lock of the session suffices for its team: the responsible person is in
\* it while the session is open, and nobody is once it is closed.
THEOREM TeamEndsWithSessionHolds == Spec => []TeamEndsWithSession
<1>1. IInv => TeamEndsWithSession
  BY DEF IInv
<1>. QED  BY <1>1, Invariance, PTL

\* For any number of administrators at once, the lock of the close suffices: its
\* deduction is active exactly when the resolution that stands asks for one.
THEOREM PayFollowsDecisionHolds == Spec => []PayFollowsDecision
<1>1. IInv => PayFollowsDecision
  BY DEF IInv
<1>. QED  BY <1>1, Invariance, PTL
=============================================================================
