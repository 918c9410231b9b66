---------------------------- MODULE CashSessions ----------------------------
(***************************************************************************)
(* Tills, the people assigned to them, their sessions and what becomes of  *)
(* a close (routers/cajas.js).  A session has one responsible person and a *)
(* team; a cashier may be in one open session only, which no index of the  *)
(* tables says: every handler that puts somebody into a session first      *)
(* takes that user's advisory lock and looks for another one.  CashLedger  *)
(* has what happens to the money of a session.                             *)
(*                                                                         *)
(* A transaction holds a set of locks until it ends and its writes become  *)
(* visible at its COMMIT.  A handler that finds something else than it     *)
(* needs, or is the victim of a deadlock, ends in Deshacer.                *)
(***************************************************************************)
EXTENDS Naturals, FiniteSets

CONSTANTS
  Cajas,       \* tills; they exist and are active
  Usuarios,    \* id_usuario, in whose order the advisory locks are taken
  Supers,      \* those with the role SUPER_ADMIN
  Sesiones,    \* rows cajas_sesiones may get, each with at most one close
  Conexiones,  \* requests served at a time
  Nada         \* NULL

ASSUME CashSessionsAssumption ==
  /\ Usuarios \subseteq Nat /\ IsFiniteSet(Usuarios) /\ Supers \subseteq Usuarios
  /\ Nada \notin Cajas \cup Usuarios \cup Sesiones

VARIABLES
  sesion,    \* id_caja, id_usuario_responsable and estado of a session
  equipo,    \* its active participants
  asigna,    \* cajas_usuarios_autorizados: the active assignment of a user
  cierre,    \* cajas_cierres of a session: its difference, its resolution, and its
             \* row of cajas_cierres_planilla_movimientos with the movement it names
  peticion   \* per connection, the request it serves

vars == <<sesion, equipo, asigna, cierre, peticion>>

-----------------------------------------------------------------------------
Roles        == {"RESPONSABLE", "AUXILIAR"}
Resoluciones == {"CAJA_CUADRA", "PENDIENTE_REVISION", "GASTO_EMPRESA", "DESCUENTO_EMPLEADO"}
Diferencias  == {"cuadra", "falta", "sobra"}
Deducciones  == {"ninguna", "activa", "retirada"}

SinSesion == [caja |-> Nada, resp |-> Nada, estado |-> "ausente"]
SinCaja   == [caja |-> Nada, rol |-> Nada]
SinCierre == [dif |-> Nada, res |-> Nada, deduccion |-> "ninguna"]
Ninguna   == [op |-> "ninguna", tiene |-> {}]

ASSUME NadaIsNoCode == Nada \notin Roles \cup Resoluciones \cup Diferencias \cup Deducciones

\* A user's advisory lock, and the rows of assignments, sessions and closes.
Candados == ({"usuario"} \X Usuarios) \cup ({"asignacion"} \X (Cajas \X Usuarios)) \cup
            ({"sesion", "cierre"} \X Sesiones)
Fila(c, u) == <<"asignacion", <<c, u>>>>

\* c, s, u name what the request is about, vio the role of the assignment or
\* the resolution of the close it read, later the one it gives, mov the deduction
\* of the close it found, faltan the users whose lock it needs, aux the team it
\* will open with.
\* What a handler looks at only at its end is chosen there: "sesion" is any of
\* the handlers that hold an open session.
Peticion ==
  [op : {"abrir", "asignar", "reasignar", "sesion", "agregar", "resolver"},
   c : Cajas \cup {Nada}, s : Sesiones \cup {Nada}, u : Usuarios \cup {Nada},
   vio : Roles \cup Resoluciones \cup {Nada}, mov : Deducciones \cup {Nada},
   aux : SUBSET Usuarios, faltan : SUBSET Usuarios,
   paso : {"guardas", "confirmar", "escribir"}, tiene : SUBSET Candados]

Init ==
  /\ sesion = [s \in Sesiones |-> SinSesion]
  /\ equipo = [s \in Sesiones |-> {}]
  /\ asigna = [u \in Usuarios |-> SinCaja]
  /\ cierre = [s \in Sesiones |-> SinCierre]
  /\ peticion = [t \in Conexiones |-> Ninguna]

Abierta(s)     == sesion[s].estado = "ABIERTA"
AbiertasDe(c)  == {s \in Sesiones : Abierta(s) /\ sesion[s].caja = c}
Auxiliares(c)  == {u \in Usuarios : asigna[u] = [caja |-> c, rol |-> "AUXILIAR"]}

\* fetchUsuarioSesionAbierta: as the responsible or as a participant.
SesionesDe(u)  == {s \in Sesiones : Abierta(s) /\ (sesion[s].resp = u \/ u \in equipo[s])}

\* Mutants of Libre: nobody waits for the lock of a user, of a session.
GuardlessLibre(t, x) ==
  x[1] = "usuario" \/ \A o \in Conexiones \ {t} : x \notin peticion[o].tiene

RowlessLibre(t, x) ==
  x[1] = "sesion" \/ \A o \in Conexiones \ {t} : x \notin peticion[o].tiene

Libre(t, x) == \A o \in Conexiones \ {t} : x \notin peticion[o].tiene

Empieza(t, op, c, s, u, candados) ==
  peticion' = [peticion EXCEPT ![t] =
    [op |-> op, c |-> c, s |-> s, u |-> u, vio |-> Nada, mov |-> Nada, aux |-> {},
     faltan |-> {}, paso |-> "confirmar", tiene |-> candados]]

Acaba(t) == peticion' = [peticion EXCEPT ![t] = Ninguna]

Listo(t, op) == peticion[t].op = op /\ peticion[t].paso = "confirmar"

-----------------------------------------------------------------------------
(* Opening. *)

\* The team is read before anybody's lock is held.
Prepara(t, c, u, candados) ==
  /\ peticion' = [peticion EXCEPT ![t] =
       [op |-> "abrir", c |-> c, s |-> Nada, u |-> u, vio |-> Nada, mov |-> Nada,
        aux |-> Auxiliares(c) \ {u}, faltan |-> Auxiliares(c) \cup {u},
        paso |-> "guardas", tiene |-> candados]]
  /\ UNCHANGED <<sesion, equipo, asigna, cierre>>

\* The administration opens a till for the person responsible for it; a
\* super-admin, in a contingency, for themselves.
Abrir(t, c, u) ==
  /\ peticion[t] = Ninguna
  /\ u \in Supers \/ asigna[u] = [caja |-> c, rol |-> "RESPONSABLE"]
  /\ Prepara(t, c, u, {})

\* A cashier opens the till they are assigned to, holding the assignment.
AbrirMia(t, u) ==
  /\ peticion[t] = Ninguna /\ asigna[u].rol = "RESPONSABLE"
  /\ Libre(t, Fila(asigna[u].caja, u))
  /\ SesionesDe(u) = {} /\ AbiertasDe(asigna[u].caja) = {}
  /\ Prepara(t, asigna[u].caja, u, {Fila(asigna[u].caja, u)})

\* pg_advisory_xact_lock, one user after another.
TomarGuarda(t) ==
  \E u \in Usuarios :
    /\ peticion[t] # Ninguna /\ peticion[t].paso = "guardas"
    /\ u \in peticion[t].faltan /\ \A v \in peticion[t].faltan : u <= v
    /\ Libre(t, <<"usuario", u>>)
    /\ peticion' = [peticion EXCEPT ![t].faltan = @ \ {u},
                                    ![t].tiene = @ \cup {<<"usuario", u>>}]
    /\ UNCHANGED <<sesion, equipo, asigna, cierre>>

\* With every lock held: nobody of the team is in an open session, nor is the
\* till.  A session just being closed is waited for.
ComprobarApertura(t) ==
  LET p == peticion[t] IN
  /\ p.op = "abrir" /\ p.paso = "guardas" /\ p.faltan = {}
  /\ \A u \in p.aux \cup {p.u} : SesionesDe(u) = {}
  /\ AbiertasDe(p.c) = {}
  /\ peticion' = [peticion EXCEPT ![t].paso = "confirmar"]
  /\ UNCHANGED <<sesion, equipo, asigna, cierre>>

ConfirmarApertura(t, s) ==
  LET p == peticion[t] IN
  /\ Listo(t, "abrir") /\ sesion[s] = SinSesion
  /\ sesion' = [sesion EXCEPT ![s] = [caja |-> p.c, resp |-> p.u, estado |-> "ABIERTA"]]
  /\ equipo' = [equipo EXCEPT ![s] = p.aux \cup {p.u}]
  /\ Acaba(t) /\ UNCHANGED <<asigna, cierre>>

-----------------------------------------------------------------------------
(* The team of an open session, and its close. *)

\* ensureOpenSession with FOR UPDATE.
TomarSesion(t, s) ==
  /\ peticion[t] = Ninguna /\ Libre(t, <<"sesion", s>>) /\ Abierta(s)
  /\ Empieza(t, "sesion", sesion[s].caja, s, Nada, {<<"sesion", s>>})
  /\ UNCHANGED <<sesion, equipo, asigna, cierre>>

\* Who is added by somebody else also needs their own lock, taken next.
Agregar(t, u) ==
  /\ Listo(t, "sesion") /\ u # sesion[peticion[t].s].resp
  /\ peticion' = [peticion EXCEPT ![t].op = "agregar", ![t].u = u, ![t].faltan = {u},
                                  ![t].paso = "guardas"]
  /\ UNCHANGED <<sesion, equipo, asigna, cierre>>

ConfirmarAgregado(t) ==
  LET p == peticion[t] IN
  /\ p.op = "agregar" /\ p.faltan = {}
  /\ SesionesDe(p.u) = {} /\ asigna[p.u] = [caja |-> p.c, rol |-> "AUXILIAR"]
  /\ equipo' = [equipo EXCEPT ![p.s] = @ \cup {p.u}]
  /\ Acaba(t) /\ UNCHANGED <<sesion, asigna, cierre>>

\* auto-auxiliar looks at no other session and takes no user's lock.
AutoAuxiliar(t, u) ==
  /\ Listo(t, "sesion") /\ u \in Supers
  /\ equipo' = [equipo EXCEPT ![peticion[t].s] = @ \cup {u}]
  /\ Acaba(t) /\ UNCHANGED <<sesion, asigna, cierre>>

Retirar(t, u) ==
  LET s == peticion[t].s IN
  /\ Listo(t, "sesion") /\ u \in equipo[s] /\ u # sesion[s].resp
  /\ equipo' = [equipo EXCEPT ![s] = @ \ {u}]
  /\ Acaba(t) /\ UNCHANGED <<sesion, asigna, cierre>>

\* The close takes the whole team off and leaves a difference to be resolved.
\* (One whose differences by method of payment add up to nothing also stays
\* pending; CAJA_CUADRA, which nobody pays for, is all it can become.)
Cerrar(t, d) ==
  LET s == peticion[t].s
      r == IF d = "cuadra" THEN "CAJA_CUADRA" ELSE "PENDIENTE_REVISION"
  IN
  /\ Listo(t, "sesion")
  /\ sesion' = [sesion EXCEPT ![s].estado = "CERRADA"]
  /\ equipo' = [equipo EXCEPT ![s] = {}]
  /\ cierre' = [cierre EXCEPT ![s] = [dif |-> d, res |-> r, deduccion |-> "ninguna"]]
  /\ Acaba(t) /\ UNCHANGED asigna

-----------------------------------------------------------------------------
(* Assignments. *)

\* The open session of the till and the assignment are read with FOR UPDATE.
Asignar(t, c, u) ==
  \E s \in AbiertasDe(c) \cup {Nada} :
    /\ peticion[t] = Ninguna
    /\ (s = Nada) = (AbiertasDe(c) = {})
    /\ s # Nada => Libre(t, <<"sesion", s>>)
    /\ asigna[u].caja = c => Libre(t, Fila(c, u))
    /\ peticion' = [peticion EXCEPT ![t] =
         [op |-> "asignar", c |-> c, s |-> s, u |-> u,
          vio |-> IF asigna[u].caja = c THEN asigna[u].rol ELSE Nada,
          mov |-> Nada, aux |-> {}, faltan |-> {u}, paso |-> "guardas",
          tiene |-> (IF s = Nada THEN {} ELSE {<<"sesion", s>>}) \cup
                    (IF asigna[u].caja = c THEN {Fila(c, u)} ELSE {})]]
    /\ UNCHANGED <<sesion, equipo, asigna, cierre>>

\* ensureActiveAssignmentBusinessRules and the two unique indexes: a user has
\* one till, a till one responsible person.
Asignable(c, u, rol) ==
  /\ asigna[u].caja \in {c, Nada}
  /\ rol = "RESPONSABLE" =>
       \A v \in Usuarios \ {u} : asigna[v] # [caja |-> c, rol |-> "RESPONSABLE"]

\* Only the latest session of a user is looked at; a super-admin may have more.
ConfirmarAsignacion(t, rol) ==
  LET p == peticion[t] IN
  /\ p.op = "asignar" /\ p.faltan = {}
  /\ SesionesDe(p.u) = {} \/ p.s \in SesionesDe(p.u)
  /\ IF p.s = Nada
       THEN p.vio # rol
       ELSE p.vio = Nada /\ (rol = "RESPONSABLE") = (p.u = sesion[p.s].resp)
  /\ Libre(t, Fila(p.c, p.u)) /\ Asignable(p.c, p.u, rol)
  /\ asigna' = [asigna EXCEPT ![p.u] = [caja |-> p.c, rol |-> rol]]
  /\ equipo' = IF p.s # Nada /\ rol = "AUXILIAR"
                 THEN [equipo EXCEPT ![p.s] = @ \cup {p.u}] ELSE equipo
  /\ Acaba(t) /\ UNCHANGED <<sesion, cierre>>

\* An assignment is edited (given to u, with another role, or active again) or
\* deactivated: only while its till has no open session.
Reasignar(t, v, c) ==
  /\ peticion[t] = Ninguna /\ Libre(t, Fila(c, v))
  /\ asigna[v].caja \in {c, Nada} /\ AbiertasDe(c) = {}
  /\ Empieza(t, "reasignar", c, Nada, v, {Fila(c, v)})
  /\ UNCHANGED <<sesion, equipo, asigna, cierre>>

SinLaDe(v, c) == IF asigna[v].caja = c THEN [asigna EXCEPT ![v] = SinCaja] ELSE asigna

Desactivar(t) ==
  /\ Listo(t, "reasignar")
  /\ asigna' = SinLaDe(peticion[t].u, peticion[t].c)
  /\ Acaba(t) /\ UNCHANGED <<sesion, equipo, cierre>>

ConfirmarReasignacion(t, u, rol) ==
  LET c == peticion[t].c
      otras == SinLaDe(peticion[t].u, c)
  IN
  /\ Listo(t, "reasignar") /\ otras[u] = SinCaja
  /\ rol = "RESPONSABLE" => \A w \in Usuarios : otras[w] # [caja |-> c, rol |-> rol]
  /\ asigna' = [otras EXCEPT ![u] = [caja |-> c, rol |-> rol]]
  /\ Acaba(t) /\ UNCHANGED <<sesion, equipo, cierre>>

-----------------------------------------------------------------------------
(* What becomes of a close. *)

\* allowedCodes by the sign of the difference.
Admitidas(d) ==
  CASE d = "cuadra" -> {"CAJA_CUADRA"}
    [] d = "falta"  -> {"GASTO_EMPRESA", "DESCUENTO_EMPLEADO"}
    [] d = "sobra"  -> {"GASTO_EMPRESA", "PENDIENTE_REVISION"}

\* The SELECT ... FOR UPDATE OF cc begins with what is committed then.
Resolver(t, s) ==
  /\ peticion[t] = Ninguna /\ cierre[s] # SinCierre
  /\ peticion' = [peticion EXCEPT ![t] =
       [op |-> "resolver", c |-> sesion[s].caja, s |-> s, u |-> Nada,
        vio |-> cierre[s].res, mov |-> Nada, aux |-> {}, faltan |-> {},
        paso |-> "guardas", tiene |-> {}]]
  /\ UNCHANGED <<sesion, equipo, asigna, cierre>>

\* Mutant of TomarCierre: the SELECT without FOR UPDATE.
UnlockedTomarCierre(t) ==
  LET p == peticion[t] IN
  /\ p.op = "resolver" /\ p.paso = "guardas"
  /\ p.vio = "PENDIENTE_REVISION" \/ cierre[p.s].res # p.vio
  /\ peticion' = [peticion EXCEPT ![t].paso = "confirmar", ![t].tiene = {<<"cierre", p.s>>}]
  /\ UNCHANGED <<sesion, equipo, asigna, cierre>>

\* Once it has the row, the check that no final resolution is there.  The row
\* is read again after a wait, the LEFT JOINed catalogue of resolutions is not:
\* a resolution that changed meanwhile joins with nothing, its code is NULL,
\* and the check lets the request pass.
TomarCierre(t) ==
  LET p == peticion[t] IN
  /\ p.op = "resolver" /\ p.paso = "guardas" /\ Libre(t, <<"cierre", p.s>>)
  /\ p.vio = "PENDIENTE_REVISION" \/ cierre[p.s].res # p.vio
  /\ peticion' = [peticion EXCEPT ![t].paso = "confirmar", ![t].tiene = {<<"cierre", p.s>>}]
  /\ UNCHANGED <<sesion, equipo, asigna, cierre>>

\* syncPayrollDeductionForClose reads the deduction of the close; what it then
\* writes of it is seen at the COMMIT.  A payroll that is not there, or not
\* editable any more, refuses a deduction (Deshacer).
BuscarDeduccion(t, r) ==
  LET s == peticion[t].s IN
  /\ Listo(t, "resolver") /\ r \in Admitidas(cierre[s].dif)
  /\ peticion' = [peticion EXCEPT ![t].vio = r, ![t].mov = cierre[s].deduccion,
                                  ![t].paso = "escribir"]
  /\ UNCHANGED <<sesion, equipo, asigna, cierre>>

\* A deduction is inserted or made active again; any other resolution takes
\* back the one that was found and writes nothing when there was none.
Sincronizada(r, hallada, actual) ==
  IF r = "DESCUENTO_EMPLEADO" THEN "activa"
  ELSE IF hallada = "ninguna" THEN actual ELSE "retirada"

ConfirmarResolucion(t) ==
  LET p == peticion[t] IN
  /\ p.op = "resolver" /\ p.paso = "escribir"
  /\ cierre' = [cierre EXCEPT ![p.s].res = p.vio,
                              ![p.s].deduccion = Sincronizada(p.vio, p.mov, @)]
  /\ Acaba(t) /\ UNCHANGED <<sesion, equipo, asigna>>

\* An error, a deadlock's victim or a lost connection: ROLLBACK.
Deshacer(t) ==
  peticion[t] # Ninguna /\ Acaba(t) /\ UNCHANGED <<sesion, equipo, asigna, cierre>>

Next ==
  \E t \in Conexiones :
    \/ \E c \in Cajas, u \in Usuarios : Abrir(t, c, u)
    \/ \E u \in Usuarios : AbrirMia(t, u)
    \/ TomarGuarda(t) \/ ComprobarApertura(t)
    \/ \E s \in Sesiones : ConfirmarApertura(t, s)
    \/ \E s \in Sesiones : TomarSesion(t, s)
    \/ \E u \in Usuarios : Agregar(t, u)
    \/ ConfirmarAgregado(t)
    \/ \E u \in Usuarios : AutoAuxiliar(t, u)
    \/ \E u \in Usuarios : Retirar(t, u)
    \/ \E d \in Diferencias : Cerrar(t, d)
    \/ \E c \in Cajas, u \in Usuarios : Asignar(t, c, u)
    \/ \E rol \in Roles : ConfirmarAsignacion(t, rol)
    \/ \E v \in Usuarios, c \in Cajas : Reasignar(t, v, c)
    \/ Desactivar(t)
    \/ \E u \in Usuarios, rol \in Roles : ConfirmarReasignacion(t, u, rol)
    \/ \E s \in Sesiones : Resolver(t, s)
    \/ TomarCierre(t)
    \/ \E r \in Resoluciones : BuscarDeduccion(t, r)
    \/ ConfirmarResolucion(t)
    \/ Deshacer(t)

Spec == Init /\ [][Next]_vars

-----------------------------------------------------------------------------
(* Properties. *)

\* Every variable holds what its table or request may hold, and it is the closed
\* sessions that have a close.
TypeOK ==
  /\ sesion \in [Sesiones -> [caja : Cajas, resp : Usuarios, estado : {"ABIERTA", "CERRADA"}]
                               \cup {SinSesion}]
  /\ equipo \in [Sesiones -> SUBSET Usuarios]
  /\ asigna \in [Usuarios -> [caja : Cajas, rol : Roles] \cup {SinCaja}]
  /\ cierre \in [Sesiones -> [dif : Diferencias, res : Resoluciones, deduccion : Deducciones]
                               \cup {SinCierre}]
  /\ peticion \in [Conexiones -> Peticion \cup {Ninguna}]
  /\ \A s \in Sesiones : sesion[s].estado = "CERRADA" <=> cierre[s] # SinCierre

\* A cashier is in one open session at most, whatever openings, additions,
\* assignments and closes run at once: no index says so, only the advisory
\* locks of the users (lockUsersOpenSessionGuard) make the handlers that look
\* for another session and then write exclude one another.  Super-admins are
\* left out: auto-auxiliar puts them into any session.
NobodyInTwoTills == \A u \in Usuarios \ Supers : Cardinality(SesionesDe(u)) <= 1

\* The responsible person is in the team of their session as long as it is
\* open, and a closed session has no team: the close takes everybody off
\* (closeSessionHandler) and nobody is added after it, although additions,
\* removals, assignments and the close of one session run at once.
TeamEndsWithSession ==
  \A s \in Sesiones : IF Abierta(s) THEN sesion[s].resp \in equipo[s] ELSE equipo[s] = {}

\* The deduction of a close is active exactly when it was last resolved as one.
\* Several administrators may resolve one close: the check that it is still to be
\* resolved does not stop the one who waited (TomarCierre), who may have to take
\* back what the first entered, a branch of syncPayrollDeductionForClose only
\* this race reaches.  That the deduction is looked for, written, and the
\* resolution with it, as one step rests on the lock of the close alone.  The
\* sums the payroll stores are no part of it: a deduction taken back stays in them.
PayFollowsDecision ==
  \A s \in Sesiones :
    cierre[s].deduccion = "activa" <=> cierre[s].res = "DESCUENTO_EMPLEADO"
=============================================================================
