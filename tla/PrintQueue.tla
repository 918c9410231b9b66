----------------------------- MODULE PrintQueue -----------------------------
(***************************************************************************)
(* The backend half of the branch printing subsystem: the table            *)
(* trabajos_impresion, its claim function, the transitions a print agent   *)
(* may ask for, the signatures QZ Tray needs before it prints, and the     *)
(* administrator's resolution of a job nobody can settle.                  *)
(*                                                                         *)
(* Agents are not modelled here: any agent may send any request at any     *)
(* time, so what holds of this module holds whatever the agents do.        *)
(* PrintSystem adds the agents.                                            *)
(*                                                                         *)
(* One branch is modelled: every statement of the code filters on the      *)
(* branch of the authenticated agent.  Each request is one PostgreSQL      *)
(* transaction on a row locked FOR UPDATE, hence one action, taken when it *)
(* commits.  Its clock is older: now() stands still from the BEGIN, while  *)
(* the transaction waits for the row and the leases run on (see edad).     *)
(***************************************************************************)
EXTENDS Naturals, FiniteSets

CONSTANTS
  Agents,        \* credentials of agentes_impresion
  Jobs,          \* one per (branch, Idempotency-Key, document type)
  NoAgent,       \* NULL in id_agente_tomado
  DefaultMax,    \* DEFAULT of max_intentos (5)
  Cap,           \* upper bound of the CHECK on max_intentos (20)
  LeaseTicks,    \* how many ticks a fresh lease lasts
  MaxRequeues    \* model bound: requeues an administrator orders per job

ASSUME ConstantsAssumption ==
  /\ NoAgent \notin Agents
  /\ Cap \in Nat /\ DefaultMax \in 1..Cap
  /\ LeaseTicks \in Nat \ {0}
  /\ MaxRequeues \in Nat

VARIABLES
  job,        \* the rows of trabajos_impresion
  activos,    \* the agents whose estado is 'activo'
  signed,     \* per job, the agents holding a 'print' row in firmas_qz_agente_solicitudes
  tardios,    \* history: jobs whose lease was renewed after it ran out, by a request begun before
  requeues,   \* history: per job, manual_requeue_not_printed events
  grants      \* history: per job, print signatures ever issued

vars == <<job, activos, signed, tardios, requeues, grants>>

-----------------------------------------------------------------------------
Estados == {"ausente", "pendiente", "asignado", "imprimiendo",
            "confirmacion_pendiente", "impreso", "fallido"}
Leased  == {"asignado", "imprimiendo"}   \* the states whose lease_expires_at is not NULL
Final   == {"impreso", "fallido"}

\* lease counts the ticks left to lease_expires_at: 0 is expired, or NULL
\* outside Leased.  disponible is disponible_at <= now().
JobRecord == [estado     : Estados,
              agente     : Agents \cup {NoAgent},
              intentos   : 0..Cap,
              maxIntentos: 1..Cap,
              lease      : 0..LeaseTicks,
              disponible : BOOLEAN]

Least(m, n)    == IF m <= n THEN m ELSE n
Greatest(m, n) == IF m >= n THEN m ELSE n

HasLiveLease(j) == job[j].estado \in Leased /\ job[j].lease > 0
Owns(a, j)      == job[j].agente = a

Init ==
  /\ job = [j \in Jobs |-> [estado |-> "ausente", agente |-> NoAgent, intentos |-> 0,
                            maxIntentos |-> DefaultMax, lease |-> 0, disponible |-> TRUE]]
  /\ activos = Agents
  /\ signed = [j \in Jobs |-> {}]
  /\ tardios = {}
  /\ requeues = [j \in Jobs |-> 0]
  /\ grants = [j \in Jobs |-> 0]

-----------------------------------------------------------------------------
\* enqueuePrintJob: a repeated key meets ON CONFLICT DO NOTHING and leaves the
\* existing row as it is, so only the first call is a step.
Enqueue(j) ==
  /\ job[j].estado = "ausente"
  /\ job' = [job EXCEPT ![j].estado = "pendiente"]
  /\ UNCHANGED <<activos, signed, tardios, requeues, grants>>

\* A mutant: the claim forgets to compare intentos with max_intentos.
UnboundedClaimable(j) ==
  /\ job[j].disponible
  /\ \/ job[j].estado = "pendiente"
     \/ job[j].estado \in Leased /\ job[j].lease = 0

\* A mutant: the claim forgets to compare lease_expires_at with now().
LeaseBlindClaimable(j) ==
  /\ job[j].intentos < job[j].maxIntentos
  /\ job[j].disponible
  /\ job[j].estado \in {"pendiente"} \cup Leased

\* A mutant: a job stuck past the barrier is recovered like an expired lease.
BarrierBlindClaimable(j) ==
  /\ job[j].intentos < job[j].maxIntentos
  /\ job[j].disponible
  /\ \/ job[j].estado = "pendiente"
     \/ job[j].estado \in Leased \cup {"confirmacion_pendiente"} /\ job[j].lease = 0

\* A mutant: expired leases are not recovered.
PendingOnlyClaimable(j) ==
  /\ job[j].intentos < job[j].maxIntentos
  /\ job[j].disponible
  /\ job[j].estado = "pendiente"

\* reclamar_trabajos_impresion.  FOR UPDATE SKIP LOCKED passes over any
\* candidate another transaction holds, so each candidate may be the one taken.
\* The EXISTS over the agent's other rows takes no lock: a renewal that has not
\* committed yet is not seen, and comes after the claim in the model.
HoldsLiveLease(a) == \E j \in Jobs : Owns(a, j) /\ HasLiveLease(j)

Claimable(j) ==
  /\ job[j].intentos < job[j].maxIntentos
  /\ job[j].disponible
  /\ \/ job[j].estado = "pendiente"
     \/ job[j].estado \in Leased /\ job[j].lease = 0

CanClaim(a, j) == a \in activos /\ ~HoldsLiveLease(a) /\ Claimable(j)

Claim(a, j) ==
  /\ CanClaim(a, j)
  /\ job' = [job EXCEPT ![j].estado = "asignado", ![j].agente = a,
                        ![j].intentos = @ + 1, ![j].lease = LeaseTicks]
  /\ tardios' = tardios \ {j}
  /\ UNCHANGED <<activos, signed, requeues, grants>>

\* transitionPrintJob: the table of rules, the guard and the UPDATE.  Only the
\* middleware looks at the agent's estado, before the transaction starts, so a
\* transition may still land just after the agent was revoked.
\*
\* edad is how far the job's lease ran down between the BEGIN, whose now() both
\* judges the old lease and stamps the new one, and the COMMIT.
Ops == {"printing", "confirmationPending", "complete", "fail", "renew"}

FromStates(op) ==
  CASE op = "printing"            -> {"asignado"}
    [] op = "confirmationPending" -> {"imprimiendo"}
    [] op = "complete"            -> {"confirmacion_pendiente"}
    [] op = "fail"                -> {"imprimiendo"}
    [] op = "renew"               -> {"asignado", "imprimiendo"}

Retryable(j) == job[j].intentos < job[j].maxIntentos

NextState(op, j) ==
  CASE op = "printing"            -> "imprimiendo"
    [] op = "confirmationPending" -> "confirmacion_pendiente"
    [] op = "complete"            -> "impreso"
    [] op = "fail"                -> IF Retryable(j) THEN "pendiente" ELSE "fallido"
    [] op = "renew"               -> job[j].estado

\* A mutant: an expired lease may still be renewed.
LaxNeedsLease(op) == op \notin {"complete", "renew"}

NeedsLease(op)  == op # "complete"
ClearsLease(op) == op \in {"confirmationPending", "complete", "fail"}

CanTransition(op, a, j, edad) ==
  /\ Owns(a, j)
  /\ job[j].estado \in FromStates(op)
  /\ NeedsLease(op) => job[j].lease + edad > 0

Transition(op, a, j, edad) ==
  /\ CanTransition(op, a, j, edad)
  /\ job' = [job EXCEPT ![j].estado = NextState(op, j),
                        ![j].lease = IF ClearsLease(op) THEN 0 ELSE LeaseTicks - edad,
                        ![j].disponible = IF op = "fail" /\ Retryable(j) THEN FALSE ELSE @]
  /\ tardios' = IF job[j].lease = 0 /\ edad > 0 /\ ~ClearsLease(op)
                  THEN tardios \cup {j} ELSE tardios
  /\ UNCHANGED <<activos, signed, requeues, grants>>

\* authorizeAndSignAgentQzRequest, call 'print': one signature per agent and
\* job, ever, and only past the barrier.
EarlySign(a, j) ==   \* a mutant: a signature may be had before the barrier
  /\ Owns(a, j)
  /\ job[j].estado \in {"imprimiendo", "confirmacion_pendiente"}
  /\ a \notin signed[j]

CanSign(a, j) ==
  /\ Owns(a, j)
  /\ job[j].estado = "confirmacion_pendiente"
  /\ a \notin signed[j]

SignPrint(a, j) ==
  /\ CanSign(a, j)
  /\ signed' = [signed EXCEPT ![j] = @ \cup {a}]
  /\ grants' = [grants EXCEPT ![j] = @ + 1]
  /\ UNCHANGED <<job, activos, tardios, requeues>>

\* resolvePrintJobAdministratively.
Ambiguous(j) ==
  \/ job[j].estado = "confirmacion_pendiente"
  \/ job[j].estado \in Leased /\ job[j].lease = 0

ResolvePrinted(j) ==
  /\ Ambiguous(j)
  /\ job' = [job EXCEPT ![j].estado = "impreso", ![j].lease = 0]
  /\ UNCHANGED <<activos, signed, tardios, requeues, grants>>

\* A mutant: only max_intentos is raised, and stops at the CHECK's bound.
UncappedRequeue(row) ==
  [estado      |-> "pendiente",
   agente      |-> NoAgent,
   intentos    |-> row.intentos,
   maxIntentos |-> Least(Cap, Greatest(row.maxIntentos, row.intentos + 1)),
   lease       |-> 0,
   disponible  |-> TRUE]

\* What 'not_printed' makes of a row: back in the queue, unowned, with room for
\* one more attempt even when intentos already reached the CHECK's bound.
Requeued(row) ==
  [estado      |-> "pendiente",
   agente      |-> NoAgent,
   intentos    |-> Least(row.intentos, Cap - 1),
   maxIntentos |-> Least(Cap, Greatest(row.maxIntentos, row.intentos + 1)),
   lease       |-> 0,
   disponible  |-> TRUE]

ResolveNotPrinted(j) ==
  /\ Ambiguous(j)
  /\ requeues[j] < MaxRequeues
  /\ job' = [job EXCEPT ![j] = Requeued(@)]
  /\ requeues' = [requeues EXCEPT ![j] = @ + 1]
  /\ UNCHANGED <<activos, signed, tardios, grants>>

\* An operator sets estado = 'revocado' by hand (docs/branch-print-agent.md:111).
Revoke(a) ==
  /\ a \in activos
  /\ activos' = activos \ {a}
  /\ UNCHANGED <<job, signed, tardios, requeues, grants>>

\* Time: a lease runs down, a backoff elapses.
LeaseTick(j) ==
  /\ HasLiveLease(j)
  /\ job' = [job EXCEPT ![j].lease = @ - 1]
  /\ UNCHANGED <<activos, signed, tardios, requeues, grants>>

BackoffElapses(j) ==
  /\ ~job[j].disponible
  /\ job' = [job EXCEPT ![j].disponible = TRUE]
  /\ UNCHANGED <<activos, signed, tardios, requeues, grants>>

Next ==
  \/ \E j \in Jobs :
       \/ Enqueue(j)
       \/ ResolvePrinted(j)
       \/ ResolveNotPrinted(j)
       \/ LeaseTick(j)
       \/ BackoffElapses(j)
       \/ \E a \in Agents :
            \/ Claim(a, j)
            \/ SignPrint(a, j)
            \/ \E op \in Ops, edad \in 0..LeaseTicks : Transition(op, a, j, edad)
  \/ \E a \in Agents : Revoke(a)

Spec == Init /\ [][Next]_vars

-----------------------------------------------------------------------------
\* Every variable has its type; attempts never pass the CHECKs of the table.
TypeOK ==
  /\ job \in [Jobs -> JobRecord]
  /\ activos \subseteq Agents
  /\ signed \in [Jobs -> SUBSET Agents]
  /\ tardios \subseteq Jobs
  /\ requeues \in [Jobs -> 0..MaxRequeues]
  /\ grants \in [Jobs -> Nat]

\* A job waiting in 'pendiente' always has an attempt left: no sequence of
\* failures, expiries and requeues (whose UPDATE rewrites intentos and
\* max_intentos together) parks a job where no claim can ever take it.
PendingIsClaimable ==
  \A j \in Jobs : job[j].estado = "pendiente" => job[j].intentos < job[j].maxIntentos

\* The claim function says an agent that keeps a live lease takes no second job
\* (sql/2026-07-16_cola_impresion_agentes_sucursal.sql:140).  Its EXISTS locks
\* nothing, so that holds up to one overlap: of two live leases of an agent,
\* one was renewed by a request that began while the lease lived and committed
\* after it ran out, beside the claim of the other.  No sequence of claims,
\* failures and requests begun in time and out of time gives a second one.
SecondLeaseNeedsOverlap ==
  \A a \in Agents : \A i, j \in Jobs :
    Owns(a, i) /\ Owns(a, j) /\ HasLiveLease(i) /\ HasLiveLease(j) /\ i # j
      => i \in tardios \/ j \in tardios

\* Physical copies are authorised by signatures: over all agents, a job gets
\* at most one print signature, plus one for each time an administrator sent
\* it back as not printed.
SignaturesWithinRequeues ==
  \A j \in Jobs : grants[j] <= requeues[j] + 1

\* A job changes hands between agents only when its lease ran out, was given
\* back, or an administrator intervened - never while its agent may be working
\* under a live lease, nor past the barrier.
NoTheft ==
  [][\A j \in Jobs :
       (job[j].agente \in Agents /\ job'[j].agente # job[j].agente)
         => /\ ~HasLiveLease(j)
            /\ job[j].estado = "confirmacion_pendiente" => job'[j].agente = NoAgent]_vars

\* The inductive strengthening of SignaturesWithinRequeues: the signature of
\* the running episode is outstanding only past the barrier, and only while
\* the agent that crossed it can be told apart as having signed.
CopyBudget ==
  \A j \in Jobs :
    \/ grants[j] <= requeues[j]
    \/ /\ job[j].estado \in {"confirmacion_pendiente", "impreso"}
       /\ job[j].agente \in signed[j]
       /\ grants[j] <= requeues[j] + 1

\* The inductive strengthening of PendingIsClaimable: a row starts with an
\* attempt left.
UnclaimedHasAttempt ==
  \A j \in Jobs :
    job[j].estado \in {"ausente", "pendiente"} => job[j].intentos < job[j].maxIntentos

IInv == TypeOK /\ UnclaimedHasAttempt /\ SecondLeaseNeedsOverlap /\ CopyBudget
=============================================================================
