----------------------------- MODULE PrintProofs -----------------------------
(***************************************************************************)
(* Theorems of branch printing for any agents, jobs, attempts, lease ticks,*)
(* requeues and faults: first those of the queue, PrintQueue, whatever its *)
(* agents do; then those of the whole, PrintSystem, whose agents' journals *)
(* and requests add what the queue alone cannot promise.                   *)
(***************************************************************************)
EXTENDS PrintSystem, FiniteSetTheorems, TLAPS

-----------------------------------------------------------------------------
(* The queue. *)

USE DEF Estados, Leased

\* Typing of the two helpers that compute a requeued job's attempts.
LEMMA RequeuedAttempts ==
  ASSUME NEW i \in 0..Cap, NEW m \in 1..Cap
  PROVE  /\ Least(i, Cap - 1) \in 0..Cap
         /\ Least(Cap, Greatest(m, i + 1)) \in 1..Cap
         /\ Least(i, Cap - 1) < Least(Cap, Greatest(m, i + 1))
BY ConstantsAssumption DEF Least, Greatest

LEMMA InitInvariant == Init => IInv
<1> SUFFICES ASSUME Init PROVE IInv
    OBVIOUS
<1>1. TypeOK
  BY ConstantsAssumption DEF Init, TypeOK, JobRecord
<1>2. UnclaimedHasAttempt
  BY ConstantsAssumption DEF Init, UnclaimedHasAttempt
<1>3. SecondLeaseNeedsOverlap
  BY DEF Init, SecondLeaseNeedsOverlap, HasLiveLease
<1>4. CopyBudget
  BY DEF Init, CopyBudget
<1> QED BY <1>1, <1>2, <1>3, <1>4 DEF IInv

\* One step of the backend keeps the types.
LEMMA TypeStep == TypeOK /\ [Next]_vars => TypeOK'
<1> SUFFICES ASSUME TypeOK, [Next]_vars PROVE TypeOK'
    OBVIOUS
<1> USE ConstantsAssumption DEF TypeOK, JobRecord
<1>1. ASSUME NEW j \in Jobs, Enqueue(j) PROVE TypeOK'
  BY <1>1 DEF Enqueue
<1>2. ASSUME NEW j \in Jobs, ResolvePrinted(j) PROVE TypeOK'
  <2>0. "impreso" \in Estados /\ 0 \in 0..LeaseTicks
    OBVIOUS
  <2>1. [job[j] EXCEPT !.estado = "impreso", !.lease = 0] \in JobRecord
    BY <2>0
  <2>2. job' = [job EXCEPT ![j] = [job[j] EXCEPT !.estado = "impreso", !.lease = 0]]
    BY <1>2 DEF ResolvePrinted
  <2>3. job' \in [Jobs -> JobRecord]
    BY <2>1, <2>2
  <2> QED BY <1>2, <2>3 DEF ResolvePrinted
<1>3. ASSUME NEW j \in Jobs, ResolveNotPrinted(j) PROVE TypeOK'
  <2>1. requeues' \in [Jobs -> 0..MaxRequeues]
    BY <1>3 DEF ResolveNotPrinted
  <2>2. /\ job[j].intentos \in 0..Cap
        /\ job[j].maxIntentos \in 1..Cap
    OBVIOUS
  <2>3. /\ Least(job[j].intentos, Cap - 1) \in 0..Cap
        /\ Least(Cap, Greatest(job[j].maxIntentos, job[j].intentos + 1)) \in 1..Cap
    BY <2>2, RequeuedAttempts
  <2>4. job' \in [Jobs -> JobRecord]
    BY <1>3, <2>3 DEF ResolveNotPrinted, Requeued
  <2> QED BY <1>3, <2>1, <2>4 DEF ResolveNotPrinted
<1>4. ASSUME NEW j \in Jobs, LeaseTick(j) PROVE TypeOK'
  BY <1>4 DEF LeaseTick, HasLiveLease
<1>5. ASSUME NEW j \in Jobs, BackoffElapses(j) PROVE TypeOK'
  BY <1>5, ZenonT(30) DEF BackoffElapses
<1>6. ASSUME NEW j \in Jobs, NEW a \in Agents, Claim(a, j) PROVE TypeOK'
  <2>1. job[j].intentos + 1 \in 0..Cap
    BY <1>6 DEF Claim, CanClaim, Claimable
  <2> QED BY <1>6, <2>1 DEF Claim
<1>7. ASSUME NEW j \in Jobs, NEW a \in Agents, SignPrint(a, j) PROVE TypeOK'
  BY <1>7 DEF SignPrint
<1>8. ASSUME NEW j \in Jobs, NEW a \in Agents, NEW op \in Ops,
             NEW e \in 0..LeaseTicks, Transition(op, a, j, e)
      PROVE  TypeOK'
  <2>1. NextState(op, j) \in Estados
    BY DEF NextState, Ops
  <2>2. (IF ClearsLease(op) THEN 0 ELSE LeaseTicks - e) \in 0..LeaseTicks
    OBVIOUS
  <2>3. (IF op = "fail" /\ Retryable(j) THEN FALSE ELSE job[j].disponible) \in BOOLEAN
    OBVIOUS
  <2> DEFINE row == [job[j] EXCEPT
                       !.estado = NextState(op, j),
                       !.lease = IF ClearsLease(op) THEN 0 ELSE LeaseTicks - e,
                       !.disponible = IF op = "fail" /\ Retryable(j) THEN FALSE ELSE @]
  <2>4. row \in JobRecord
    BY <2>1, <2>2, <2>3, ZenonT(30)
  <2>5. job' = [job EXCEPT ![j] = row]
    BY <1>8 DEF Transition
  <2>6. job' \in [Jobs -> JobRecord]
    BY <2>4, <2>5
  <2> QED BY <1>8, <2>6 DEF Transition
<1>9. ASSUME NEW a \in Agents, Revoke(a) PROVE TypeOK'
  BY <1>9 DEF Revoke
<1>10. CASE UNCHANGED vars
  BY <1>10 DEF vars
<1> QED BY <1>1, <1>2, <1>3, <1>4, <1>5, <1>6, <1>7, <1>8, <1>9, <1>10 DEF Next

\* A row that is not yet taken, or was given back, keeps an attempt.
LEMMA UnclaimedStep == TypeOK /\ UnclaimedHasAttempt /\ [Next]_vars => UnclaimedHasAttempt'
<1> SUFFICES ASSUME TypeOK, UnclaimedHasAttempt, [Next]_vars,
                    NEW k \in Jobs, job'[k].estado \in {"ausente", "pendiente"}
             PROVE  job'[k].intentos < job'[k].maxIntentos
    BY DEF UnclaimedHasAttempt
<1> USE ConstantsAssumption DEF TypeOK, JobRecord, UnclaimedHasAttempt
<1>1. ASSUME NEW j \in Jobs, Enqueue(j) PROVE job'[k].intentos < job'[k].maxIntentos
  BY <1>1 DEF Enqueue
<1>2. ASSUME NEW j \in Jobs, ResolvePrinted(j) PROVE job'[k].intentos < job'[k].maxIntentos
  BY <1>2 DEF ResolvePrinted
<1>3. ASSUME NEW j \in Jobs, ResolveNotPrinted(j)
      PROVE  job'[k].intentos < job'[k].maxIntentos
  <2>1. CASE k = j
    <3>1. /\ job'[k].intentos = Least(job[k].intentos, Cap - 1)
          /\ job'[k].maxIntentos = Least(Cap, Greatest(job[k].maxIntentos, job[k].intentos + 1))
      BY <1>3, <2>1 DEF ResolveNotPrinted, Requeued
    <3> QED BY <3>1, RequeuedAttempts
  <2>2. CASE k # j
    BY <1>3, <2>2 DEF ResolveNotPrinted
  <2> QED BY <2>1, <2>2
<1>4. ASSUME NEW j \in Jobs, LeaseTick(j) PROVE job'[k].intentos < job'[k].maxIntentos
  BY <1>4 DEF LeaseTick
<1>5. ASSUME NEW j \in Jobs, BackoffElapses(j) PROVE job'[k].intentos < job'[k].maxIntentos
  BY <1>5 DEF BackoffElapses
<1>6. ASSUME NEW j \in Jobs, NEW a \in Agents, Claim(a, j)
      PROVE  job'[k].intentos < job'[k].maxIntentos
  BY <1>6 DEF Claim
<1>7. ASSUME NEW j \in Jobs, NEW a \in Agents, SignPrint(a, j)
      PROVE  job'[k].intentos < job'[k].maxIntentos
  BY <1>7 DEF SignPrint
<1>8. ASSUME NEW j \in Jobs, NEW a \in Agents, NEW op \in Ops,
             NEW e \in 0..LeaseTicks, Transition(op, a, j, e)
      PROVE  job'[k].intentos < job'[k].maxIntentos
  <2>1. CASE k = j
    <3>1. /\ job'[k].intentos = job[k].intentos
          /\ job'[k].maxIntentos = job[k].maxIntentos
          /\ job'[k].estado = NextState(op, k)
      BY <1>8, <2>1 DEF Transition
    <3>2. op = "fail" /\ Retryable(k)
      BY <1>8, <2>1, <3>1 DEF Transition, CanTransition, NextState, FromStates, Ops
    <3> QED BY <3>1, <3>2 DEF Retryable
  <2>2. CASE k # j
    BY <1>8, <2>2 DEF Transition
  <2> QED BY <2>1, <2>2
<1>9. ASSUME NEW a \in Agents, Revoke(a) PROVE job'[k].intentos < job'[k].maxIntentos
  BY <1>9 DEF Revoke
<1>10. CASE UNCHANGED vars
  BY <1>10 DEF vars
<1> QED BY <1>1, <1>2, <1>3, <1>4, <1>5, <1>6, <1>7, <1>8, <1>9, <1>10 DEF Next

\* A second live lease of an agent comes from a late renewal only.
LEMMA LeaseStep == TypeOK /\ SecondLeaseNeedsOverlap /\ [Next]_vars => SecondLeaseNeedsOverlap'
<1> DEFINE InTime(b, m) == Owns(b, m) /\ HasLiveLease(m) /\ m \notin tardios
<1> SUFFICES ASSUME TypeOK, [Next]_vars,
                    \A b \in Agents, k \in Jobs, l \in Jobs : InTime(b, k) /\ InTime(b, l) => k = l,
                    NEW b \in Agents, NEW k \in Jobs, NEW l \in Jobs, InTime(b, k)', InTime(b, l)'
             PROVE  k = l
    BY DEF SecondLeaseNeedsOverlap
\* It is enough that a lease of b held in time either was there before or was
\* just claimed by an agent that had none.
<1>1. ASSUME NEW a \in Agents, NEW j \in Jobs, Claim(a, j)
      PROVE  k = l
  <2>1. (\A m \in Jobs \ {j} : job'[m] = job[m]) /\ tardios' = tardios \ {j}
    BY <1>1 DEF Claim, TypeOK
  <2>2. job'[j].agente = a
    BY <1>1 DEF Claim, TypeOK, JobRecord
  <2>3. \A m \in Jobs : Owns(a, m) => ~HasLiveLease(m)
    BY <1>1 DEF Claim, CanClaim, HoldsLiveLease
  <2>4. \A m \in Jobs \ {j} : InTime(b, m)' => InTime(b, m)
    BY <2>1 DEF Owns, HasLiveLease
  <2>5. \A m \in Jobs \ {j} : b = a => ~InTime(b, m)'
    BY <2>3, <2>4
  <2>6. InTime(b, j)' => b = a
    BY <2>2 DEF Owns
  <2> QED BY <2>4, <2>5, <2>6
<1>2. ASSUME \A m \in Jobs : InTime(b, m)' => InTime(b, m)
      PROVE  k = l
  BY <1>2
<1> SUFFICES ASSUME \A a \in Agents, j \in Jobs : ~Claim(a, j),
                    NEW m \in Jobs, InTime(b, m)'
             PROVE  InTime(b, m)
    BY <1>1, <1>2
<1> USE ConstantsAssumption
        DEF TypeOK, JobRecord, Owns, HasLiveLease
<1>3. ASSUME NEW j \in Jobs, Enqueue(j) PROVE InTime(b, m)
  BY <1>3 DEF Enqueue
<1>4. ASSUME NEW j \in Jobs, ResolvePrinted(j) PROVE InTime(b, m)
  BY <1>4 DEF ResolvePrinted
<1>5. ASSUME NEW j \in Jobs, ResolveNotPrinted(j) PROVE InTime(b, m)
  BY <1>5 DEF ResolveNotPrinted, Requeued
<1>6. ASSUME NEW j \in Jobs, LeaseTick(j) PROVE InTime(b, m)
  BY <1>6 DEF LeaseTick
<1>7. ASSUME NEW j \in Jobs, BackoffElapses(j) PROVE InTime(b, m)
  BY <1>7 DEF BackoffElapses
<1>8. ASSUME NEW j \in Jobs, NEW a \in Agents, SignPrint(a, j)
      PROVE  InTime(b, m)
  BY <1>8 DEF SignPrint
<1>9. ASSUME NEW j \in Jobs, NEW a \in Agents, NEW op \in Ops,
             NEW e \in 0..LeaseTicks, Transition(op, a, j, e)
      PROVE  InTime(b, m)
  <2>1. CASE m = j
    <3>1. /\ job'[m].agente = job[m].agente /\ job'[m].estado = NextState(op, m)
          /\ job'[m].lease = IF ClearsLease(op) THEN 0 ELSE LeaseTicks - e
      BY <1>9, <2>1 DEF Transition
    <3>2. ~ClearsLease(op)
      BY <3>1
    <3>3. NeedsLease(op) /\ job[m].lease + e > 0
      BY <1>9, <2>1, <3>2 DEF Transition, CanTransition, NeedsLease, ClearsLease
    <3>4. m \notin tardios /\ ~ (job[m].lease = 0 /\ e > 0)
      BY <1>9, <2>1, <3>2 DEF Transition
    <3>5. job[m].estado \in Leased
      BY <1>9, <2>1, <3>2 DEF Transition, CanTransition, FromStates, ClearsLease, Ops
    <3>6. job[m].lease \in Nat /\ e \in Nat
      OBVIOUS
    <3>7. job[m].lease > 0
      BY <3>3, <3>4, <3>6
    <3> QED BY <3>1, <3>4, <3>5, <3>7
  <2>2. CASE m # j
    <3>1. job'[m] = job[m] /\ (m \in tardios => m \in tardios')
      BY <1>9, <2>2 DEF Transition
    <3> QED BY <3>1
  <2> QED BY <2>1, <2>2
<1>10. ASSUME NEW a \in Agents, Revoke(a) PROVE InTime(b, m)
  BY <1>10 DEF Revoke
<1>11. CASE UNCHANGED vars
  BY <1>11 DEF vars
<1> QED BY <1>3, <1>4, <1>5, <1>6, <1>7, <1>8, <1>9, <1>10, <1>11 DEF Next

\* No step overdraws a job's budget of copies.
LEMMA BudgetStep == TypeOK /\ CopyBudget /\ [Next]_vars => CopyBudget'
<1> DEFINE Within(k) ==
             \/ grants[k] <= requeues[k]
             \/ /\ job[k].estado \in {"confirmacion_pendiente", "impreso"}
                /\ job[k].agente \in signed[k]
                /\ grants[k] <= requeues[k] + 1
<1> SUFFICES ASSUME TypeOK, \A k \in Jobs : Within(k), [Next]_vars, NEW k \in Jobs
             PROVE  Within(k)'
    BY DEF CopyBudget
<1> USE ConstantsAssumption DEF TypeOK, JobRecord
<1>1. ASSUME NEW j \in Jobs, Enqueue(j) PROVE Within(k)'
  BY <1>1 DEF Enqueue
<1>2. ASSUME NEW j \in Jobs, ResolvePrinted(j) PROVE Within(k)'
  BY <1>2 DEF ResolvePrinted
<1>3. ASSUME NEW j \in Jobs, ResolveNotPrinted(j) PROVE Within(k)'
  <2>1. grants[k] <= requeues[k] + 1
    OBVIOUS
  <2>2. CASE k = j
    <3>1. grants'[k] = grants[k] /\ requeues'[k] = requeues[k] + 1
      BY <1>3, <2>2 DEF ResolveNotPrinted
    <3> QED BY <2>1, <3>1
  <2>3. CASE k # j
    BY <1>3, <2>3 DEF ResolveNotPrinted
  <2> QED BY <2>2, <2>3
<1>4. ASSUME NEW j \in Jobs, LeaseTick(j) PROVE Within(k)'
  BY <1>4 DEF LeaseTick
<1>5. ASSUME NEW j \in Jobs, BackoffElapses(j) PROVE Within(k)'
  BY <1>5 DEF BackoffElapses
<1>6. ASSUME NEW j \in Jobs, NEW a \in Agents, Claim(a, j) PROVE Within(k)'
  BY <1>6 DEF Claim, CanClaim, Claimable
<1>7. ASSUME NEW j \in Jobs, NEW a \in Agents, SignPrint(a, j) PROVE Within(k)'
  <2>1. CASE k = j
    <3>1. grants[k] <= requeues[k]
      BY <1>7, <2>1 DEF SignPrint, CanSign, Owns
    <3>2. /\ grants'[k] = grants[k] + 1
          /\ UNCHANGED <<job, requeues>>
          /\ a \in signed'[k]
          /\ job[k].agente = a
          /\ job[k].estado = "confirmacion_pendiente"
      BY <1>7, <2>1 DEF SignPrint, CanSign, Owns
    <3> QED BY <3>1, <3>2
  <2>2. CASE k # j
    BY <1>7, <2>2 DEF SignPrint
  <2> QED BY <2>1, <2>2
<1>8. ASSUME NEW j \in Jobs, NEW a \in Agents, NEW op \in Ops,
             NEW e \in 0..LeaseTicks, Transition(op, a, j, e)
      PROVE  Within(k)'
  <2>1. CASE k = j
    <3>1. job'[k].agente = job[k].agente /\ job'[k].estado = NextState(op, k)
      BY <1>8, <2>1 DEF Transition
    <3>2. job[k].estado # "impreso"
      BY <1>8, <2>1 DEF Transition, CanTransition, FromStates, Ops
    <3>3. job[k].estado = "confirmacion_pendiente" => op = "complete"
      BY <1>8, <2>1 DEF Transition, CanTransition, FromStates, Ops
    <3>4. op = "complete" => NextState(op, k) = "impreso"
      BY DEF NextState
    <3> QED BY <1>8, <3>1, <3>2, <3>3, <3>4 DEF Transition
  <2>2. CASE k # j
    BY <1>8, <2>2 DEF Transition
  <2> QED BY <2>1, <2>2
<1>9. ASSUME NEW a \in Agents, Revoke(a) PROVE Within(k)'
  BY <1>9 DEF Revoke
<1>10. CASE UNCHANGED vars
  BY <1>10 DEF vars
<1> QED BY <1>1, <1>2, <1>3, <1>4, <1>5, <1>6, <1>7, <1>8, <1>9, <1>10 DEF Next

\* IInv is inductive, hence an invariant of the backend.
THEOREM Invariance == Spec => []IInv
<1>1. IInv /\ [Next]_vars => IInv'
  BY TypeStep, UnclaimedStep, LeaseStep, BudgetStep DEF IInv
<1> QED BY InitInvariant, <1>1, PTL DEF Spec

\* Every column stays inside its CHECK and its type, for every Cap
\* (sql/2026-07-16_cola_impresion_agentes_sucursal.sql:32-42).
THEOREM TypeCorrect == Spec => []TypeOK
<1>1. IInv => TypeOK
  BY DEF IInv
<1> QED BY Invariance, <1>1, PTL

\* A job in 'pendiente' can always be claimed once its backoff elapses:
\* retries and manual requeues never strand it without an attempt.
THEOREM PendingClaimable == Spec => []PendingIsClaimable
<1>1. IInv => PendingIsClaimable
  BY DEF IInv, UnclaimedHasAttempt, PendingIsClaimable
<1> QED BY Invariance, <1>1, PTL

\* Of two live leases of one agent, one was renewed by a request that began
\* before the lease ran out and committed after: nothing else gets an agent
\* past the EXISTS of the claim function.
THEOREM SecondLeaseNeedsOverlapHolds == Spec => []SecondLeaseNeedsOverlap
<1>1. IInv => SecondLeaseNeedsOverlap
  BY DEF IInv
<1> QED BY Invariance, <1>1, PTL

\* Over all agents, a job is authorised at most one physical copy, plus one
\* for each administrative requeue.
THEOREM CopiesAuthorised == Spec => []SignaturesWithinRequeues
<1>1. IInv => SignaturesWithinRequeues
  <2> SUFFICES ASSUME IInv, NEW j \in Jobs PROVE grants[j] <= requeues[j] + 1
      BY DEF SignaturesWithinRequeues
  <2>1. grants[j] \in Nat /\ requeues[j] \in Nat
    BY ConstantsAssumption DEF IInv, TypeOK
  <2> QED BY <2>1 DEF IInv, CopyBudget
<1> QED BY Invariance, <1>1, PTL

\* A job changes hands only when no live lease covers it, and past the barrier
\* only through an administrator.
THEOREM NoTheftHolds == Spec => NoTheft
<1> DEFINE Fair(j) ==
      (job[j].agente \in Agents /\ job'[j].agente # job[j].agente)
        => /\ ~HasLiveLease(j)
           /\ job[j].estado = "confirmacion_pendiente" => job'[j].agente = NoAgent
<1>1. ASSUME IInv, [Next]_vars, NEW k \in Jobs PROVE Fair(k)
  <2> USE <1>1, ConstantsAssumption DEF IInv, TypeOK, JobRecord
  <2>1. ASSUME NEW j \in Jobs, Enqueue(j) PROVE job'[k].agente = job[k].agente
    BY <2>1 DEF Enqueue
  <2>2. ASSUME NEW j \in Jobs, ResolvePrinted(j) PROVE job'[k].agente = job[k].agente
    BY <2>2 DEF ResolvePrinted
  <2>3. ASSUME NEW j \in Jobs, ResolveNotPrinted(j) PROVE Fair(k)
    BY <2>3 DEF ResolveNotPrinted, Requeued, Ambiguous, HasLiveLease
  <2>4. ASSUME NEW j \in Jobs, LeaseTick(j) PROVE job'[k].agente = job[k].agente
    BY <2>4 DEF LeaseTick
  <2>5. ASSUME NEW j \in Jobs, BackoffElapses(j) PROVE job'[k].agente = job[k].agente
    BY <2>5 DEF BackoffElapses
  <2>6. ASSUME NEW j \in Jobs, NEW a \in Agents, Claim(a, j) PROVE Fair(k)
    BY <2>6 DEF Claim, CanClaim, Claimable, HasLiveLease
  <2>7. ASSUME NEW j \in Jobs, NEW a \in Agents, SignPrint(a, j)
        PROVE  job'[k].agente = job[k].agente
    BY <2>7 DEF SignPrint
  <2>8. ASSUME NEW j \in Jobs, NEW a \in Agents, NEW op \in Ops,
               NEW e \in 0..LeaseTicks, Transition(op, a, j, e)
        PROVE  job'[k].agente = job[k].agente
    BY <2>8 DEF Transition
  <2>9. ASSUME NEW a \in Agents, Revoke(a) PROVE job'[k].agente = job[k].agente
    BY <2>9 DEF Revoke
  <2>10. CASE UNCHANGED vars
    BY <2>10 DEF vars
  <2> QED BY <2>1, <2>2, <2>3, <2>4, <2>5, <2>6, <2>7, <2>8, <2>9, <2>10 DEF Next
<1>2. IInv /\ [Next]_vars => [\A j \in Jobs : Fair(j)]_vars
  BY <1>1
<1> QED BY Invariance, <1>2, PTL DEF Spec, NoTheft

-----------------------------------------------------------------------------
(* The system: its inductive invariant. *)

\* The agents whose print call is with QZ Tray.
Printing(j) == {a \in Agents : At(a, "imprimirQz", j)}

\* An agent's copy whose outcome the queue still waits for.
Awaited(a, j) == a \in papel[j] /\ job[j].estado = "confirmacion_pendiente" /\ Owns(a, j)

Dispatched == {"dispatch_started", "printed_unconfirmed"}

\* Every copy, and every copy that QZ Tray may be making, has its signature.
CopyAccounting ==
  \A j \in Jobs :
    IsFiniteSet(Printing(j)) /\ copias[j] + Cardinality(Printing(j)) <= grants[j]

\* Whoever says that a job was printed has seen its copy: the journal, in
\* memory and in the file, the agent on its way to report it, a late report.
PrintedKnown ==
  /\ \A a \in Agents, j \in Jobs :
       \/ mem[a][j] = "printed_unconfirmed" \/ disk[a][j] = "printed_unconfirmed"
       \/ At(a, "marcarImpreso", j) \/ At(a, "completar", j)
       => copias[j] >= 1
  /\ \A r \in late : r.op = "complete" => copias[r.trabajo] >= 1

\* The journal is ahead of the printer, and is only cleared of a job whose
\* outcome the queue does not wait for.
JournalSafe ==
  \A a \in Agents, j \in Jobs :
    /\ Awaited(a, j) => mem[a][j] \in Dispatched /\ disk[a][j] \in Dispatched
    /\ At(a, "firmar", j) \/ At(a, "imprimirQz", j) =>
         mem[a][j] = "dispatch_started" /\ disk[a][j] = "dispatch_started"
    /\ \/ At(a, "quitar", j) \/ At(a, "quitarImpreso", j) \/ At(a, "quitarCompleto", j)
       \/ At(a, "preparar", j)
       => ~ Awaited(a, j)

SystemIInv ==
  IInv /\ SystemTypeOK /\ CopyAccounting /\ PrintedKnown /\ CompletionMeansPrinted /\ JournalSafe

-----------------------------------------------------------------------------
(* The server's side of a step. *)

\* What a step at the server leaves alone: signatures are never taken back,
\* nothing it does makes the queue wait for a copy that is out already, and a
\* job ends printed only when its copy came out or an administrator says so.
Serves ==
  /\ [Next]_vars
  /\ papel' \in [Jobs -> SUBSET Agents]
  /\ \A j \in Jobs : grants[j] <= grants'[j]
  /\ \A a \in Agents, j \in Jobs : Awaited(a, j)' => Awaited(a, j)
  /\ \A j \in Jobs : job'[j].estado = "impreso" =>
                        job[j].estado = "impreso" \/ copias[j] >= 1 \/ j \in porAdmin'

\* The shop floor, an administrator who sends a job back, time.
Outside ==
  \/ \E j \in Jobs : \/ Enqueue(j) \/ ResolveNotPrinted(j)
                     \/ LeaseTick(j) \/ BackoffElapses(j)
  \/ \E a \in Agents : Revoke(a)

\* What a step does to the contract: nothing, one request, one copy, an
\* administrator's word, or the environment's part.
Effect ==
  \/ UNCHANGED <<queue, papel, copias, porAdmin>>
  \/ /\ \E op \in Requests, a \in Agents, j \in Jobs :
          /\ \E e \in 0..LeaseTicks : Perform(op, a, j, e)
          /\ op = "complete" => copias[j] >= 1
     /\ UNCHANGED <<copias, porAdmin>>
  \/ \E j \in Jobs : /\ copias[j] < grants[j] /\ copias' = [copias EXCEPT ![j] = @ + 1]
                     /\ UNCHANGED <<queue, porAdmin>>
  \/ \E j \in Jobs : ResolvePrinted(j) /\ porAdmin' = porAdmin \cup {j} /\ UNCHANGED copias
  \/ Outside /\ UNCHANGED <<papel, copias, porAdmin>>

LEMMA QuietServes ==
  ASSUME SystemIInv, UNCHANGED <<queue, papel>>
  PROVE  Serves
<1>1. UNCHANGED <<job, activos, signed, tardios, requeues, grants, papel>>
  BY DEF queue
<1>2. papel \in [Jobs -> SUBSET Agents] /\ grants \in [Jobs -> Nat]
  BY DEF SystemIInv, SystemTypeOK, TypeOK
<1>. QED  BY <1>1, <1>2 DEF Serves, vars, Awaited, Owns

\* Every request served is a step of the queue that Serves.
LEMMA PerformServes ==
  ASSUME SystemIInv, NEW op \in Requests, NEW a \in Agents, NEW j \in Jobs,
         NEW e \in 0..LeaseTicks, Perform(op, a, j, e),
         op = "complete" => copias[j] >= 1
  PROVE  Serves
<1>. USE DEF Owns, Awaited
<1>1. TypeOK /\ papel \in [Jobs -> SUBSET Agents]
  BY DEF SystemIInv, SystemTypeOK
<1>2. CASE op = "claim"
  <2>1. Claim(a, j) /\ papel' = papel
    BY <1>2 DEF Perform
  <2>2. [Next]_vars /\ UNCHANGED grants
    BY <2>1 DEF Next, Claim
  <2>3. \A k \in Jobs : job'[k] = job[k] \/ job'[k].estado = "asignado"
    BY <1>1, <2>1 DEF Claim, TypeOK, JobRecord
  <2>. QED  BY <1>1, <2>1, <2>2, <2>3 DEF Serves, TypeOK
<1>3. CASE op = "sign"
  <2>1. SignPrint(a, j) /\ papel' = papel
    BY <1>3 DEF Perform
  <2>2. [Next]_vars /\ UNCHANGED job
    BY <2>1 DEF Next, SignPrint
  <2>3. \A k \in Jobs : grants[k] <= grants'[k]
    BY <1>1, <2>1 DEF SignPrint, TypeOK
  <2>. QED  BY <1>1, <2>1, <2>2, <2>3 DEF Serves
<1>4. CASE op \notin {"claim", "sign"}
  <2>1. op \in Ops /\ Transition(op, a, j, e)
        /\ papel' = IF op = "confirmationPending" THEN [papel EXCEPT ![j] = {}] ELSE papel
    BY <1>4 DEF Perform, Requests
  <2>2. [Next]_vars /\ UNCHANGED grants
    BY <2>1 DEF Next, Transition
  <2>3. /\ \A k \in Jobs : k # j => job'[k] = job[k]
        /\ job'[j].estado = NextState(op, j) /\ job'[j].agente = job[j].agente
    BY <1>1, <2>1 DEF Transition, TypeOK, JobRecord
  <2>4. /\ NextState(op, j) = "confirmacion_pendiente" => op = "confirmationPending"
        /\ NextState(op, j) = "impreso" => op = "complete"
    BY <2>1 DEF Transition, CanTransition, NextState, FromStates, Ops
  <2>5. papel' \in [Jobs -> SUBSET Agents] /\ \A k \in Jobs : papel'[k] \subseteq papel[k]
        /\ (op = "confirmationPending" => papel'[j] = {})
    BY <1>1, <2>1
  <2>6. ASSUME NEW b \in Agents, NEW k \in Jobs, Awaited(b, k)' PROVE Awaited(b, k)
    <3>1. k # j
      BY <2>3, <2>4, <2>5, <2>6
    <3>. QED  BY <2>3, <2>5, <2>6, <3>1
  <2>7. \A k \in Jobs : job'[k].estado = "impreso" => job[k].estado = "impreso" \/ copias[k] >= 1
    BY <2>3, <2>4
  <2>. QED  BY <1>1, <2>2, <2>5, <2>6, <2>7 DEF Serves, TypeOK
<1>. QED  BY <1>2, <1>3, <1>4

\* A request asked for is served or not, and may be served later; whatever the
\* answer was.
LEMMA AskServes ==
  ASSUME SystemIInv, NEW op \in Requests, NEW a \in Agents, NEW j \in Jobs, NEW ok \in BOOLEAN,
         Ask(op, a, j, ok), op = "complete" => copias[j] >= 1
  PROVE  /\ Serves
         /\ ok => Perform(op, a, j, 0)
         /\ UNCHANGED <<copias, porAdmin>> => Effect
         /\ late' \subseteq LateRequest
         /\ \A r \in late' : r.op = "complete" => copias[r.trabajo] >= 1
         /\ faults' \in 0..MaxFaults
<1>1. /\ late \subseteq LateRequest /\ faults \in 0..MaxFaults /\ MaxFaults \in Nat
      /\ \A r \in late : r.op = "complete" => copias[r.trabajo] >= 1
  BY SystemAssumption DEF SystemIInv, SystemTypeOK, PrintedKnown
<1>0. 0 \in 0..LeaseTicks
  BY ConstantsAssumption
<1>2. Perform(op, a, j, 0) \/ UNCHANGED <<queue, papel>>
  BY DEF Ask
<1>3. Serves
  BY <1>0, <1>2, PerformServes, QuietServes
<1>4. ok => Perform(op, a, j, 0)
  BY DEF Ask
<1>5. UNCHANGED <<copias, porAdmin>> => Effect
  BY <1>0, <1>2 DEF Effect
<1>6. late' = late \/ late' = late \cup {[op |-> op, agente |-> a, trabajo |-> j, edad |-> 0]}
  BY DEF Ask
<1>7. faults' \in 0..MaxFaults
  BY <1>1 DEF Ask, Fault
<1>8. late' \subseteq LateRequest /\ \A r \in late' : r.op = "complete" => copias[r.trabajo] >= 1
  BY <1>0, <1>1, <1>6 DEF LateRequest
<1>. QED  BY <1>3, <1>4, <1>5, <1>7, <1>8

\* The GET of a status changes nothing but the faults.
LEMMA StatusServes ==
  ASSUME SystemIInv, NEW a \in Agents, NEW ok \in BOOLEAN, AskStatus(a, ok)
  PROVE  /\ Serves /\ UNCHANGED <<queue, papel, late>>
         /\ UNCHANGED <<copias, porAdmin>> => Effect
         /\ faults' \in 0..MaxFaults
<1>1. faults \in 0..MaxFaults /\ MaxFaults \in Nat
  BY SystemAssumption DEF SystemIInv, SystemTypeOK
<1>2. UNCHANGED <<queue, papel, late>> /\ faults' \in 0..MaxFaults
  BY <1>1 DEF AskStatus, Fault
<1>. QED  BY <1>2, QuietServes DEF Effect
-----------------------------------------------------------------------------
(* The agent's side of a step. *)

\* The agent a goes on to step s, with the job c in hand.
Moves(a, s, c) ==
  /\ s \in Steps /\ c \in Jobs \cup {NoJob} /\ (c = NoJob <=> s \in {"idle", "conciliar"})
  /\ pc' = [pc EXCEPT ![a] = s] /\ cur' = [cur EXCEPT ![a] = c]
  /\ todo' \in [Agents -> SUBSET Jobs] /\ seen' \in [Agents -> SUBSET Jobs]

LEMMA Leaving ==
  ASSUME SystemIInv, NEW a \in Agents
  PROVE  /\ Abort(a) => Moves(a, "idle", NoJob)
         /\ Iterate(a) => Moves(a, "conciliar", NoJob)
<1>1. /\ todo \in [Agents -> SUBSET Jobs] /\ seen \in [Agents -> SUBSET Jobs]
      /\ "idle" \in Steps /\ "conciliar" \in Steps
  BY DEF SystemIInv, SystemTypeOK, Steps
<1>2. Abort(a) => Moves(a, "idle", NoJob)
  BY <1>1 DEF Abort, Goto, Moves
<1>3. Iterate(a) => Moves(a, "conciliar", NoJob)
  BY <1>1 DEF Iterate, Goto, Moves
<1>. QED  BY <1>2, <1>3

LEMMA Bookkeeping ==
  ASSUME SystemIInv, NEW a \in Agents, NEW j \in Jobs
  PROVE  /\ Abort(a) => Moves(a, "idle", NoJob)
         /\ Iterate(a) => Moves(a, "conciliar", NoJob)
         /\ NextRecord(a, j) => Moves(a, "conciliar", NoJob)
         /\ \A s \in Steps \ {"idle", "conciliar"} : Proceed(a, s, j) => Moves(a, s, j)
<1>1. /\ todo \in [Agents -> SUBSET Jobs] /\ seen \in [Agents -> SUBSET Jobs]
      /\ j # NoJob /\ "conciliar" \in Steps
  BY SystemAssumption DEF SystemIInv, SystemTypeOK, Steps
<1>2. NextRecord(a, j) => Moves(a, "conciliar", NoJob)
  BY <1>1 DEF NextRecord, Goto, Moves
<1>3. \A s \in Steps \ {"idle", "conciliar"} : Proceed(a, s, j) => Moves(a, s, j)
  BY <1>1 DEF Proceed, Goto, Moves
<1>. QED  BY <1>2, <1>3, Leaving

LEMMA MovesFacts ==
  ASSUME SystemIInv, NEW a \in Agents, NEW s, NEW c, Moves(a, s, c)
  PROVE  /\ \A b \in Agents : /\ pc'[b] = IF b = a THEN s ELSE pc[b]
                              /\ cur'[b] = IF b = a THEN c ELSE cur[b]
         /\ pc' \in [Agents -> Steps] /\ cur' \in [Agents -> Jobs \cup {NoJob}]
BY DEF Moves, SystemIInv, SystemTypeOK

\* A step that prints nothing and asks QZ Tray for nothing keeps the account.
LEMMA SameCopies ==
  ASSUME SystemIInv, NEW a \in Agents, NEW s, NEW c, Moves(a, s, c), s # "imprimirQz",
         Serves, UNCHANGED copias
  PROVE  CopyAccounting'
<1>1. SUFFICES ASSUME NEW j \in Jobs
               PROVE  IsFiniteSet(Printing(j)') /\ copias[j] + Cardinality(Printing(j)') <= grants'[j]
  BY DEF CopyAccounting, Printing
<1>2. Printing(j)' \subseteq Printing(j)
  BY MovesFacts DEF Printing, At
<1>3. IsFiniteSet(Printing(j)) /\ copias[j] + Cardinality(Printing(j)) <= grants[j]
  BY DEF SystemIInv, CopyAccounting
<1>4. IsFiniteSet(Printing(j)') /\ Cardinality(Printing(j)') <= Cardinality(Printing(j))
  BY <1>2, <1>3, FS_Subset
<1>5. /\ Cardinality(Printing(j)) \in Nat /\ Cardinality(Printing(j)') \in Nat
      /\ copias[j] \in Nat /\ grants[j] \in Nat /\ grants[j] <= grants'[j]
  BY <1>3, <1>4, FS_CardinalityType DEF SystemIInv, SystemTypeOK, TypeOK, Serves
<1>6. grants'[j] \in Nat
  BY TypeStep DEF SystemIInv, SystemTypeOK, TypeOK, Serves
<1>. QED  BY <1>3, <1>4, <1>5, <1>6

\* What an agent's step must respect: the account of copies, and in its own
\* journal that nothing is said to be printed without a copy, that a copy the
\* queue waits for stays recorded, and where it may sign or clear a record.
LEMMA AgentStep ==
  ASSUME SystemIInv, NEW a \in Agents, NEW s, NEW c, Moves(a, s, c),
         mem' \in [Agents -> [Jobs -> Journal]], disk' \in [Agents -> [Jobs -> Journal]],
         late' \subseteq LateRequest, faults' \in 0..MaxFaults, copias' \in [Jobs -> Nat],
         papel' \in [Jobs -> SUBSET Agents], porAdmin' = porAdmin, [Next]_vars,
         CopyAccounting', CompletionMeansPrinted',
         \A j \in Jobs : copias[j] <= copias'[j],
         \A r \in late' : r.op = "complete" => copias'[r.trabajo] >= 1,
         \A b \in Agents \ {a} : mem'[b] = mem[b] /\ disk'[b] = disk[b],
         \A b \in Agents \ {a}, j \in Jobs : Awaited(b, j)' => Awaited(b, j),
         \A j \in Jobs : mem'[a][j] = "printed_unconfirmed" \/ disk'[a][j] = "printed_unconfirmed" =>
            copias'[j] >= 1,
         s \in {"marcarImpreso", "completar"} => copias'[c] >= 1,
         \A j \in Jobs : Awaited(a, j)' => mem'[a][j] \in Dispatched /\ disk'[a][j] \in Dispatched,
         s \in {"firmar", "imprimirQz"} =>
            mem'[a][c] = "dispatch_started" /\ disk'[a][c] = "dispatch_started",
         \A j \in Jobs : j = c /\ s \in {"quitar", "quitarImpreso", "quitarCompleto", "preparar"} =>
            ~ Awaited(a, j)'
  PROVE  SystemIInv'
<1>1. /\ \A b \in Agents : /\ pc'[b] = IF b = a THEN s ELSE pc[b]
                           /\ cur'[b] = IF b = a THEN c ELSE cur[b]
      /\ pc' \in [Agents -> Steps] /\ cur' \in [Agents -> Jobs \cup {NoJob}]
  BY MovesFacts
<1>2. IInv'
  BY TypeStep, UnclaimedStep, LeaseStep, BudgetStep DEF SystemIInv, IInv
<1>3. SystemTypeOK'
  BY <1>1, <1>2 DEF SystemIInv, SystemTypeOK, IInv, Moves
<1>4. \A j \in Jobs : copias[j] \in Nat /\ copias'[j] \in Nat /\ copias[j] <= copias'[j]
  BY DEF SystemIInv, SystemTypeOK
<1>5. PrintedKnown'
  <2>1. SUFFICES ASSUME NEW b \in Agents, NEW j \in Jobs,
                        \/ mem'[b][j] = "printed_unconfirmed" \/ disk'[b][j] = "printed_unconfirmed"
                        \/ At(b, "marcarImpreso", j)' \/ At(b, "completar", j)'
                 PROVE  copias'[j] >= 1
    BY DEF PrintedKnown
  <2>2. CASE b = a
    BY <1>1, <2>1, <2>2 DEF At
  <2>3. CASE b # a
    <3>1. copias[j] >= 1
      BY <1>1, <2>1, <2>3 DEF At, SystemIInv, PrintedKnown
    <3>. QED  BY <1>4, <3>1
  <2>. QED  BY <2>2, <2>3
<1>6. JournalSafe'
  <2>1. SUFFICES ASSUME NEW b \in Agents, NEW j \in Jobs
                 PROVE  (/\ Awaited(b, j) => mem[b][j] \in Dispatched /\ disk[b][j] \in Dispatched
                         /\ At(b, "firmar", j) \/ At(b, "imprimirQz", j) =>
                              mem[b][j] = "dispatch_started" /\ disk[b][j] = "dispatch_started"
                         /\ \/ At(b, "quitar", j) \/ At(b, "quitarImpreso", j)
                            \/ At(b, "quitarCompleto", j) \/ At(b, "preparar", j)
                            => ~ Awaited(b, j))'
    BY DEF JournalSafe
  <2>2. CASE b = a
    BY <1>1, <2>2 DEF At, Dispatched
  <2>3. CASE b # a
    <3>1. /\ Awaited(b, j) => mem[b][j] \in Dispatched /\ disk[b][j] \in Dispatched
          /\ At(b, "firmar", j) \/ At(b, "imprimirQz", j) =>
               mem[b][j] = "dispatch_started" /\ disk[b][j] = "dispatch_started"
          /\ \/ At(b, "quitar", j) \/ At(b, "quitarImpreso", j)
             \/ At(b, "quitarCompleto", j) \/ At(b, "preparar", j)
             => ~ Awaited(b, j)
      BY DEF SystemIInv, JournalSafe
    <3>2. /\ mem'[b] = mem[b] /\ disk'[b] = disk[b] /\ pc'[b] = pc[b] /\ cur'[b] = cur[b]
          /\ Awaited(b, j)' => Awaited(b, j)
      BY <1>1, <2>3
    <3>. QED  BY <3>1, <3>2 DEF At, Dispatched
  <2>. QED  BY <2>2, <2>3
<1>. QED  BY <1>2, <1>3, <1>5, <1>6 DEF SystemIInv

LEMMA StillPrinted ==
  ASSUME SystemIInv, Serves, UNCHANGED <<copias, porAdmin>>
  PROVE  CompletionMeansPrinted'
BY DEF SystemIInv, CompletionMeansPrinted, Serves

\* A step of an agent that leaves the journal and the printer alone.
LEMMA TalkStep ==
  ASSUME SystemIInv, NEW a \in Agents, NEW s, NEW c, Moves(a, s, c), Serves,
         UNCHANGED <<mem, disk, copias, porAdmin>>,
         late' \subseteq LateRequest, faults' \in 0..MaxFaults,
         \A r \in late' : r.op = "complete" => copias[r.trabajo] >= 1,
         s \notin {"imprimirQz", "marcarImpreso", "completar", "firmar"},
         \A j \in Jobs : j = c /\ s \in {"quitar", "quitarImpreso", "quitarCompleto", "preparar"} =>
            ~ Awaited(a, j)'
  PROVE  SystemIInv'
<1>1. CopyAccounting' /\ CompletionMeansPrinted'
  BY SameCopies, StillPrinted
<1>2. /\ mem' \in [Agents -> [Jobs -> Journal]] /\ disk' \in [Agents -> [Jobs -> Journal]]
      /\ copias' \in [Jobs -> Nat] /\ papel' \in [Jobs -> SUBSET Agents] /\ porAdmin' = porAdmin
      /\ [Next]_vars /\ \A b \in Agents, j \in Jobs : Awaited(b, j)' => Awaited(b, j)
  BY DEF SystemIInv, SystemTypeOK, Serves
<1>3. \A j \in Jobs : copias[j] <= copias'[j]
  BY DEF SystemIInv, SystemTypeOK
<1>4. /\ \A j \in Jobs : mem'[a][j] = "printed_unconfirmed" \/ disk'[a][j] = "printed_unconfirmed" =>
            copias'[j] >= 1
      /\ \A r \in late' : r.op = "complete" => copias'[r.trabajo] >= 1
  BY DEF SystemIInv, PrintedKnown
<1>5. \A j \in Jobs : Awaited(a, j)' => mem'[a][j] \in Dispatched /\ disk'[a][j] \in Dispatched
  BY <1>2 DEF SystemIInv, JournalSafe, Dispatched
<1>. QED  BY <1>1, <1>2, <1>3, <1>4, <1>5, AgentStep

\* A step of an agent that changes one record of its journal, in memory and,
\* if the write works, in the file.
LEMMA WriteStep ==
  ASSUME SystemIInv, NEW a \in Agents, NEW s, NEW c, Moves(a, s, c),
         NEW j \in Jobs, NEW status \in Journal, NEW wrote \in BOOLEAN, Write(a, j, status, wrote),
         UNCHANGED <<queue, papel, late, copias, porAdmin>>,
         status = "printed_unconfirmed" => copias[j] >= 1,
         status \in {"none", "prepared"} => ~ Awaited(a, j),
         s \in {"idle", "conciliar", "consultarImpreso", "fallar", "cruzar", "firmar", "completar"},
         s = "completar" => c = j /\ copias[j] >= 1,
         s = "firmar" => c = j /\ wrote /\ status = "dispatch_started"
  PROVE  SystemIInv'
<1>1. TypeOK /\ mem \in [Agents -> [Jobs -> Journal]] /\ disk \in [Agents -> [Jobs -> Journal]]
      /\ faults \in 0..MaxFaults /\ MaxFaults \in Nat /\ copias \in [Jobs -> Nat]
  BY SystemAssumption DEF SystemIInv, SystemTypeOK
<1>2. /\ mem' = [mem EXCEPT ![a][j] = status]
      /\ disk' = IF wrote THEN [disk EXCEPT ![a] = mem'[a]] ELSE disk
      /\ faults' \in 0..MaxFaults
  BY <1>1 DEF Write, Fault
<1>3. /\ mem' \in [Agents -> [Jobs -> Journal]]
      /\ \A b \in Agents \ {a} : mem'[b] = mem[b]
      /\ \A k \in Jobs : mem'[a][k] = IF k = j THEN status ELSE mem[a][k]
  BY <1>1, <1>2
<1>4. /\ disk' \in [Agents -> [Jobs -> Journal]]
      /\ \A b \in Agents \ {a} : disk'[b] = disk[b]
      /\ disk'[a] = IF wrote THEN mem'[a] ELSE disk[a]
  BY <1>1, <1>2, <1>3
<1>5. Serves
  BY QuietServes
<1>6. CopyAccounting' /\ CompletionMeansPrinted'
  BY <1>5, SameCopies, StillPrinted
<1>7. \A b \in Agents, k \in Jobs : Awaited(b, k)' <=> Awaited(b, k)
  BY DEF Awaited, Owns, queue
<1>8. ASSUME NEW k \in Jobs,
             mem'[a][k] = "printed_unconfirmed" \/ disk'[a][k] = "printed_unconfirmed"
      PROVE  copias'[k] >= 1
  BY <1>3, <1>4, <1>8 DEF SystemIInv, PrintedKnown
<1>9. ASSUME NEW k \in Jobs, Awaited(a, k)'
      PROVE  mem'[a][k] \in Dispatched /\ disk'[a][k] \in Dispatched
  <2>1. Awaited(a, k) /\ mem[a][k] \in Dispatched /\ disk[a][k] \in Dispatched
    BY <1>7, <1>9 DEF SystemIInv, JournalSafe
  <2>2. k = j => status \in Dispatched
    BY <2>1 DEF Journal, Dispatched
  <2>. QED  BY <1>3, <1>4, <2>1, <2>2
<1>10. s = "firmar" => mem'[a][c] = "dispatch_started" /\ disk'[a][c] = "dispatch_started"
  BY <1>3, <1>4
<1>11. /\ late' \subseteq LateRequest /\ copias' \in [Jobs -> Nat] /\ papel' \in [Jobs -> SUBSET Agents]
       /\ porAdmin' = porAdmin /\ [Next]_vars /\ \A k \in Jobs : copias[k] <= copias'[k]
       /\ \A r \in late' : r.op = "complete" => copias'[r.trabajo] >= 1
       /\ faults' \in 0..MaxFaults
  BY <1>1, <1>2, <1>5 DEF SystemIInv, SystemTypeOK, PrintedKnown, Serves
<1>12. /\ s \in {"marcarImpreso", "completar"} => copias'[c] >= 1
       /\ s \in {"firmar", "imprimirQz"} =>
            mem'[a][c] = "dispatch_started" /\ disk'[a][c] = "dispatch_started"
       /\ \A k \in Jobs : k = c /\ s \in {"quitar", "quitarImpreso", "quitarCompleto", "preparar"} =>
            ~ Awaited(a, k)'
  BY <1>10
<1>13. \A b \in Agents \ {a} : mem'[b] = mem[b] /\ disk'[b] = disk[b]
  BY <1>3, <1>4
<1>14. \A b \in Agents \ {a}, k \in Jobs : Awaited(b, k)' => Awaited(b, k)
  BY <1>7
<1>15. /\ \A k \in Jobs : mem'[a][k] = "printed_unconfirmed" \/ disk'[a][k] = "printed_unconfirmed" =>
             copias'[k] >= 1
       /\ \A k \in Jobs : Awaited(a, k)' => mem'[a][k] \in Dispatched /\ disk'[a][k] \in Dispatched
  BY <1>8, <1>9
<1>. QED  BY <1>3, <1>4, <1>6, <1>11, <1>12, <1>13, <1>14, <1>15, AgentStep

\* A step in which no agent takes part.
LEMMA WorldStep ==
  ASSUME SystemIInv, Serves, UNCHANGED <<agentVars, copias>>,
         late' \subseteq LateRequest, faults' \in 0..MaxFaults, porAdmin' \subseteq Jobs,
         porAdmin \subseteq porAdmin',
         \A r \in late' : r.op = "complete" => copias[r.trabajo] >= 1
  PROVE  SystemIInv'
<1>. USE DEF agentVars
<1>1. IInv'
  BY TypeStep, UnclaimedStep, LeaseStep, BudgetStep DEF SystemIInv, IInv, Serves
<1>2. SystemTypeOK'
  BY <1>1 DEF SystemIInv, SystemTypeOK, IInv, Serves
<1>3. CopyAccounting'
  <2>1. \A j \in Jobs : Printing(j)' = Printing(j)
    BY DEF Printing, At
  <2>2. SUFFICES ASSUME NEW j \in Jobs
                 PROVE  IsFiniteSet(Printing(j)) /\ copias[j] + Cardinality(Printing(j)) <= grants'[j]
    BY <2>1 DEF CopyAccounting
  <2>3. IsFiniteSet(Printing(j)) /\ copias[j] + Cardinality(Printing(j)) <= grants[j]
    BY DEF SystemIInv, CopyAccounting
  <2>4. /\ Cardinality(Printing(j)) \in Nat /\ copias[j] \in Nat /\ grants[j] \in Nat
        /\ grants'[j] \in Nat /\ grants[j] <= grants'[j]
    BY <1>1, <2>3, FS_CardinalityType DEF SystemIInv, SystemTypeOK, IInv, TypeOK, Serves
  <2>. QED  BY <2>3, <2>4
<1>4. PrintedKnown' /\ CompletionMeansPrinted'
  BY DEF SystemIInv, PrintedKnown, CompletionMeansPrinted, Serves, At
<1>5. JournalSafe'
  BY DEF SystemIInv, JournalSafe, Serves, At, Dispatched
<1>. QED  BY <1>1, <1>2, <1>3, <1>4, <1>5 DEF SystemIInv

-----------------------------------------------------------------------------
(* One lemma per step of an agent: the invariant is kept, and the contract    *)
(* sees one Effect.                                                           *)

\* After these requests the queue no longer waits for the agent's copy.
LEMMA Cleared ==
  ASSUME SystemIInv, NEW a \in Agents, NEW j \in Jobs, NEW op \in {"complete", "fail", "printing"},
         Perform(op, a, j, 0)
  PROVE  ~ Awaited(a, j)'
<1>1. op \in Ops /\ Transition(op, a, j, 0) /\ TypeOK
  BY DEF Perform, Ops, SystemIInv, SystemTypeOK
<1>2. job'[j].estado = NextState(op, j)
  BY <1>1 DEF Transition, TypeOK, JobRecord
<1>3. NextState(op, j) # "confirmacion_pendiente"
  BY DEF NextState
<1>. QED  BY <1>2, <1>3 DEF Awaited

LEMMA StartDrainStep ==
  ASSUME SystemIInv, NEW a \in Agents, StartDrain(a)
  PROVE  SystemIInv' /\ Effect
<1>1. Moves(a, "conciliar", NoJob)
  BY DEF StartDrain, Goto, Moves, Steps, Records, SystemIInv, SystemTypeOK
<1>2. UNCHANGED <<queue, papel, mem, disk, late, faults, copias, porAdmin>>
  BY DEF StartDrain
<1>3. /\ late' \subseteq LateRequest /\ faults' \in 0..MaxFaults
      /\ \A r \in late' : r.op = "complete" => copias[r.trabajo] >= 1
  BY <1>2 DEF SystemIInv, SystemTypeOK, PrintedKnown
<1>4. Serves
  BY <1>2, QuietServes
<1>. QED  BY <1>1, <1>2, <1>3, <1>4, TalkStep DEF Effect

\* An agent that asked the backend for something goes on to s.
LEMMA AskStep ==
  ASSUME SystemIInv, NEW a \in Agents, NEW s, NEW c, Moves(a, s, c),
         NEW op \in Requests, NEW j \in Jobs, NEW ok \in BOOLEAN, Ask(op, a, j, ok),
         op = "complete" => copias[j] >= 1,
         UNCHANGED <<mem, disk, copias, porAdmin>>,
         s \notin {"imprimirQz", "marcarImpreso", "completar", "firmar"},
         s \in {"quitar", "quitarImpreso", "quitarCompleto", "preparar"} =>
            c = j /\ op \in {"complete", "fail", "printing"} /\ Perform(op, a, j, 0)
  PROVE  SystemIInv' /\ Effect
<1>1. /\ Serves /\ Effect /\ (ok => Perform(op, a, j, 0))
      /\ late' \subseteq LateRequest /\ faults' \in 0..MaxFaults
      /\ \A r \in late' : r.op = "complete" => copias[r.trabajo] >= 1
  BY AskServes
<1>2. \A k \in Jobs : k = c /\ s \in {"quitar", "quitarImpreso", "quitarCompleto", "preparar"} =>
         ~ Awaited(a, k)'
  BY <1>1, Cleared
<1>. QED  BY <1>1, <1>2, TalkStep

\* An agent that asked for the status of j goes on to s.
LEMMA StatusStep ==
  ASSUME SystemIInv, NEW a \in Agents, NEW s, NEW c, Moves(a, s, c),
         NEW j \in Jobs, NEW ok \in BOOLEAN, AskStatus(a, ok),
         UNCHANGED <<mem, disk, copias, porAdmin>>,
         s \notin {"imprimirQz", "marcarImpreso", "completar", "firmar",
                   "quitarImpreso", "quitarCompleto", "preparar"},
         s = "quitar" => c = j /\ ~ Awaited(a, j)
  PROVE  SystemIInv' /\ Effect
<1>1. Serves /\ Effect /\ UNCHANGED <<queue, papel, late>> /\ faults' \in 0..MaxFaults
  BY StatusServes
<1>2. /\ late' \subseteq LateRequest
      /\ \A r \in late' : r.op = "complete" => copias[r.trabajo] >= 1
  BY <1>1 DEF SystemIInv, SystemTypeOK, PrintedKnown
<1>3. \A k \in Jobs : k = c /\ s \in {"quitar", "quitarImpreso", "quitarCompleto", "preparar"} =>
         ~ Awaited(a, k)'
  BY <1>1 DEF Awaited, Owns, queue
<1>. QED  BY <1>1, <1>2, <1>3, TalkStep

LEMMA ResolvedIsNotAwaited ==
  ASSUME NEW a \in Agents, NEW j \in Jobs, Resolved(a, j)
  PROVE  ~ Awaited(a, j)
BY DEF Resolved, Awaited

LEMMA CompletePrintedStep ==
  ASSUME SystemIInv, NEW a \in Agents, NEW j \in Jobs, CompletePrinted(a, j)
  PROVE  SystemIInv' /\ Effect
<1>1. PICK ok \in BOOLEAN :
        /\ Ask("complete", a, j, ok)
        /\ Proceed(a, IF ok THEN "quitarImpreso" ELSE "consultarImpreso", j)
  BY DEF CompletePrinted
<1>2. copias[j] >= 1 /\ UNCHANGED <<mem, disk, copias, porAdmin>>
  BY DEF CompletePrinted, Visiting, SystemIInv, PrintedKnown
<1>3. "complete" \in Requests
  BY DEF Requests, Ops
<1>4. CASE ok
  <2>1. Moves(a, "quitarImpreso", j)
    BY <1>1, <1>4, Bookkeeping DEF Steps
  <2>2. Perform("complete", a, j, 0)
    BY <1>1, <1>4 DEF Ask
  <2>. QED  BY <1>1, <1>2, <1>3, <2>1, <2>2, AskStep
<1>5. CASE ~ok
  <2>1. Moves(a, "consultarImpreso", j)
    BY <1>1, <1>5, Bookkeeping DEF Steps
  <2>. QED  BY <1>1, <1>2, <1>3, <2>1, AskStep
<1>. QED  BY <1>4, <1>5

LEMMA CheckPrintedStep ==
  ASSUME SystemIInv, NEW a \in Agents, NEW j \in Jobs, CheckPrinted(a, j)
  PROVE  SystemIInv' /\ Effect
<1>1. PICK ok \in BOOLEAN :
        /\ AskStatus(a, ok)
        /\ IF ok /\ Resolved(a, j) THEN Proceed(a, "quitar", j) ELSE NextRecord(a, j)
  BY DEF CheckPrinted
<1>2. UNCHANGED <<mem, disk, copias, porAdmin>>
  BY DEF CheckPrinted
<1>3. CASE ok /\ Resolved(a, j)
  <2>1. Moves(a, "quitar", j)
    BY <1>1, <1>3, Bookkeeping DEF Steps
  <2>2. ~ Awaited(a, j) /\ AskStatus(a, ok)
    BY <1>1, <1>3, ResolvedIsNotAwaited
  <2>. QED  BY <1>2, <2>1, <2>2, StatusStep
<1>4. CASE ~ (ok /\ Resolved(a, j))
  BY <1>1, <1>2, <1>4, Bookkeeping, StatusStep
<1>. QED  BY <1>3, <1>4

LEMMA CheckDispatchedStep ==
  ASSUME SystemIInv, NEW a \in Agents, NEW j \in Jobs, CheckDispatched(a, j)
  PROVE  SystemIInv' /\ Effect
<1>1. PICK ok \in BOOLEAN :
        /\ AskStatus(a, ok)
        /\ IF ok /\ Resolved(a, j) THEN Proceed(a, "quitar", j) ELSE NextRecord(a, j)
  BY DEF CheckDispatched
<1>2. UNCHANGED <<mem, disk, copias, porAdmin>>
  BY DEF CheckDispatched
<1>3. CASE ok /\ Resolved(a, j)
  <2>1. Moves(a, "quitar", j)
    BY <1>1, <1>3, Bookkeeping DEF Steps
  <2>2. ~ Awaited(a, j) /\ AskStatus(a, ok)
    BY <1>1, <1>3, ResolvedIsNotAwaited
  <2>. QED  BY <1>2, <2>1, <2>2, StatusStep
<1>4. CASE ~ (ok /\ Resolved(a, j))
  BY <1>1, <1>2, <1>4, Bookkeeping, StatusStep
<1>. QED  BY <1>3, <1>4

LEMMA RecoverPreparedStep ==
  ASSUME SystemIInv, NEW a \in Agents, NEW j \in Jobs, RecoverPrepared(a, j)
  PROVE  SystemIInv' /\ Effect
<1>1. PICK ok \in BOOLEAN :
        /\ AskStatus(a, ok)
        /\ \/ NextRecord(a, j)
           \/ Resolved(a, j) /\ Proceed(a, "quitar", j)
           \/ /\ job[j].estado = "imprimiendo"
              /\ Proceed(a, IF HasLiveLease(j) THEN "prepararEnRango" ELSE "quitar", j)
           \/ Proceed(a, "prepararTrasBarrera", j)
  BY DEF RecoverPrepared
<1>2. UNCHANGED <<mem, disk, copias, porAdmin>>
  BY DEF RecoverPrepared
<1>3. CASE NextRecord(a, j)
  BY <1>1, <1>2, <1>3, Bookkeeping, StatusStep
<1>4. CASE Proceed(a, "prepararEnRango", j) \/ Proceed(a, "prepararTrasBarrera", j)
  <2>1. PICK s \in {"prepararEnRango", "prepararTrasBarrera"} : Moves(a, s, j)
    BY <1>4, Bookkeeping DEF Steps
  <2>. QED  BY <1>1, <1>2, <2>1, StatusStep
<1>5. CASE /\ Resolved(a, j) \/ job[j].estado = "imprimiendo"
           /\ Proceed(a, "quitar", j)
  <2>1. Moves(a, "quitar", j)
    BY <1>5, Bookkeeping DEF Steps
  <2>2. ~ Awaited(a, j)
    BY <1>5, ResolvedIsNotAwaited DEF Awaited
  <2>. QED  BY <1>1, <1>2, <2>1, <2>2, StatusStep
<1>. QED  BY <1>1, <1>3, <1>4, <1>5

LEMMA RecoverPrepareStep ==
  ASSUME SystemIInv, NEW a \in Agents, NEW j \in Jobs, RecoverPrepare(a, j)
  PROVE  SystemIInv' /\ Effect
<1>1. UNCHANGED <<queue, papel, mem, disk, late, faults, copias, porAdmin>>
  BY DEF RecoverPrepare
<1>2. PICK s \in {"cruzarRecuperado", "fallarRecuperado", "despachar", "conciliar"} :
        Moves(a, s, IF s = "conciliar" THEN NoJob ELSE j)
  BY Bookkeeping DEF RecoverPrepare, Steps
<1>3. /\ late' \subseteq LateRequest /\ faults' \in 0..MaxFaults
      /\ \A r \in late' : r.op = "complete" => copias[r.trabajo] >= 1
  BY <1>1 DEF SystemIInv, SystemTypeOK, PrintedKnown
<1>4. Serves
  BY <1>1, QuietServes
<1>. QED  BY <1>1, <1>2, <1>3, <1>4, TalkStep DEF Effect

LEMMA RecoverFailStep ==
  ASSUME SystemIInv, NEW a \in Agents, NEW j \in Jobs, RecoverFail(a, j)
  PROVE  SystemIInv' /\ Effect
<1>1. PICK ok \in BOOLEAN :
        Ask("fail", a, j, ok) /\ IF ok THEN Proceed(a, "quitar", j) ELSE NextRecord(a, j)
  BY DEF RecoverFail
<1>2. UNCHANGED <<mem, disk, copias, porAdmin>>
  BY DEF RecoverFail
<1>3. "fail" \in Requests
  BY DEF Requests, Ops
<1>4. CASE ok
  <2>1. Moves(a, "quitar", j)
    BY <1>1, <1>4, Bookkeeping DEF Steps
  <2>2. Perform("fail", a, j, 0)
    BY <1>1, <1>4 DEF Ask
  <2>. QED  BY <1>1, <1>2, <1>3, <2>1, <2>2, AskStep
<1>5. CASE ~ok
  <2>1. Moves(a, "conciliar", NoJob)
    BY <1>1, <1>5, Bookkeeping
  <2>. QED  BY <1>1, <1>2, <1>3, <2>1, AskStep
<1>. QED  BY <1>4, <1>5

LEMMA RecoverCrossStep ==
  ASSUME SystemIInv, NEW a \in Agents, NEW j \in Jobs, RecoverCross(a, j)
  PROVE  SystemIInv' /\ Effect
<1>1. PICK ok \in BOOLEAN : /\ Ask("confirmationPending", a, j, ok)
                            /\ IF ok THEN Proceed(a, "despachar", j) ELSE NextRecord(a, j)
  BY DEF RecoverCross
<1>2. UNCHANGED <<mem, disk, copias, porAdmin>> /\ "confirmationPending" \in Requests
  BY DEF RecoverCross, Requests, Ops
<1>3. Moves(a, "despachar", j) \/ Moves(a, "conciliar", NoJob)
  BY <1>1, Bookkeeping DEF Steps
<1>. QED  BY <1>1, <1>2, <1>3, AskStep

LEMMA ClaimNextStep ==
  ASSUME SystemIInv, NEW a \in Agents, ClaimNext(a)
  PROVE  SystemIInv' /\ Effect
<1>1. /\ UNCHANGED <<mem, disk, copias, porAdmin>> /\ "claim" \in Requests
      /\ "imprimiendo" \in Steps \ {"idle", "conciliar"}
  BY DEF ClaimNext, Requests, Steps
<1>2. PICK j \in Jobs, ok \in BOOLEAN :
        /\ Ask("claim", a, j, ok)
        /\ \/ /\ Goto(a, "imprimiendo", j)
              /\ seen' = [seen EXCEPT ![a] = @ \cup {j}] /\ UNCHANGED todo
           \/ Abort(a) \/ Iterate(a)
  BY DEF ClaimNext
<1>3. \/ Moves(a, "imprimiendo", j) \/ Moves(a, "idle", NoJob) \/ Moves(a, "conciliar", NoJob)
  <2>1. CASE /\ Goto(a, "imprimiendo", j)
             /\ seen' = [seen EXCEPT ![a] = @ \cup {j}] /\ UNCHANGED todo
    <3>1. /\ seen \in [Agents -> SUBSET Jobs] /\ todo \in [Agents -> SUBSET Jobs]
          /\ j # NoJob
      BY SystemAssumption DEF SystemIInv, SystemTypeOK
    <3>2. seen' \in [Agents -> SUBSET Jobs]
      BY <2>1, <3>1
    <3>. QED  BY <1>1, <2>1, <3>1, <3>2 DEF Goto, Moves
  <2>2. CASE Abort(a) \/ Iterate(a)
    BY <2>2, Bookkeeping
  <2>. QED  BY <1>2, <2>1, <2>2
<1>. QED  BY <1>1, <1>2, <1>3, AskStep

LEMMA ClaimNothingStep ==
  ASSUME SystemIInv, NEW a \in Agents, ClaimNothing(a)
  PROVE  SystemIInv' /\ Effect
<1>1. UNCHANGED <<queue, papel, mem, disk, late, faults, copias, porAdmin>>
  BY DEF ClaimNothing
<1>2. Moves(a, "idle", NoJob) \/ Moves(a, "conciliar", NoJob)
  BY Leaving DEF ClaimNothing
<1>3. /\ late' \subseteq LateRequest /\ faults' \in 0..MaxFaults
      /\ \A r \in late' : r.op = "complete" => copias[r.trabajo] >= 1
  BY <1>1 DEF SystemIInv, SystemTypeOK, PrintedKnown
<1>4. Serves
  BY <1>1, QuietServes
<1>. QED  BY <1>1, <1>2, <1>3, <1>4, TalkStep DEF Effect

LEMMA StartPrintingStep ==
  ASSUME SystemIInv, NEW a \in Agents, NEW j \in Jobs, StartPrinting(a, j)
  PROVE  SystemIInv' /\ Effect
<1>1. PICK ok \in BOOLEAN :
        Ask("printing", a, j, ok) /\ IF ok THEN Proceed(a, "preparar", j) ELSE Abort(a)
  BY DEF StartPrinting
<1>2. UNCHANGED <<mem, disk, copias, porAdmin>> /\ "printing" \in Requests
  BY DEF StartPrinting, Requests, Ops
<1>4. CASE ok
  <2>1. Moves(a, "preparar", j)
    BY <1>1, <1>4, Bookkeeping DEF Steps
  <2>2. Perform("printing", a, j, 0)
    BY <1>1, <1>4 DEF Ask
  <2>. QED  BY <1>1, <1>2, <2>1, <2>2, AskStep
<1>5. CASE ~ok
  <2>1. Moves(a, "idle", NoJob)
    BY <1>1, <1>5, Bookkeeping
  <2>. QED  BY <1>1, <1>2, <2>1, AskStep
<1>. QED  BY <1>4, <1>5

LEMMA ReportFailureStep ==
  ASSUME SystemIInv, NEW a \in Agents, NEW j \in Jobs, ReportFailure(a, j)
  PROVE  SystemIInv' /\ Effect
<1>1. PICK ok \in BOOLEAN : Ask("fail", a, j, ok)
  BY DEF ReportFailure
<1>2. UNCHANGED <<mem, disk, copias, porAdmin>> /\ "fail" \in Requests
  BY DEF ReportFailure, Requests, Ops
<1>3. Moves(a, "conciliar", NoJob)
  BY Bookkeeping DEF ReportFailure
<1>. QED  BY <1>1, <1>2, <1>3, AskStep

LEMMA CrossBarrierStep ==
  ASSUME SystemIInv, NEW a \in Agents, NEW j \in Jobs, CrossBarrier(a, j)
  PROVE  SystemIInv' /\ Effect
<1>1. PICK ok \in BOOLEAN : /\ Ask("confirmationPending", a, j, ok)
                            /\ IF ok THEN Proceed(a, "despachar", j) ELSE Iterate(a)
  BY DEF CrossBarrier
<1>2. UNCHANGED <<mem, disk, copias, porAdmin>> /\ "confirmationPending" \in Requests
  BY DEF CrossBarrier, Requests, Ops
<1>3. Moves(a, "despachar", j) \/ Moves(a, "conciliar", NoJob)
  BY <1>1, Bookkeeping DEF Steps
<1>. QED  BY <1>1, <1>2, <1>3, AskStep

LEMMA CompleteStep ==
  ASSUME SystemIInv, NEW a \in Agents, NEW j \in Jobs, Complete(a, j)
  PROVE  SystemIInv' /\ Effect
<1>1. PICK ok \in BOOLEAN :
        Ask("complete", a, j, ok) /\ IF ok THEN Proceed(a, "quitarCompleto", j) ELSE Iterate(a)
  BY DEF Complete
<1>2. UNCHANGED <<mem, disk, copias, porAdmin>> /\ "complete" \in Requests
  BY DEF Complete, Requests, Ops
<1>3. copias[j] >= 1
  BY DEF Complete, SystemIInv, PrintedKnown
<1>4. CASE ok
  <2>1. Moves(a, "quitarCompleto", j)
    BY <1>1, <1>4, Bookkeeping DEF Steps
  <2>2. Perform("complete", a, j, 0)
    BY <1>1, <1>4 DEF Ask
  <2>. QED  BY <1>1, <1>2, <1>3, <2>1, <2>2, AskStep
<1>5. CASE ~ok
  <2>1. Moves(a, "conciliar", NoJob)
    BY <1>1, <1>5, Bookkeeping
  <2>. QED  BY <1>1, <1>2, <1>3, <2>1, AskStep
<1>. QED  BY <1>4, <1>5

LEMMA PrepareStep ==
  ASSUME SystemIInv, NEW a \in Agents, NEW j \in Jobs, Prepare(a, j)
  PROVE  SystemIInv' /\ Effect
<1>1. UNCHANGED <<queue, papel, late, copias, porAdmin>> /\ ~ Awaited(a, j)
  BY DEF Prepare, SystemIInv, JournalSafe
<1>2. Effect /\ Serves
  BY <1>1, QuietServes DEF Effect
<1>3. CASE Proceed(a, "fallar", j) /\ UNCHANGED <<mem, disk, faults>>
  <2>1. Moves(a, "fallar", j)
    BY <1>3, Bookkeeping DEF Steps
  <2>2. /\ late' \subseteq LateRequest /\ faults' \in 0..MaxFaults
        /\ \A r \in late' : r.op = "complete" => copias[r.trabajo] >= 1
    BY <1>1, <1>3 DEF SystemIInv, SystemTypeOK, PrintedKnown
  <2>. QED  BY <1>1, <1>2, <1>3, <2>1, <2>2, TalkStep
<1>4. ASSUME NEW wrote \in BOOLEAN, Write(a, j, "prepared", wrote),
             Proceed(a, IF wrote THEN "cruzar" ELSE "fallar", j)
      PROVE  SystemIInv'
  <2>1. PICK s \in {"cruzar", "fallar"} : Moves(a, s, j)
    BY <1>4, Bookkeeping DEF Steps
  <2>2. "prepared" \in Journal
    BY DEF Journal
  <2>. QED  BY <1>1, <1>4, <2>1, <2>2, WriteStep
<1>. QED  BY <1>2, <1>3, <1>4 DEF Prepare

LEMMA RemoveCompletedStep ==
  ASSUME SystemIInv, NEW a \in Agents, NEW j \in Jobs, RemoveCompleted(a, j)
  PROVE  SystemIInv' /\ Effect
<1>1. UNCHANGED <<queue, papel, late, copias, porAdmin>> /\ ~ Awaited(a, j) /\ "none" \in Journal
  BY DEF RemoveCompleted, SystemIInv, JournalSafe, Journal
<1>2. PICK wrote \in BOOLEAN :
        /\ Write(a, j, "none", wrote)
        /\ IF wrote THEN NextRecord(a, j) ELSE Proceed(a, "consultarImpreso", j)
  BY DEF RemoveCompleted
<1>3. Moves(a, "conciliar", NoJob) \/ Moves(a, "consultarImpreso", j)
  BY <1>2, Bookkeeping DEF Steps
<1>. QED  BY <1>1, <1>2, <1>3, WriteStep DEF Effect

LEMMA RemoveStep ==
  ASSUME SystemIInv, NEW a \in Agents, NEW j \in Jobs, Remove(a, j)
  PROVE  SystemIInv' /\ Effect
<1>1. UNCHANGED <<queue, papel, late, copias, porAdmin>> /\ ~ Awaited(a, j) /\ "none" \in Journal
  BY DEF Remove, SystemIInv, JournalSafe, Journal
<1>2. PICK wrote \in BOOLEAN :
        Write(a, j, "none", wrote) /\ IF wrote THEN NextRecord(a, j) ELSE Abort(a)
  BY DEF Remove
<1>3. Moves(a, "conciliar", NoJob) \/ Moves(a, "idle", NoJob)
  BY <1>2, Bookkeeping
<1>. QED  BY <1>1, <1>2, <1>3, WriteStep DEF Effect

LEMMA RemoveFinishedStep ==
  ASSUME SystemIInv, NEW a \in Agents, NEW j \in Jobs, RemoveFinished(a, j)
  PROVE  SystemIInv' /\ Effect
<1>1. UNCHANGED <<queue, papel, late, copias, porAdmin>> /\ ~ Awaited(a, j) /\ "none" \in Journal
  BY DEF RemoveFinished, SystemIInv, JournalSafe, Journal
<1>2. PICK wrote \in BOOLEAN : Write(a, j, "none", wrote)
  BY DEF RemoveFinished
<1>3. Moves(a, "conciliar", NoJob)
  BY Bookkeeping DEF RemoveFinished
<1>. QED  BY <1>1, <1>2, <1>3, WriteStep DEF Effect

LEMMA DispatchStep ==
  ASSUME SystemIInv, NEW a \in Agents, NEW j \in Jobs, Dispatch(a, j)
  PROVE  SystemIInv' /\ Effect
<1>1. UNCHANGED <<queue, papel, late, copias, porAdmin>> /\ "dispatch_started" \in Journal
  BY DEF Dispatch, Journal
<1>2. PICK wrote \in BOOLEAN :
        /\ Write(a, j, "dispatch_started", wrote)
        /\ IF wrote THEN Proceed(a, "firmar", j) ELSE Abort(a)
  BY DEF Dispatch
<1>3. (wrote /\ Moves(a, "firmar", j)) \/ Moves(a, "idle", NoJob)
  BY <1>2, Bookkeeping DEF Steps
<1>. QED  BY <1>1, <1>2, <1>3, WriteStep DEF Effect

LEMMA MarkPrintedStep ==
  ASSUME SystemIInv, NEW a \in Agents, NEW j \in Jobs, MarkPrinted(a, j)
  PROVE  SystemIInv' /\ Effect
<1>1. /\ UNCHANGED <<queue, papel, late, copias, porAdmin>> /\ "printed_unconfirmed" \in Journal
      /\ copias[j] >= 1
  BY DEF MarkPrinted, Journal, SystemIInv, PrintedKnown
<1>2. PICK wrote \in BOOLEAN :
        /\ Write(a, j, "printed_unconfirmed", wrote)
        /\ IF wrote THEN Proceed(a, "completar", j) ELSE Abort(a)
  BY DEF MarkPrinted
<1>3. Moves(a, "completar", j) \/ Moves(a, "idle", NoJob)
  BY <1>2, Bookkeeping DEF Steps
<1>. QED  BY <1>1, <1>2, <1>3, WriteStep DEF Effect

\* A signature buys the place of one more copy.
LEMMA SignedCopies ==
  ASSUME SystemIInv, NEW a \in Agents, NEW j \in Jobs, Moves(a, "imprimirQz", j),
         SignPrint(a, j), UNCHANGED copias
  PROVE  CopyAccounting'
<1>1. SUFFICES ASSUME NEW k \in Jobs
               PROVE  IsFiniteSet(Printing(k)') /\ copias[k] + Cardinality(Printing(k)') <= grants'[k]
  BY DEF CopyAccounting, Printing
<1>2. IsFiniteSet(Printing(k)) /\ copias[k] + Cardinality(Printing(k)) <= grants[k]
  BY DEF SystemIInv, CopyAccounting
<1>3. Cardinality(Printing(k)) \in Nat /\ copias[k] \in Nat /\ grants[k] \in Nat
  BY <1>2, FS_CardinalityType DEF SystemIInv, SystemTypeOK, TypeOK
<1>4. grants'[k] = IF k = j THEN grants[k] + 1 ELSE grants[k]
  BY DEF SignPrint, SystemIInv, SystemTypeOK, TypeOK
<1>5. CASE k = j
  <2>1. Printing(k)' \subseteq Printing(k) \cup {a}
    BY MovesFacts DEF Printing, At
  <2>2. /\ IsFiniteSet(Printing(k) \cup {a})
        /\ \/ Cardinality(Printing(k) \cup {a}) = Cardinality(Printing(k))
           \/ Cardinality(Printing(k) \cup {a}) = Cardinality(Printing(k)) + 1
    BY <1>2, FS_AddElement
  <2>3. /\ IsFiniteSet(Printing(k)') /\ Cardinality(Printing(k)') \in Nat
        /\ Cardinality(Printing(k)') <= Cardinality(Printing(k) \cup {a})
    BY <2>1, <2>2, FS_Subset, FS_CardinalityType
  <2>. QED  BY <1>2, <1>3, <1>4, <1>5, <2>2, <2>3
<1>6. CASE k # j
  <2>1. Printing(k)' \subseteq Printing(k)
    BY <1>6, MovesFacts DEF Printing, At
  <2>2. /\ IsFiniteSet(Printing(k)') /\ Cardinality(Printing(k)') \in Nat
        /\ Cardinality(Printing(k)') <= Cardinality(Printing(k))
    BY <1>2, <2>1, FS_Subset, FS_CardinalityType
  <2>. QED  BY <1>2, <1>3, <1>4, <1>6, <2>2
<1>. QED  BY <1>5, <1>6

LEMMA SignStep ==
  ASSUME SystemIInv, NEW a \in Agents, NEW j \in Jobs, Sign(a, j)
  PROVE  SystemIInv' /\ Effect
<1>1. PICK ok \in BOOLEAN :
        Ask("sign", a, j, ok) /\ IF ok THEN Proceed(a, "imprimirQz", j) ELSE Iterate(a)
  BY DEF Sign
<1>2. UNCHANGED <<mem, disk, copias, porAdmin>> /\ "sign" \in Requests
  BY DEF Sign, Requests
<1>3. CASE ~ok
  <2>1. Moves(a, "conciliar", NoJob)
    BY <1>1, <1>3, Bookkeeping
  <2>. QED  BY <1>1, <1>2, <2>1, AskStep
<1>4. CASE ok
  <2>1. Moves(a, "imprimirQz", j)
    BY <1>1, <1>4, Bookkeeping DEF Steps
  <2>2. /\ Serves /\ Effect /\ Perform("sign", a, j, 0)
        /\ late' \subseteq LateRequest /\ faults' \in 0..MaxFaults
        /\ \A r \in late' : r.op = "complete" => copias[r.trabajo] >= 1
    BY <1>1, <1>2, <1>4, AskServes
  <2>3. SignPrint(a, j)
    BY <2>2 DEF Perform
  <2>4. CopyAccounting' /\ CompletionMeansPrinted'
    BY <1>2, <2>1, <2>2, <2>3, SignedCopies, StillPrinted
  <2>5. /\ mem' \in [Agents -> [Jobs -> Journal]] /\ disk' \in [Agents -> [Jobs -> Journal]]
        /\ copias' \in [Jobs -> Nat] /\ papel' \in [Jobs -> SUBSET Agents] /\ porAdmin' = porAdmin
        /\ [Next]_vars
        /\ \A b \in Agents \ {a} : mem'[b] = mem[b] /\ disk'[b] = disk[b]
        /\ \A b \in Agents \ {a}, k \in Jobs : Awaited(b, k)' => Awaited(b, k)
    BY <1>2, <2>2 DEF SystemIInv, SystemTypeOK, Serves
  <2>6. \A k \in Jobs : copias[k] <= copias'[k]
    BY <1>2 DEF SystemIInv, SystemTypeOK
  <2>7. /\ \A k \in Jobs : mem'[a][k] = "printed_unconfirmed" \/ disk'[a][k] = "printed_unconfirmed" =>
             copias'[k] >= 1
        /\ \A r \in late' : r.op = "complete" => copias'[r.trabajo] >= 1
    BY <1>2, <2>2 DEF SystemIInv, PrintedKnown
  <2>8. \A k \in Jobs : Awaited(a, k)' => mem'[a][k] \in Dispatched /\ disk'[a][k] \in Dispatched
    BY <1>2, <2>2 DEF SystemIInv, JournalSafe, Dispatched, Serves
  <2>9. mem'[a][j] = "dispatch_started" /\ disk'[a][j] = "dispatch_started"
    BY <1>2 DEF Sign, SystemIInv, JournalSafe
  <2>. QED  BY <2>1, <2>2, <2>4, <2>5, <2>6, <2>7, <2>8, <2>9, AgentStep
<1>. QED  BY <1>3, <1>4

\* A copy that comes out gives up its place.
LEMMA PrintedCopies ==
  ASSUME SystemIInv, NEW a \in Agents, NEW j \in Jobs, NEW s, NEW c, Moves(a, s, c),
         At(a, "imprimirQz", j), s # "imprimirQz",
         UNCHANGED grants, copias' = [copias EXCEPT ![j] = @ + 1]
  PROVE  CopyAccounting' /\ copias[j] < grants[j]
<1>1. IsFiniteSet(Printing(j)) /\ copias[j] + Cardinality(Printing(j)) <= grants[j]
  BY DEF SystemIInv, CopyAccounting
<1>2. a \in Printing(j)
  BY DEF Printing
<1>3. /\ IsFiniteSet(Printing(j) \ {a})
      /\ Cardinality(Printing(j) \ {a}) = Cardinality(Printing(j)) - 1
  BY <1>1, <1>2, FS_RemoveElement
<1>4. /\ Cardinality(Printing(j)) \in Nat /\ Cardinality(Printing(j) \ {a}) \in Nat
      /\ \A k \in Jobs : copias[k] \in Nat /\ grants[k] \in Nat
  BY <1>1, <1>3, FS_CardinalityType DEF SystemIInv, SystemTypeOK, TypeOK
<1>5. copias[j] < grants[j]
  BY <1>1, <1>3, <1>4
<1>6. ASSUME NEW k \in Jobs
      PROVE  IsFiniteSet(Printing(k)') /\ copias'[k] + Cardinality(Printing(k)') <= grants'[k]
  <2>1. CASE k = j
    <3>1. Printing(j)' = Printing(j) \ {a}
      BY MovesFacts DEF Printing, At
    <3>2. copias'[j] = copias[j] + 1
      BY DEF SystemIInv, SystemTypeOK
    <3>. QED  BY <1>1, <1>3, <1>4, <2>1, <3>1, <3>2
  <2>2. CASE k # j
    <3>1. Printing(k)' = Printing(k)
      BY <2>2, MovesFacts DEF Printing, At
    <3>2. copias'[k] = copias[k]
      BY <2>2 DEF SystemIInv, SystemTypeOK
    <3>. QED  BY <3>1, <3>2 DEF SystemIInv, CopyAccounting
  <2>. QED  BY <2>1, <2>2
<1>. QED  BY <1>5, <1>6 DEF CopyAccounting, Printing

LEMMA QzPrintStep ==
  ASSUME SystemIInv, NEW a \in Agents, NEW j \in Jobs, QzPrint(a, j)
  PROVE  SystemIInv' /\ Effect
<1>1. /\ UNCHANGED <<queue, mem, disk, late, faults, porAdmin>> /\ At(a, "imprimirQz", j)
      /\ UNCHANGED <<job, activos, signed, requeues, grants>>
  BY DEF QzPrint, queue
<1>2. /\ late' \subseteq LateRequest /\ faults' \in 0..MaxFaults
      /\ \A r \in late : r.op = "complete" => copias[r.trabajo] >= 1
  BY <1>1 DEF SystemIInv, SystemTypeOK, PrintedKnown
<1>3. CASE UNCHANGED <<copias, papel>> /\ Iterate(a)
  <2>1. Moves(a, "conciliar", NoJob)
    BY <1>3, Bookkeeping
  <2>2. Serves
    BY <1>1, <1>3, QuietServes
  <2>. QED  BY <1>1, <1>2, <1>3, <2>1, <2>2, TalkStep DEF Effect
<1>4. CASE /\ copias' = [copias EXCEPT ![j] = @ + 1]
           /\ papel' = [papel EXCEPT ![j] = @ \cup {a}]
           /\ Proceed(a, "marcarImpreso", j) \/ Iterate(a)
  <2>1. Moves(a, "marcarImpreso", j) \/ Moves(a, "conciliar", NoJob)
    BY <1>4, Bookkeeping DEF Steps
  <2>2. /\ \A k \in Jobs : copias[k] \in Nat /\ copias'[k] \in Nat /\ copias[k] <= copias'[k]
        /\ copias' \in [Jobs -> Nat] /\ copias'[j] >= 1
    BY <1>4 DEF SystemIInv, SystemTypeOK
  <2>3. CopyAccounting' /\ copias[j] < grants[j]
    BY <1>1, <1>4, <2>1, PrintedCopies
  <2>4. Effect
    BY <1>1, <1>4, <2>3 DEF Effect
  <2>5. CompletionMeansPrinted'
    <3>1. SUFFICES ASSUME NEW k \in Jobs, job[k].estado = "impreso", k \notin porAdmin
                   PROVE  copias'[k] >= 1
      BY <1>1 DEF CompletionMeansPrinted
    <3>. QED  BY <2>2, <3>1 DEF SystemIInv, CompletionMeansPrinted
  <2>6. /\ mem' \in [Agents -> [Jobs -> Journal]] /\ disk' \in [Agents -> [Jobs -> Journal]]
        /\ papel' \in [Jobs -> SUBSET Agents] /\ porAdmin' = porAdmin /\ [Next]_vars
        /\ \A b \in Agents \ {a} : mem'[b] = mem[b] /\ disk'[b] = disk[b]
    BY <1>1, <1>4 DEF SystemIInv, SystemTypeOK, vars, queue
  <2>7. \A b \in Agents \ {a}, k \in Jobs : Awaited(b, k)' => Awaited(b, k)
    BY <1>1, <1>4 DEF SystemIInv, SystemTypeOK, Awaited, Owns
  <2>8. ASSUME NEW k \in Jobs,
               mem'[a][k] = "printed_unconfirmed" \/ disk'[a][k] = "printed_unconfirmed"
        PROVE  copias'[k] >= 1
    <3>1. copias[k] >= 1
      BY <1>1, <2>8 DEF SystemIInv, PrintedKnown
    <3>. QED  BY <2>2, <3>1
  <2>9. ASSUME NEW r \in late', r.op = "complete" PROVE copias'[r.trabajo] >= 1
    <3>1. r.trabajo \in Jobs /\ copias[r.trabajo] >= 1
      BY <1>1, <1>2, <2>9 DEF LateRequest
    <3>. QED  BY <2>2, <3>1
  <2>10. mem[a][j] = "dispatch_started" /\ disk[a][j] = "dispatch_started"
    BY <1>1 DEF SystemIInv, JournalSafe
  <2>11. ASSUME NEW k \in Jobs, Awaited(a, k)'
         PROVE  mem'[a][k] \in Dispatched /\ disk'[a][k] \in Dispatched
    <3>1. CASE k = j
      BY <1>1, <2>10, <3>1 DEF Dispatched
    <3>2. CASE k # j
      <4>1. Awaited(a, k)
        BY <1>1, <1>4, <2>11, <3>2 DEF SystemIInv, SystemTypeOK, Awaited, Owns
      <4>. QED  BY <1>1, <4>1 DEF SystemIInv, JournalSafe, Dispatched
    <3>. QED  BY <3>1, <3>2
  <2>12. /\ \A k \in Jobs : mem'[a][k] = "printed_unconfirmed" \/ disk'[a][k] = "printed_unconfirmed" =>
               copias'[k] >= 1
         /\ \A r \in late' : r.op = "complete" => copias'[r.trabajo] >= 1
         /\ \A k \in Jobs : Awaited(a, k)' => mem'[a][k] \in Dispatched /\ disk'[a][k] \in Dispatched
         /\ \A k \in Jobs : copias[k] <= copias'[k]
    BY <2>2, <2>8, <2>9, <2>11
  <2>13. CASE Moves(a, "marcarImpreso", j)
    BY <1>2, <2>2, <2>3, <2>4, <2>5, <2>6, <2>7, <2>12, <2>13, AgentStep
  <2>14. CASE Moves(a, "conciliar", NoJob)
    BY <1>2, <2>2, <2>3, <2>4, <2>5, <2>6, <2>7, <2>12, <2>14, AgentStep
  <2>. QED  BY <2>1, <2>13, <2>14
<1>. QED  BY <1>3, <1>4 DEF QzPrint

LEMMA CrashStep ==
  ASSUME SystemIInv, NEW a \in Agents, Crash(a)
  PROVE  SystemIInv' /\ Effect
<1>1. /\ UNCHANGED <<queue, papel, disk, late, copias, porAdmin>>
      /\ mem' = [mem EXCEPT ![a] = disk[a]] /\ faults' = faults + 1 /\ faults < MaxFaults
  BY DEF Crash, Fault
<1>2. Moves(a, "idle", NoJob)
  BY Leaving DEF Crash
<1>3. Serves /\ Effect
  BY <1>1, QuietServes DEF Effect
<1>4. CopyAccounting' /\ CompletionMeansPrinted'
  BY <1>1, <1>2, <1>3, SameCopies, StillPrinted
<1>5. /\ late' \subseteq LateRequest /\ faults' \in 0..MaxFaults
      /\ mem' \in [Agents -> [Jobs -> Journal]] /\ disk' \in [Agents -> [Jobs -> Journal]]
      /\ copias' \in [Jobs -> Nat] /\ papel' \in [Jobs -> SUBSET Agents] /\ porAdmin' = porAdmin
      /\ mem'[a] = disk[a]
      /\ \A b \in Agents \ {a} : mem'[b] = mem[b] /\ disk'[b] = disk[b]
  BY <1>1, SystemAssumption DEF SystemIInv, SystemTypeOK
<1>6. /\ \A k \in Jobs : copias[k] <= copias'[k]
      /\ \A r \in late' : r.op = "complete" => copias'[r.trabajo] >= 1
  BY <1>1 DEF SystemIInv, SystemTypeOK, PrintedKnown
<1>7. \A b \in Agents \ {a}, k \in Jobs : Awaited(b, k)' => Awaited(b, k)
  BY <1>3 DEF Serves
<1>8. /\ \A k \in Jobs : mem'[a][k] = "printed_unconfirmed" \/ disk'[a][k] = "printed_unconfirmed" =>
            copias'[k] >= 1
      /\ \A k \in Jobs : Awaited(a, k)' => mem'[a][k] \in Dispatched /\ disk'[a][k] \in Dispatched
  BY <1>1, <1>3, <1>5 DEF SystemIInv, PrintedKnown, JournalSafe, Dispatched, Serves
<1>9. [Next]_vars
  BY <1>3 DEF Serves
<1>. QED  BY <1>2, <1>3, <1>4, <1>5, <1>6, <1>7, <1>8, <1>9, AgentStep

LEMMA RenewStep ==
  ASSUME SystemIInv, NEW a \in Agents, NEW j \in Jobs, Renew(a, j)
  PROVE  SystemIInv' /\ Effect
<1>1. UNCHANGED <<agentVars, copias, porAdmin>> /\ "renew" \in Requests
  BY DEF Renew, Requests, Ops
<1>2. PICK ok \in BOOLEAN : Ask("renew", a, j, ok)
  BY DEF Renew
<1>3. /\ Serves /\ Effect /\ late' \subseteq LateRequest /\ faults' \in 0..MaxFaults
      /\ \A r \in late' : r.op = "complete" => copias[r.trabajo] >= 1
  BY <1>1, <1>2, AskServes
<1>4. porAdmin' \subseteq Jobs /\ porAdmin \subseteq porAdmin'
  BY <1>1 DEF SystemIInv, SystemTypeOK
<1>. QED  BY <1>1, <1>3, <1>4, WorldStep

-----------------------------------------------------------------------------
(* The steps no agent takes. *)

LEMMA DeliverLateStep ==
  ASSUME SystemIInv, NEW r \in late, DeliverLate(r)
  PROVE  SystemIInv' /\ Effect
<1>1. UNCHANGED <<agentVars, faults, copias, porAdmin>> /\ late' = late \ {r}
  BY DEF DeliverLate
<1>2. /\ r.op \in Requests /\ r.agente \in Agents /\ r.trabajo \in Jobs
      /\ r.op = "complete" => copias[r.trabajo] >= 1
  BY DEF SystemIInv, SystemTypeOK, LateRequest, PrintedKnown
<1>3. \/ \E e \in 0..LeaseTicks : Perform(r.op, r.agente, r.trabajo, e)
      \/ UNCHANGED <<queue, papel>>
  <2>1. r.edad \in 0..LeaseTicks
    BY DEF SystemIInv, SystemTypeOK, LateRequest
  <2>2. 0..r.edad \subseteq 0..LeaseTicks
    BY <2>1, ConstantsAssumption
  <2>. QED  BY <2>2 DEF DeliverLate
<1>4. Serves /\ Effect
  BY <1>1, <1>2, <1>3, PerformServes, QuietServes DEF Effect
<1>5. /\ late' \subseteq LateRequest /\ faults' \in 0..MaxFaults
      /\ \A q \in late' : q.op = "complete" => copias[q.trabajo] >= 1
      /\ porAdmin' \subseteq Jobs /\ porAdmin \subseteq porAdmin'
  BY <1>1 DEF SystemIInv, SystemTypeOK, PrintedKnown
<1>. QED  BY <1>1, <1>4, <1>5, WorldStep

LEMMA MarkPrintedByAdminStep ==
  ASSUME SystemIInv, NEW j \in Jobs, MarkPrintedByAdmin(j)
  PROVE  SystemIInv' /\ Effect
<1>1. /\ ResolvePrinted(j) /\ porAdmin' = porAdmin \cup {j}
      /\ UNCHANGED <<papel, agentVars, late, faults, copias>>
  BY DEF MarkPrintedByAdmin
<1>2. UNCHANGED grants /\ [Next]_vars
  BY <1>1 DEF ResolvePrinted, Next
<1>3. \A k \in Jobs : job'[k] = job[k] \/ (k = j /\ job'[k].estado = "impreso")
  <2>1. job \in [Jobs -> JobRecord]
    BY DEF SystemIInv, SystemTypeOK, TypeOK
  <2>. DEFINE row == [job[j] EXCEPT !.estado = "impreso", !.lease = 0]
  <2>2. job' = [job EXCEPT ![j] = row]
    BY <1>1 DEF ResolvePrinted
  <2>3. row.estado = "impreso"
    BY <2>1 DEF JobRecord
  <2>. HIDE DEF row
  <2>4. job'[j] = row /\ \A k \in Jobs \ {j} : job'[k] = job[k]
    BY <2>1, <2>2
  <2>5. job'[j].estado = "impreso"
    BY <2>3, <2>4
  <2>6. ASSUME NEW k \in Jobs PROVE job'[k] = job[k] \/ (k = j /\ job'[k].estado = "impreso")
    BY <2>4, <2>5
  <2>. QED  BY <2>6
<1>4. papel \in [Jobs -> SUBSET Agents] /\ grants \in [Jobs -> Nat]
  BY DEF SystemIInv, SystemTypeOK, TypeOK
<1>5. Serves
  BY <1>1, <1>2, <1>3, <1>4 DEF Serves, Awaited, Owns
<1>6. /\ late' \subseteq LateRequest /\ faults' \in 0..MaxFaults
      /\ \A q \in late' : q.op = "complete" => copias[q.trabajo] >= 1
      /\ porAdmin' \subseteq Jobs /\ porAdmin \subseteq porAdmin'
  BY <1>1 DEF SystemIInv, SystemTypeOK, PrintedKnown
<1>7. Effect
  BY <1>1 DEF Effect
<1>. QED  BY <1>1, <1>5, <1>6, <1>7, WorldStep

LEMMA EnvironmentStep ==
  ASSUME SystemIInv, Environment \/ \E j \in Jobs : TimePasses(j)
  PROVE  SystemIInv' /\ Effect
<1>1. Outside /\ UNCHANGED <<papel, agentVars, faults, copias, porAdmin>>
  BY DEF Environment, TimePasses, Outside
<1>2. [Next]_vars /\ UNCHANGED grants
  BY <1>1 DEF Outside, Next, Enqueue, ResolveNotPrinted, LeaseTick, BackoffElapses, Revoke
<1>. DEFINE Settled == \A k \in Jobs :
                         \/ job'[k].estado = job[k].estado /\ job'[k].agente = job[k].agente
                         \/ job'[k].estado = "pendiente"
<1>3. Settled
  <2>1. job \in [Jobs -> JobRecord]
    BY DEF SystemIInv, SystemTypeOK, TypeOK
  <2>2. ASSUME NEW j \in Jobs, Enqueue(j) PROVE Settled
    BY <2>1, <2>2 DEF Enqueue, JobRecord
  <2>3. ASSUME NEW j \in Jobs, ResolveNotPrinted(j) PROVE Settled
    BY <2>1, <2>3 DEF ResolveNotPrinted, Requeued
  <2>4. ASSUME NEW j \in Jobs, LeaseTick(j) PROVE Settled
    BY <2>1, <2>4 DEF LeaseTick, JobRecord
  <2>5. ASSUME NEW j \in Jobs, BackoffElapses(j) PROVE Settled
    BY <2>1, <2>5 DEF BackoffElapses, JobRecord
  <2>6. ASSUME NEW a \in Agents, Revoke(a) PROVE Settled
    BY <2>6 DEF Revoke
  <2>. QED  BY <1>1, <2>2, <2>3, <2>4, <2>5, <2>6 DEF Outside
<1>4. papel \in [Jobs -> SUBSET Agents] /\ grants \in [Jobs -> Nat]
  BY DEF SystemIInv, SystemTypeOK, TypeOK
<1>5. Serves
  BY <1>1, <1>2, <1>3, <1>4 DEF Serves, Awaited, Owns
<1>6. /\ faults' \in 0..MaxFaults
      /\ porAdmin' \subseteq Jobs /\ porAdmin \subseteq porAdmin'
  BY <1>1 DEF SystemIInv, SystemTypeOK
\* A request that ages is the same request.
<1>7. late' \subseteq LateRequest /\ \A q \in late' : q.op = "complete" => copias[q.trabajo] >= 1
  <2>1. late \subseteq LateRequest /\ \A q \in late : q.op = "complete" => copias[q.trabajo] >= 1
    BY DEF SystemIInv, SystemTypeOK, PrintedKnown
  <2>2. ASSUME NEW r \in LateRequest, NEW j \in Jobs
        PROVE  Aged(r, j) \in LateRequest /\ Aged(r, j).op = r.op /\ Aged(r, j).trabajo = r.trabajo
    <3>1. Least(LeaseTicks, r.edad + 1) \in 0..LeaseTicks
      BY ConstantsAssumption DEF Least, LateRequest
    <3>. QED  BY <3>1 DEF Aged, LateRequest
  <2>3. CASE late' = late
    BY <2>1, <2>3
  <2>4. ASSUME NEW j \in Jobs, late' = {Aged(r, j) : r \in late}
        PROVE  late' \subseteq LateRequest
               /\ \A q \in late' : q.op = "complete" => copias[q.trabajo] >= 1
    BY <2>1, <2>2, <2>4
  <2>. QED  BY <2>3, <2>4 DEF Environment, TimePasses
<1>8. Effect
  BY <1>1 DEF Effect
<1>. QED  BY <1>1, <1>5, <1>6, <1>7, <1>8, WorldStep

-----------------------------------------------------------------------------
(* The system's theorems. *)

LEMMA SystemInitIInv == SystemInit => SystemIInv
<1>1. SUFFICES ASSUME SystemInit PROVE SystemIInv
  OBVIOUS
<1>2. IInv /\ TypeOK
  BY <1>1, InitInvariant DEF SystemInit, IInv
<1>3. SystemTypeOK
  BY <1>1, <1>2, SystemAssumption DEF SystemInit, SystemTypeOK, Steps, Journal
<1>4. CopyAccounting
  <2>1. SUFFICES ASSUME NEW j \in Jobs
                 PROVE  IsFiniteSet(Printing(j)) /\ copias[j] + Cardinality(Printing(j)) <= grants[j]
    BY DEF CopyAccounting
  <2>2. Printing(j) = {} /\ copias[j] = 0 /\ grants[j] = 0
    BY <1>1 DEF SystemInit, Init, Printing, At
  <2>. QED  BY <2>2, FS_EmptySet
<1>5. PrintedKnown
  BY <1>1 DEF SystemInit, PrintedKnown, At
<1>6. CompletionMeansPrinted
  BY <1>1 DEF SystemInit, Init, CompletionMeansPrinted
<1>7. JournalSafe
  BY <1>1 DEF SystemInit, JournalSafe, Awaited, At
<1>. QED  BY <1>2, <1>3, <1>4, <1>5, <1>6, <1>7 DEF SystemIInv

LEMMA WorkStep ==
  ASSUME SystemIInv, NEW a \in Agents, NEW j \in Jobs, Work(a, j)
  PROVE  SystemIInv' /\ Effect
BY CompletePrintedStep, CheckPrintedStep, RemoveCompletedStep, RemoveStep, RecoverPreparedStep,
   RecoverPrepareStep, RecoverFailStep, RecoverCrossStep, CheckDispatchedStep, StartPrintingStep,
   PrepareStep, ReportFailureStep, CrossBarrierStep, DispatchStep, SignStep, QzPrintStep,
   MarkPrintedStep, CompleteStep, RemoveFinishedStep
   DEF Work

LEMMA SystemStep ==
  ASSUME SystemIInv, [SystemNext]_systemVars
  PROVE  SystemIInv' /\ Effect
<1>1. ASSUME NEW a \in Agents, Step(a) \/ Crash(a) \/ \E j \in Jobs : Renew(a, j)
      PROVE  SystemIInv' /\ Effect
  BY <1>1, StartDrainStep, ClaimNextStep, ClaimNothingStep, WorkStep, CrashStep, RenewStep DEF Step
<1>2. ASSUME NEW r \in late, DeliverLate(r) PROVE SystemIInv' /\ Effect
  BY <1>2, DeliverLateStep
<1>3. ASSUME NEW j \in Jobs, MarkPrintedByAdmin(j) PROVE SystemIInv' /\ Effect
  BY <1>3, MarkPrintedByAdminStep
<1>4. CASE Environment \/ \E j \in Jobs : TimePasses(j)
  BY <1>4, EnvironmentStep
<1>5. CASE UNCHANGED systemVars
  <2>1. UNCHANGED <<queue, papel, agentVars, late, faults, copias, porAdmin>>
    BY <1>5 DEF systemVars
  <2>2. Serves /\ Effect
    BY <2>1, QuietServes DEF Effect
  <2>3. /\ late' \subseteq LateRequest /\ faults' \in 0..MaxFaults
        /\ \A q \in late' : q.op = "complete" => copias[q.trabajo] >= 1
        /\ porAdmin' \subseteq Jobs /\ porAdmin \subseteq porAdmin'
    BY <2>1 DEF SystemIInv, SystemTypeOK, PrintedKnown
  <2>. QED  BY <2>1, <2>2, <2>3, WorldStep
<1>. QED  BY <1>1, <1>2, <1>3, <1>4, <1>5 DEF SystemNext

\* The inductive invariant of the whole.
THEOREM SystemInvariance == SystemSpec => []SystemIInv
<1>1. SystemIInv /\ [SystemNext]_systemVars => SystemIInv'
  BY SystemStep
<1>. QED  BY SystemInitIInv, <1>1, PTL DEF SystemSpec

\* Every variable has its type, and an agent has a job in hand exactly when it
\* is in that job's flow.
THEOREM SystemTypeCorrect == SystemSpec => []SystemTypeOK
<1>1. SystemIInv => SystemTypeOK
  BY DEF SystemIInv
<1>. QED  BY SystemInvariance, <1>1, PTL

\* While the queue waits for the outcome of a copy an agent printed, the
\* agent's file says so: whatever crashes, a restarted agent asks for the
\* outcome and never dispatches again.
THEOREM JournalBeforePaperHolds == SystemSpec => []JournalBeforePaper
<1>1. SystemIInv => JournalBeforePaper
  BY DEF SystemIInv, JournalSafe, JournalBeforePaper, Awaited, Dispatched
<1>. QED  BY SystemInvariance, <1>1, PTL

\* No job comes out of the printers more than once, plus once for each time an
\* administrator declared it not printed.
THEOREM NoUnorderedCopyHolds == SystemSpec => []NoUnorderedCopy
<1>1. SystemIInv => NoUnorderedCopy
  <2>1. SUFFICES ASSUME SystemIInv, NEW j \in Jobs PROVE copias[j] <= requeues[j] + 1
    BY DEF NoUnorderedCopy
  <2>2. IsFiniteSet(Printing(j)) /\ copias[j] + Cardinality(Printing(j)) <= grants[j]
    BY <2>1 DEF SystemIInv, CopyAccounting
  <2>3. /\ Cardinality(Printing(j)) \in Nat /\ copias[j] \in Nat /\ grants[j] \in Nat
        /\ requeues[j] \in Nat
    BY <2>1, <2>2, FS_CardinalityType, ConstantsAssumption DEF SystemIInv, SystemTypeOK, TypeOK
  <2>4. grants[j] <= requeues[j] + 1
    BY <2>1, <2>3 DEF SystemIInv, IInv, CopyBudget
  <2>. QED  BY <2>2, <2>3, <2>4
<1>. QED  BY SystemInvariance, <1>1, PTL

\* A job in 'impreso' has a copy, unless an administrator vouched for it:
\* neither a late 'complete' nor a retried one ever guesses.
THEOREM CompletionMeansPrintedHolds == SystemSpec => []CompletionMeansPrinted
<1>1. SystemIInv => CompletionMeansPrinted
  BY DEF SystemIInv
<1>. QED  BY SystemInvariance, <1>1, PTL

-----------------------------------------------------------------------------
(* The refinements. *)

\* The system uses the queue as its module says, so whatever holds of the
\* queue holds of the system.
THEOREM QueueImplemented == SystemSpec => Spec
<1>1. SystemInit => Init
  BY DEF SystemInit
<1>2. ASSUME SystemIInv, [SystemNext]_systemVars PROVE [Next]_vars
  <2>1. Effect
    BY <1>2, SystemStep
  <2>2. CASE UNCHANGED queue
    BY <2>2 DEF queue, vars
  <2>3. ASSUME NEW op \in Requests, NEW a \in Agents, NEW j \in Jobs,
               NEW e \in 0..LeaseTicks, Perform(op, a, j, e)
        PROVE  Next
    <3>1. CASE op \in {"claim", "sign"}
      BY <2>3, <3>1 DEF Perform, Next
    <3>2. CASE op \in Ops
      BY <2>3, <3>2 DEF Perform, Next, Ops
    <3>. QED  BY <3>1, <3>2 DEF Requests
  <2>4. ASSUME NEW j \in Jobs, ResolvePrinted(j) PROVE Next
    BY <2>4 DEF Next
  <2>5. CASE Outside
    BY <2>5 DEF Outside, Next
  <2>. QED  BY <2>1, <2>2, <2>3, <2>4, <2>5 DEF Effect
<1>. QED  BY <1>1, <1>2, SystemInvariance, PTL DEF SystemSpec, Spec

LEMMA FaseFacts ==
  /\ FaseDe("ausente") = "ausente" /\ FaseDe("pendiente") = "abierta"
  /\ FaseDe("asignado") = "abierta" /\ FaseDe("imprimiendo") = "abierta"
  /\ FaseDe("confirmacion_pendiente") = "incierta"
  /\ FaseDe("impreso") = "impresa" /\ FaseDe("fallido") = "fallida"
BY DEF FaseDe

\* A step that moves one job moves one document.
LEMMA FaseStep ==
  ASSUME NEW j \in Jobs, \A k \in Jobs \ {j} : job'[k].estado = job[k].estado
  PROVE  [k \in Jobs |-> FaseDe(job'[k].estado)] =
         [[k \in Jobs |-> FaseDe(job[k].estado)] EXCEPT ![j] = FaseDe(job'[j].estado)]
<1>. DEFINE F == [k \in Jobs |-> FaseDe(job'[k].estado)]
            G == [[k \in Jobs |-> FaseDe(job[k].estado)] EXCEPT ![j] = FaseDe(job'[j].estado)]
<1>1. \A k \in Jobs : F[k] = G[k]
  OBVIOUS
<1>2. F = [k \in Jobs |-> F[k]] /\ G = [k \in Jobs |-> G[k]]
  OBVIOUS
<1>. QED  BY <1>1, <1>2

\* A document whose job stays in its phase stays in its own.
LEMMA FaseStays ==
  ASSUME \A k \in Jobs : FaseDe(job'[k].estado) = FaseDe(job[k].estado)
  PROVE  [k \in Jobs |-> FaseDe(job'[k].estado)] = [k \in Jobs |-> FaseDe(job[k].estado)]
OBVIOUS

\* Every request served is a step of the contract, or none.
LEMMA RequestContract ==
  ASSUME SystemIInv, NEW op \in Requests, NEW a \in Agents, NEW j \in Jobs,
         NEW e \in 0..LeaseTicks, Perform(op, a, j, e),
         op = "complete" => copias[j] >= 1, UNCHANGED <<copias, porAdmin>>
  PROVE  Contract!Next \/ UNCHANGED Contract!vars
<1>. USE FaseFacts
<1>1. job \in [Jobs -> JobRecord] /\ grants \in [Jobs -> Nat]
  BY DEF SystemIInv, SystemTypeOK, TypeOK
<1>2. CASE op = "sign"
  <2>1. SignPrint(a, j)
    BY <1>2 DEF Perform
  <2>2. /\ job[j].estado = "confirmacion_pendiente" /\ UNCHANGED <<job, requeues>>
        /\ grants' = [grants EXCEPT ![j] = @ + 1]
    BY <2>1 DEF SignPrint, CanSign
  <2>3. grants[j] <= requeues[j]
    BY <2>1 DEF SignPrint, CanSign, Owns, SystemIInv, IInv, CopyBudget
  <2>4. grants[j] < requeues[j] + 1
    BY <1>1, <2>3, ConstantsAssumption DEF SystemIInv, SystemTypeOK, TypeOK
  <2>5. Contract!Autorizar(j)
    BY <2>2, <2>4 DEF Contract!Autorizar
  <2>. QED  BY <2>5 DEF Contract!Next
<1>3. CASE op # "sign"
  <2>1. /\ \A k \in Jobs \ {j} : job'[k].estado = job[k].estado
        /\ UNCHANGED <<requeues, grants>>
    BY <1>1, <1>3 DEF Perform, Claim, Transition, Requests, Ops
  <2>2. CASE op = "claim"
    <3>1. Claim(a, j)
      BY <2>2 DEF Perform
    <3>2. job'[j].estado = "asignado" /\ job[j].estado \in {"pendiente", "asignado", "imprimiendo"}
      BY <1>1, <3>1 DEF Claim, CanClaim, Claimable, JobRecord
    <3>3. UNCHANGED [k \in Jobs |-> FaseDe(job[k].estado)]
      BY <2>1, <3>2, FaseStays
    <3>. QED  BY <2>1, <3>3 DEF Contract!vars
  <2>3. CASE op \in Ops
    <3>1. Transition(op, a, j, e)
      BY <2>3 DEF Perform, Ops
    <3>2. job'[j].estado = NextState(op, j) /\ job[j].estado \in FromStates(op)
      BY <1>1, <3>1 DEF Transition, CanTransition, JobRecord
    <3>3. CASE FaseDe(job'[j].estado) = FaseDe(job[j].estado)
      <4>1. UNCHANGED [k \in Jobs |-> FaseDe(job[k].estado)]
        BY <2>1, <3>3, FaseStays
      <4>. QED  BY <2>1, <4>1 DEF Contract!vars
    <3>4. CASE op = "confirmationPending"
      <4>1. job[j].estado = "imprimiendo" /\ job'[j].estado = "confirmacion_pendiente"
        BY <3>2, <3>4 DEF NextState, FromStates
      <4>2. Contract!Cruzar(j)
        BY <2>1, <4>1, FaseStep DEF Contract!Cruzar
      <4>. QED  BY <4>2 DEF Contract!Next
    <3>5. CASE op = "complete"
      <4>1. job[j].estado = "confirmacion_pendiente" /\ job'[j].estado = "impreso"
        BY <3>2, <3>5 DEF NextState, FromStates
      <4>2. Contract!Confirmar(j)
        BY <2>1, <3>5, <4>1, FaseStep DEF Contract!Confirmar
      <4>. QED  BY <4>2 DEF Contract!Next
    <3>6. CASE op = "fail" /\ FaseDe(job'[j].estado) # FaseDe(job[j].estado)
      <4>1. job[j].estado = "imprimiendo" /\ job'[j].estado = "fallido"
        BY <3>2, <3>6 DEF NextState, FromStates
      <4>2. Contract!Fallar(j)
        BY <2>1, <4>1, FaseStep DEF Contract!Fallar
      <4>. QED  BY <4>2 DEF Contract!Next
    <3>7. CASE op \in {"printing", "renew"}
      <4>1. FaseDe(job'[j].estado) = FaseDe(job[j].estado)
        BY <3>2, <3>7 DEF NextState, FromStates
      <4>. QED  BY <3>3, <4>1
    <3>. QED  BY <2>3, <3>3, <3>4, <3>5, <3>6, <3>7 DEF Ops
  <2>. QED  BY <1>3, <2>2, <2>3 DEF Requests
<1>. QED  BY <1>2, <1>3

\* So is what the administrator and the environment do.
LEMMA AdminContract ==
  ASSUME SystemIInv, NEW j \in Jobs, ResolvePrinted(j), porAdmin' = porAdmin \cup {j},
         UNCHANGED copias
  PROVE  Contract!Next
<1>. USE FaseFacts
<1>1. job \in [Jobs -> JobRecord]
  BY DEF SystemIInv, SystemTypeOK, TypeOK
<1>2. job[j].estado \in {"confirmacion_pendiente", "asignado", "imprimiendo"}
  BY DEF ResolvePrinted, Ambiguous
<1>. DEFINE row == [job[j] EXCEPT !.estado = "impreso", !.lease = 0]
<1>3. job' = [job EXCEPT ![j] = row] /\ row.estado = "impreso" /\ UNCHANGED <<requeues, grants>>
  BY <1>1 DEF ResolvePrinted, JobRecord
<1>. HIDE DEF row
<1>4. job'[j].estado = "impreso" /\ \A k \in Jobs \ {j} : job'[k].estado = job[k].estado
  BY <1>1, <1>3
<1>5. Contract!DarPorImpresa(j)
  BY <1>2, <1>3, <1>4, FaseStep DEF Contract!DarPorImpresa
<1>. QED  BY <1>5 DEF Contract!Next

LEMMA EnvironmentContract ==
  ASSUME SystemIInv, Outside, UNCHANGED <<copias, porAdmin>>
  PROVE  Contract!Next \/ UNCHANGED Contract!vars
<1>. USE FaseFacts
<1>1. job \in [Jobs -> JobRecord] /\ UNCHANGED <<copias, porAdmin>>
  BY DEF SystemIInv, SystemTypeOK, TypeOK
<1>2. ASSUME NEW j \in Jobs, Enqueue(j) PROVE Contract!Next
  <2>1. /\ \A k \in Jobs \ {j} : job'[k].estado = job[k].estado
        /\ UNCHANGED <<requeues, grants>>
        /\ job[j].estado = "ausente" /\ job'[j].estado = "pendiente"
    BY <1>1, <1>2 DEF Enqueue, JobRecord
  <2>2. Contract!Encolar(j)
    BY <1>1, <2>1, FaseStep DEF Contract!Encolar
  <2>. QED  BY <2>2 DEF Contract!Next
<1>3. ASSUME NEW j \in Jobs, ResolveNotPrinted(j) PROVE Contract!Next
  <2>1. /\ \A k \in Jobs \ {j} : job'[k].estado = job[k].estado
        /\ requeues' = [requeues EXCEPT ![j] = @ + 1] /\ UNCHANGED grants
        /\ job[j].estado \in {"confirmacion_pendiente", "asignado", "imprimiendo"}
        /\ job'[j].estado = "pendiente"
    BY <1>1, <1>3 DEF ResolveNotPrinted, Requeued, Ambiguous
  <2>2. requeues \in [Jobs -> Nat]
    BY ConstantsAssumption DEF SystemIInv, SystemTypeOK, TypeOK
  <2>3. [k \in Jobs |-> requeues'[k] + 1] =
        [[k \in Jobs |-> requeues[k] + 1] EXCEPT ![j] = @ + 1]
    BY <2>1, <2>2
  <2>4. [k \in Jobs |-> FaseDe(job'[k].estado)] =
        [[k \in Jobs |-> FaseDe(job[k].estado)] EXCEPT ![j] = "abierta"]
    BY <2>1, FaseStep
  <2>5. [k \in Jobs |-> FaseDe(job[k].estado)][j] \in {"abierta", "incierta"}
    BY <2>1
  <2>6. Contract!Reabrir(j)
    BY <1>1, <2>1, <2>3, <2>4, <2>5 DEF Contract!Reabrir
  <2>. QED  BY <2>6 DEF Contract!Next
<1>4. ASSUME \A k \in Jobs : job'[k].estado = job[k].estado, UNCHANGED <<requeues, grants>>
      PROVE  UNCHANGED Contract!vars
  <2>1. UNCHANGED [k \in Jobs |-> FaseDe(job[k].estado)]
    BY <1>4, FaseStays
  <2>. QED  BY <1>1, <1>4, <2>1 DEF Contract!vars
<1>5. ASSUME NEW j \in Jobs, LeaseTick(j) \/ BackoffElapses(j) PROVE UNCHANGED Contract!vars
  <2>1. (\A k \in Jobs : job'[k].estado = job[k].estado) /\ UNCHANGED <<requeues, grants>>
    BY <1>1, <1>5 DEF LeaseTick, BackoffElapses, JobRecord
  <2>. QED  BY <1>4, <2>1
<1>6. ASSUME NEW a \in Agents, Revoke(a) PROVE UNCHANGED Contract!vars
  BY <1>4, <1>6 DEF Revoke
<1>. QED  BY <1>2, <1>3, <1>5, <1>6 DEF Outside

\* The system implements PrintContract: whatever is lost, late or crashes, the
\* cashier sees documents that are ordered, cross the barrier, are signed for,
\* printed and closed in the contract's order.
THEOREM ContractImplemented == SystemSpec => ContractSpec
<1>1. SystemInit => Contract!Init
  <2>1. SUFFICES ASSUME SystemInit PROVE Contract!Init
    OBVIOUS
  <2>2. [j \in Jobs |-> FaseDe(job[j].estado)] = [j \in Jobs |-> "ausente"]
    BY <2>1, FaseFacts DEF SystemInit, Init
  <2>3. [j \in Jobs |-> requeues[j] + 1] = [j \in Jobs |-> 1]
    BY <2>1 DEF SystemInit, Init
  <2>. QED  BY <2>1, <2>2, <2>3 DEF SystemInit, Init, Contract!Init
<1>2. ASSUME SystemIInv, [SystemNext]_systemVars PROVE [Contract!Next]_(Contract!vars)
  <2>1. Effect
    BY <1>2, SystemStep
  <2>2. CASE UNCHANGED <<queue, papel, copias, porAdmin>>
    BY <2>2 DEF queue, Contract!vars
  <2>3. ASSUME NEW op \in Requests, NEW a \in Agents, NEW j \in Jobs,
               NEW e \in 0..LeaseTicks, Perform(op, a, j, e),
               op = "complete" => copias[j] >= 1, UNCHANGED <<copias, porAdmin>>
        PROVE  [Contract!Next]_(Contract!vars)
    BY <1>2, <2>3, RequestContract
  <2>4. ASSUME NEW j \in Jobs, copias[j] < grants[j], copias' = [copias EXCEPT ![j] = @ + 1],
               UNCHANGED <<queue, porAdmin>>
        PROVE  Contract!Next
    <3>1. Contract!Imprimir(j)
      BY <2>4 DEF queue, Contract!Imprimir
    <3>. QED  BY <3>1 DEF Contract!Next
  <2>5. ASSUME NEW j \in Jobs, ResolvePrinted(j), porAdmin' = porAdmin \cup {j}, UNCHANGED copias
        PROVE  Contract!Next
    BY <1>2, <2>5, AdminContract
  <2>6. CASE Outside /\ UNCHANGED <<papel, copias, porAdmin>>
    BY <1>2, <2>6, EnvironmentContract
  <2>. QED  BY <2>1, <2>2, <2>3, <2>4, <2>5, <2>6 DEF Effect
<1>. QED  BY <1>1, <1>2, SystemInvariance, PTL DEF SystemSpec, ContractSpec, Contract!Spec
=============================================================================
