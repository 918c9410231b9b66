---------------------------- MODULE PrintSystem ----------------------------
(***************************************************************************)
(* Branch printing end to end: the queue of PrintQueue together with the   *)
(* print agents, their local journal, QZ Tray and the network between.     *)
(*                                                                         *)
(* An agent runs one drain at a time (claimInProgress), so it is a single  *)
(* program counter over the steps of claimAndProcess, reconcileOnce,       *)
(* recoverPrepared, processJob and dispatchPrepared.  Every await is a     *)
(* step of its own: the queue, the administrator and the other agents move *)
(* between any two of them.                                                *)
(*                                                                         *)
(* A request may be refused, lost before it takes effect, take effect with *)
(* its answer lost, or take effect long after the client's 15 s timeout;   *)
(* an agent may crash between any two steps; writing the journal may fail. *)
(* Those faults draw on one budget, MaxFaults.                             *)
(***************************************************************************)
EXTENDS PrintQueue

CONSTANTS
  NoJob,        \* no job in hand
  MaxFaults     \* model bound: lost or late requests, crashes, failed writes

ASSUME SystemAssumption == NoJob \notin Jobs /\ MaxFaults \in Nat

VARIABLES
  pc,       \* where each agent is in its drain; "idle" between drains
  cur,      \* the job it is working on
  todo,     \* journal records reconcileOnce has still to visit
  seen,     \* seenJobIds of the running drain
  mem,      \* the journal in memory (stateStore's state.jobs)
  disk,     \* the journal in PRINT_STATE_FILE
  late,     \* requests whose client gave up and whose server has not run yet
  faults,   \* faults spent
  copias,   \* history: copies that came out of the printer
  papel,    \* history: per job, whose copy came out since the barrier was last crossed
  porAdmin  \* history: jobs an administrator marked as printed

queue     == <<job, activos, signed, tardios, requeues, grants>>
agentVars == <<pc, cur, todo, seen, mem, disk>>
systemVars == <<queue, papel, agentVars, late, faults, copias, porAdmin>>

-----------------------------------------------------------------------------
Journal == {"none", "prepared", "dispatch_started", "printed_unconfirmed"}

Steps == {"idle", "conciliar",
          "consultarImpreso", "quitarImpreso",                 \* completePrintedRecord
          "prepararEnRango", "prepararTrasBarrera",            \* recoverPrepared
          "fallarRecuperado", "cruzarRecuperado", "quitar",
          "imprimiendo", "preparar", "fallar", "cruzar",       \* processJob
          "despachar", "firmar", "imprimirQz", "marcarImpreso",\* dispatchPrepared
          "completar", "quitarCompleto"}

Requests == {"claim", "sign"} \cup Ops

\* edad: how far the job's lease ran down since the request was sent.
LateRequest == [op : Requests, agente : Agents, trabajo : Jobs, edad : 0..LeaseTicks]

SystemInit ==
  /\ Init
  /\ pc = [a \in Agents |-> "idle"]
  /\ cur = [a \in Agents |-> NoJob]
  /\ todo = [a \in Agents |-> {}]
  /\ seen = [a \in Agents |-> {}]
  /\ mem = [a \in Agents |-> [j \in Jobs |-> "none"]]
  /\ disk = mem
  /\ late = {}
  /\ faults = 0
  /\ copias = [j \in Jobs |-> 0]
  /\ papel = [j \in Jobs |-> {}]
  /\ porAdmin = {}

-----------------------------------------------------------------------------
\* Requests to the backend.
Fault == faults < MaxFaults /\ faults' = faults + 1

Permitted(op, a, j, edad) ==
  CASE op = "claim" -> CanClaim(a, j)
    [] op = "sign"  -> CanSign(a, j)
    [] OTHER        -> CanTransition(op, a, j, edad)

Perform(op, a, j, edad) ==
  /\ CASE op = "claim" -> Claim(a, j)
       [] op = "sign"  -> SignPrint(a, j)
       [] OTHER        -> Transition(op, a, j, edad)
  /\ papel' = IF op = "confirmationPending" THEN [papel EXCEPT ![j] = {}] ELSE papel

\* One request and the answer the agent acts on: ok, or an exception.  The
\* agent awaits it, and nobody else reads the lease of a row it works on before
\* locking that row, so its BEGIN and its COMMIT may be taken together: edad 0.
Ask(op, a, j, ok) ==
  \/ /\ ok /\ a \in activos
     /\ Perform(op, a, j, 0)
     /\ UNCHANGED <<late, faults>>
  \/ /\ ~ok /\ (a \notin activos \/ ~Permitted(op, a, j, 0))    \* 401, 403, 409
     /\ UNCHANGED <<queue, papel, late, faults>>
  \/ /\ ~ok /\ Fault
     /\ \/ UNCHANGED <<queue, papel, late>>                          \* never arrives
        \/ a \in activos /\ Perform(op, a, j, 0) /\ UNCHANGED late
        \/ /\ late' = late \cup {[op |-> op, agente |-> a, trabajo |-> j, edad |-> 0]}
           /\ UNCHANGED <<queue, papel>>

\* The GET of a job's status.
AskStatus(a, ok) ==
  /\ UNCHANGED <<queue, papel, late>>
  /\ \/ ok = (a \in activos) /\ UNCHANGED faults
     \/ ~ok /\ Fault

\* The server gets to a request its client has given up on.  The agent was
\* authenticated when it was sent; the BEGIN came at any time since.
DeliverLate(r) ==
  /\ r \in late
  /\ late' = late \ {r}
  /\ \E edad \in 0..r.edad :
       \/ Perform(r.op, r.agente, r.trabajo, edad)
       \/ ~Permitted(r.op, r.agente, r.trabajo, edad) /\ UNCHANGED <<queue, papel>>
  /\ UNCHANGED <<agentVars, faults, copias, porAdmin>>

-----------------------------------------------------------------------------
\* The agent's bookkeeping.
Goto(a, step, j) ==
  /\ pc' = [pc EXCEPT ![a] = step]
  /\ cur' = [cur EXCEPT ![a] = j]

\* stateStore changes its state in memory, then rewrites the file; wrote says
\* whether the write worked.
Write(a, j, status, wrote) ==
  /\ mem' = [mem EXCEPT ![a][j] = status]
  /\ IF wrote THEN disk' = [disk EXCEPT ![a] = mem'[a]] /\ UNCHANGED faults
              ELSE UNCHANGED disk /\ Fault

Records(a) == {j \in Jobs : mem[a][j] # "none"}

\* The next iteration of claimAndProcess: reconcileOnce lists the journal.
Iterate(a) ==
  /\ Goto(a, "conciliar", NoJob)
  /\ todo' = [todo EXCEPT ![a] = {j \in Jobs : mem'[a][j] # "none"}]
  /\ UNCHANGED seen

\* reconcileOnce goes on with the record after j.
NextRecord(a, j) ==
  /\ Goto(a, "conciliar", NoJob)
  /\ todo' = [todo EXCEPT ![a] = @ \ {j}]
  /\ UNCHANGED seen

\* An exception leaves claimAndProcess: run logs poll_failed and waits.
Abort(a) ==
  /\ Goto(a, "idle", NoJob)
  /\ todo' = [todo EXCEPT ![a] = {}]
  /\ seen' = [seen EXCEPT ![a] = {}]

\* Stay in the flow of job j.
Proceed(a, step, j) == Goto(a, step, j) /\ UNCHANGED <<todo, seen>>

At(a, step, j) == pc[a] = step /\ cur[a] = j

StartDrain(a) ==
  /\ pc[a] = "idle"
  /\ Goto(a, "conciliar", NoJob)
  /\ todo' = [todo EXCEPT ![a] = Records(a)]
  /\ UNCHANGED <<queue, papel, seen, mem, disk, late, faults, copias, porAdmin>>

-----------------------------------------------------------------------------
\* reconcileOnce.
Rank(status) ==
  CASE status = "printed_unconfirmed" -> 0
    [] status = "prepared"            -> 1
    [] status = "dispatch_started"    -> 2

Visiting(a, j, status) ==
  /\ pc[a] = "conciliar"
  /\ j \in todo[a] /\ mem[a][j] = status
  /\ \A k \in todo[a] : Rank(status) <= Rank(mem[a][k])

\* isResolvedForJournal
Resolved(a, j) ==
  job[j].estado \in {"pendiente", "impreso", "fallido"} \/ ~Owns(a, j)

\* completePrintedRecord
CompletePrinted(a, j) ==
  /\ Visiting(a, j, "printed_unconfirmed")
  /\ \E ok \in BOOLEAN :
       /\ Ask("complete", a, j, ok)
       /\ Proceed(a, IF ok THEN "quitarImpreso" ELSE "consultarImpreso", j)
  /\ UNCHANGED <<mem, disk, copias, porAdmin>>

\* A mutant: a refused complete is retried for ever.
MutCheckPrinted(a, j) ==
  /\ At(a, "consultarImpreso", j)
  /\ \E ok \in BOOLEAN : AskStatus(a, ok) /\ NextRecord(a, j)
  /\ UNCHANGED <<mem, disk, copias, porAdmin>>

CheckPrinted(a, j) ==
  /\ At(a, "consultarImpreso", j)
  /\ \E ok \in BOOLEAN :
       /\ AskStatus(a, ok)
       /\ IF ok /\ Resolved(a, j) THEN Proceed(a, "quitar", j) ELSE NextRecord(a, j)
  /\ UNCHANGED <<mem, disk, copias, porAdmin>>

\* removeJournal inside the try: a failed write falls into its catch.
RemoveCompleted(a, j) ==
  /\ At(a, "quitarImpreso", j)
  /\ \E wrote \in BOOLEAN :
       /\ Write(a, j, "none", wrote)
       /\ IF wrote THEN NextRecord(a, j) ELSE Proceed(a, "consultarImpreso", j)
  /\ UNCHANGED <<queue, papel, late, copias, porAdmin>>

\* removeJournal elsewhere: a failed write is thrown.
Remove(a, j) ==
  /\ At(a, "quitar", j)
  /\ \E wrote \in BOOLEAN :
       /\ Write(a, j, "none", wrote)
       /\ IF wrote THEN NextRecord(a, j) ELSE Abort(a)
  /\ UNCHANGED <<queue, papel, late, copias, porAdmin>>

\* recoverPrepared, up to qz.prepare.  What it read of the job is acted on
\* after the awaits that follow, so it is remembered in the step.
RecoverPrepared(a, j) ==
  /\ Visiting(a, j, "prepared")
  /\ \E ok \in BOOLEAN :
       /\ AskStatus(a, ok)
       /\ \/ (~ok \/ (job[j].estado = "asignado" /\ ~Resolved(a, j))) /\ NextRecord(a, j)
          \/ ok /\ Resolved(a, j) /\ Proceed(a, "quitar", j)
          \/ /\ ok /\ ~Resolved(a, j) /\ job[j].estado = "imprimiendo"
             /\ Proceed(a, IF HasLiveLease(j) THEN "prepararEnRango" ELSE "quitar", j)
          \/ /\ ok /\ ~Resolved(a, j) /\ job[j].estado = "confirmacion_pendiente"
             /\ Proceed(a, "prepararTrasBarrera", j)
  /\ UNCHANGED <<mem, disk, copias, porAdmin>>

RecoverPrepare(a, j) ==
  /\ \/ At(a, "prepararEnRango", j)
        /\ \/ Proceed(a, "cruzarRecuperado", j)
           \/ Proceed(a, "fallarRecuperado", j)
     \/ At(a, "prepararTrasBarrera", j)
        /\ \/ Proceed(a, "despachar", j)
           \/ NextRecord(a, j)
  /\ UNCHANGED <<queue, papel, mem, disk, late, faults, copias, porAdmin>>

RecoverFail(a, j) ==
  /\ At(a, "fallarRecuperado", j)
  /\ \E ok \in BOOLEAN :
       /\ Ask("fail", a, j, ok)
       /\ IF ok THEN Proceed(a, "quitar", j) ELSE NextRecord(a, j)
  /\ UNCHANGED <<mem, disk, copias, porAdmin>>

RecoverCross(a, j) ==
  /\ At(a, "cruzarRecuperado", j)
  /\ \E ok \in BOOLEAN :
       /\ Ask("confirmationPending", a, j, ok)
       /\ IF ok THEN Proceed(a, "despachar", j) ELSE NextRecord(a, j)
  /\ UNCHANGED <<mem, disk, copias, porAdmin>>

\* A dispatched record: only somebody else's resolution ends it.
CheckDispatched(a, j) ==
  /\ Visiting(a, j, "dispatch_started")
  /\ \E ok \in BOOLEAN :
       /\ AskStatus(a, ok)
       /\ IF ok /\ Resolved(a, j) THEN Proceed(a, "quitar", j) ELSE NextRecord(a, j)
  /\ UNCHANGED <<mem, disk, copias, porAdmin>>

-----------------------------------------------------------------------------
\* claimAndProcess: the claim.  A job of seenJobIds is ignored.
ClaimNext(a) ==
  /\ pc[a] = "conciliar" /\ todo[a] = {}
  /\ UNCHANGED <<mem, disk, copias, porAdmin>>
  /\ \E j \in Jobs :
       \/ /\ Ask("claim", a, j, TRUE)
          /\ j \notin seen[a]
          /\ Goto(a, "imprimiendo", j)
          /\ seen' = [seen EXCEPT ![a] = @ \cup {j}]
          /\ UNCHANGED todo
       \/ /\ Ask("claim", a, j, TRUE)
          /\ j \in seen[a]
          /\ (Abort(a) \/ Iterate(a))
       \/ /\ faults < MaxFaults /\ Ask("claim", a, j, FALSE)
          /\ faults' # faults
          /\ Abort(a)

\* An empty claim ends the drain, unless a signal set claimPending meanwhile.
\* A revoked agent's claim throws.
ClaimNothing(a) ==
  /\ pc[a] = "conciliar" /\ todo[a] = {}
  /\ \A j \in Jobs : ~CanClaim(a, j)
  /\ UNCHANGED <<queue, papel, mem, disk, late, faults, copias, porAdmin>>
  /\ \/ Abort(a)
     \/ a \in activos /\ Iterate(a)

\* processJob
StartPrinting(a, j) ==
  /\ At(a, "imprimiendo", j)
  /\ \E ok \in BOOLEAN :
       /\ Ask("printing", a, j, ok)
       /\ IF ok THEN Proceed(a, "preparar", j) ELSE Abort(a)
  /\ UNCHANGED <<mem, disk, copias, porAdmin>>

\* qz.prepare and markPrepared share a try.
Prepare(a, j) ==
  /\ At(a, "preparar", j)
  /\ \/ Proceed(a, "fallar", j) /\ UNCHANGED <<mem, disk, faults>>
     \/ \E wrote \in BOOLEAN :
          /\ Write(a, j, "prepared", wrote)
          /\ Proceed(a, IF wrote THEN "cruzar" ELSE "fallar", j)
  /\ UNCHANGED <<queue, papel, late, copias, porAdmin>>

ReportFailure(a, j) ==
  /\ At(a, "fallar", j)
  /\ \E ok \in BOOLEAN : Ask("fail", a, j, ok)
  /\ UNCHANGED <<mem, disk, copias, porAdmin>>
  /\ Iterate(a)

CrossBarrier(a, j) ==
  /\ At(a, "cruzar", j)
  /\ UNCHANGED <<mem, disk, copias, porAdmin>>
  /\ \E ok \in BOOLEAN :
       /\ Ask("confirmationPending", a, j, ok)
       /\ IF ok THEN Proceed(a, "despachar", j) ELSE Iterate(a)

\* The renewTimer of processJob; its errors are swallowed.
Renew(a, j) ==
  /\ At(a, "preparar", j) \/ At(a, "fallar", j) \/ At(a, "cruzar", j)
  /\ Ask("renew", a, j, TRUE) \/ (faults < MaxFaults /\ Ask("renew", a, j, FALSE) /\ faults' # faults)
  /\ UNCHANGED <<agentVars, copias, porAdmin>>

-----------------------------------------------------------------------------
\* A mutant: the dispatch is noted in memory only.
DispatchInMemory(a, j) ==
  /\ At(a, "despachar", j)
  /\ mem' = [mem EXCEPT ![a][j] = "dispatch_started"]
  /\ Proceed(a, "firmar", j)
  /\ UNCHANGED <<queue, papel, disk, late, faults, copias, porAdmin>>

\* dispatchPrepared
Dispatch(a, j) ==
  /\ At(a, "despachar", j)
  /\ \E wrote \in BOOLEAN :
       /\ Write(a, j, "dispatch_started", wrote)
       /\ IF wrote THEN Proceed(a, "firmar", j) ELSE Abort(a)
  /\ UNCHANGED <<queue, papel, late, copias, porAdmin>>

\* QZ Tray asks for the signature of the print call before it prints; without
\* one qz.print rejects.
Sign(a, j) ==
  /\ At(a, "firmar", j)
  /\ UNCHANGED <<mem, disk, copias, porAdmin>>
  /\ \E ok \in BOOLEAN :
       /\ Ask("sign", a, j, ok)
       /\ IF ok THEN Proceed(a, "imprimirQz", j) ELSE Iterate(a)

\* qz.print resolves after printing, or rejects with the copy out or not.
QzPrint(a, j) ==
  /\ At(a, "imprimirQz", j)
  /\ UNCHANGED <<queue, mem, disk, late, faults, porAdmin>>
  /\ \/ /\ copias' = [copias EXCEPT ![j] = @ + 1]
        /\ papel' = [papel EXCEPT ![j] = @ \cup {a}]
        /\ Proceed(a, "marcarImpreso", j) \/ Iterate(a)
     \/ UNCHANGED <<copias, papel>> /\ Iterate(a)

MarkPrinted(a, j) ==
  /\ At(a, "marcarImpreso", j)
  /\ \E wrote \in BOOLEAN :
       /\ Write(a, j, "printed_unconfirmed", wrote)
       /\ IF wrote THEN Proceed(a, "completar", j) ELSE Abort(a)
  /\ UNCHANGED <<queue, papel, late, copias, porAdmin>>

Complete(a, j) ==
  /\ At(a, "completar", j)
  /\ UNCHANGED <<mem, disk, copias, porAdmin>>
  /\ \E ok \in BOOLEAN :
       /\ Ask("complete", a, j, ok)
       /\ IF ok THEN Proceed(a, "quitarCompleto", j) ELSE Iterate(a)

RemoveFinished(a, j) ==
  /\ At(a, "quitarCompleto", j)
  /\ \E wrote \in BOOLEAN : Write(a, j, "none", wrote)
  /\ UNCHANGED <<queue, papel, late, copias, porAdmin>>
  /\ Iterate(a)

-----------------------------------------------------------------------------
\* A crash and the restart of the service: stateStore.init reads the file.
Crash(a) ==
  /\ pc[a] # "idle" \/ mem[a] # disk[a]
  /\ Fault
  /\ Abort(a)
  /\ mem' = [mem EXCEPT ![a] = disk[a]]
  /\ UNCHANGED <<queue, papel, disk, late, copias, porAdmin>>

\* The rest of the world: the shop floor, the administrator, time.
MarkPrintedByAdmin(j) ==
  /\ ResolvePrinted(j)
  /\ porAdmin' = porAdmin \cup {j}
  /\ UNCHANGED <<papel, agentVars, late, faults, copias>>

Environment ==
  /\ \/ \E j \in Jobs : Enqueue(j) \/ ResolveNotPrinted(j) \/ BackoffElapses(j)
     \/ \E a \in Agents : Revoke(a)
  /\ UNCHANGED <<papel, agentVars, late, faults, copias, porAdmin>>

\* A tick of a job's lease also ages the requests under way for that job.
Aged(r, j) ==
  IF r.trabajo = j THEN [r EXCEPT !.edad = Least(LeaseTicks, @ + 1)] ELSE r

TimePasses(j) ==
  /\ LeaseTick(j)
  /\ late' = {Aged(r, j) : r \in late}
  /\ UNCHANGED <<papel, agentVars, faults, copias, porAdmin>>

Work(a, j) ==
  \/ CompletePrinted(a, j) \/ CheckPrinted(a, j) \/ RemoveCompleted(a, j) \/ Remove(a, j)
  \/ RecoverPrepared(a, j) \/ RecoverPrepare(a, j) \/ RecoverFail(a, j) \/ RecoverCross(a, j)
  \/ CheckDispatched(a, j)
  \/ StartPrinting(a, j) \/ Prepare(a, j) \/ ReportFailure(a, j) \/ CrossBarrier(a, j)
  \/ Dispatch(a, j) \/ Sign(a, j) \/ QzPrint(a, j) \/ MarkPrinted(a, j)
  \/ Complete(a, j) \/ RemoveFinished(a, j)

Step(a) == StartDrain(a) \/ ClaimNext(a) \/ ClaimNothing(a) \/ \E j \in Jobs : Work(a, j)

SystemNext ==
  \/ \E a \in Agents : Step(a) \/ Crash(a) \/ \E j \in Jobs : Renew(a, j)
  \/ \E r \in late : DeliverLate(r)
  \/ \E j \in Jobs : MarkPrintedByAdmin(j) \/ TimePasses(j)
  \/ Environment

SystemSpec == SystemInit /\ [][SystemNext]_systemVars

\* What the code's scheduling guarantees: run() polls for ever and every await
\* of a drain returns (requests time out after 15 s), leases and backoffs run
\* on the database's clock.  Nobody is obliged to crash, print or administer.
Fairness ==
  /\ \A a \in Agents : WF_systemVars(Step(a))
  /\ \A j \in Jobs : WF_systemVars(TimePasses(j))
                   /\ WF_systemVars(Environment /\ BackoffElapses(j))

FairSpec == SystemSpec /\ Fairness

-----------------------------------------------------------------------------
\* Every variable has its type; an agent with a job in hand is in its flow.
SystemTypeOK ==
  /\ TypeOK
  /\ pc \in [Agents -> Steps]
  /\ cur \in [Agents -> Jobs \cup {NoJob}]
  /\ todo \in [Agents -> SUBSET Jobs] /\ seen \in [Agents -> SUBSET Jobs]
  /\ mem \in [Agents -> [Jobs -> Journal]] /\ disk \in [Agents -> [Jobs -> Journal]]
  /\ late \subseteq LateRequest /\ faults \in 0..MaxFaults
  /\ copias \in [Jobs -> Nat] /\ papel \in [Jobs -> SUBSET Agents]
  /\ porAdmin \subseteq Jobs
  /\ \A a \in Agents : (cur[a] = NoJob) <=> pc[a] \in {"idle", "conciliar"}

\* The point of the barrier, the journal and the signatures together: whatever
\* is lost, late or crashes, a job comes out of the printers at most once, plus
\* once for each time an administrator declared it not printed.
NoUnorderedCopy == \A j \in Jobs : copias[j] <= requeues[j] + 1

\* 'impreso' is never a guess: unless an administrator vouched for it, a copy
\* came out (a complete is only ever sent after qz.print resolved).
CompletionMeansPrinted ==
  \A j \in Jobs : job[j].estado = "impreso" /\ j \notin porAdmin => copias[j] >= 1

\* The local journal is a barrier of its own: while the queue still waits for
\* the outcome of a copy an agent printed, the agent's FILE says that it was
\* dispatched, so a restart asks for the outcome and never dispatches again.
JournalBeforePaper ==
  \A a \in Agents, j \in Jobs :
    (a \in papel[j] /\ job[j].estado = "confirmacion_pendiente" /\ Owns(a, j))
      => disk[a][j] \in {"dispatch_started", "printed_unconfirmed"}

\* What a job's state says of its document.
FaseDe(estado) ==
  CASE estado = "ausente"                   -> "ausente"
    [] estado \in {"pendiente"} \cup Leased -> "abierta"
    [] estado = "confirmacion_pendiente"    -> "incierta"
    [] estado = "impreso"                   -> "impresa"
    [] estado = "fallido"                   -> "fallida"

\* The system implements PrintContract: no interleaving, loss, delay or crash
\* reopens a document past the barrier without an administrator, authorises it
\* before the barrier, closes it unprinted or prints without authorisation.
Contract == INSTANCE PrintContract WITH
  fase      <- [j \in Jobs |-> FaseDe(job[j].estado)],
  aperturas <- [j \in Jobs |-> requeues[j] + 1],
  permisos  <- grants

ContractSpec == Contract!Spec

\* A job that reached the queue is printed, fails, waits for an administrator
\* past the barrier or sits on its last attempt with the lease gone, unless
\* every agent was revoked.
Exhausted(j) ==
  job[j].estado \in Leased /\ job[j].lease = 0 /\ job[j].intentos = job[j].maxIntentos

JobsSettle ==
  \A j \in Jobs :
    job[j].estado = "pendiente" ~>
      \/ job[j].estado \in {"impreso", "fallido", "confirmacion_pendiente"}
      \/ Exhausted(j)
      \/ activos = {}

\* A copy the agent knows it printed is eventually reported or resolved: the
\* confirmation is retried from the journal as often as it takes.  (Except of
\* a job requeued meanwhile whose last lease then ran out: nothing ends that.)
PrintedIsReported ==
  \A a \in Agents, j \in Jobs :
    mem[a][j] = "printed_unconfirmed" ~>
      mem[a][j] # "printed_unconfirmed" \/ a \notin activos \/ Exhausted(j)
=============================================================================
