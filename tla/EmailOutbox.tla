---------------------------- MODULE EmailOutbox ----------------------------
(***************************************************************************)
(* The outbox of close-of-till e-mails (cajas_cierres_notificaciones_email)*)
(* and the worker that every backend replica runs over it                  *)
(* (cajaCloseEmailOutboxService and jobs/cajaCloseEmailOutboxWorker).      *)
(*                                                                         *)
(* A replica claims a batch of rows in one transaction and then sends them *)
(* one after another outside it, each from the copy of the row the claim   *)
(* returned.  The claim's lock (bloqueado_hasta) lasts 120 s from the      *)
(* claim; nothing renews it and nothing checks it when the outcome of a    *)
(* send is written.                                                        *)
(***************************************************************************)
EXTENDS Naturals, FiniteSets

CONSTANTS
  Replicas,     \* backend processes
  Rows,         \* closes of a till, one notification each
  NoRow,
  MaxAttempts,  \* MAX_ATTEMPTS: recorded failures before FALLIDO
  BatchSize,    \* CAJA_CLOSE_EMAIL_OUTBOX_BATCH_SIZE
  MaxRetries,   \* model bound: retries an administrator asks for
  MaxFaults     \* model bound: crashes, failed writes, slow batches, answers lost

ASSUME OutboxAssumption ==
  /\ NoRow \notin Rows
  /\ IsFiniteSet(Replicas)
  /\ MaxAttempts \in Nat \ {0} /\ BatchSize \in Nat \ {0}
  /\ MaxRetries \in Nat /\ MaxFaults \in Nat

VARIABLES
  row,      \* the table; estado "ausente" before the close commits
  batch,    \* per replica, claimed rows it has still to finish, itself included
  snap,     \* per replica and row, the intentos its claim returned
  current,  \* per replica, the row being sent
  outcome,  \* per replica, what the send it is in came to
  retries, faults,
  correos,  \* history: messages delivered for each row
  fallos,   \* history: failures recorded for each row
  ambiguos, \* history: deliveries whose send was reported as failed
  vencidos  \* history: times a claim's lock passed before its outcome was written

replicaVars == <<batch, snap, current, outcome>>
history     == <<correos, fallos, ambiguos, vencidos>>
vars        == <<row, replicaVars, retries, faults, history>>

-----------------------------------------------------------------------------
Estados == {"ausente", "PENDIENTE", "PROCESANDO", "ENVIADO", "REINTENTO", "FALLIDO"}

\* lock is bloqueado_hasta: "libre" for NULL, otherwise whether it has passed.
Row == [estado : Estados, intentos : 0..MaxAttempts,
        lock : {"libre", "vigente", "vencido"}, vencida : BOOLEAN]

Init ==
  /\ row = [c \in Rows |-> [estado |-> "ausente", intentos |-> 0,
                            lock |-> "libre", vencida |-> FALSE]]
  /\ batch = [r \in Replicas |-> {}]
  /\ snap = [r \in Replicas |-> [c \in Rows |-> 0]]
  /\ current = [r \in Replicas |-> NoRow]
  /\ outcome = [r \in Replicas |-> "none"]
  /\ retries = 0
  /\ faults = 0
  /\ correos = [c \in Rows |-> 0]
  /\ fallos = [c \in Rows |-> 0]
  /\ ambiguos = [c \in Rows |-> 0]
  /\ vencidos = [c \in Rows |-> 0]

Fault == faults < MaxFaults /\ faults' = faults + 1

Holders(c) == {r \in Replicas : c \in batch[r]}

-----------------------------------------------------------------------------
\* The close commits together with its notification; the retry handler also
\* creates the one of a close that has none.
Create(c) ==
  /\ row[c].estado = "ausente"
  /\ row' = [row EXCEPT ![c] = [@ EXCEPT !.estado = "PENDIENTE", !.vencida = TRUE]]
  /\ UNCHANGED <<replicaVars, retries, faults, history>>

\* reintentar-correo: a super administrator starts a FALLIDO row over.
Retry(c) ==
  /\ row[c].estado = "FALLIDO"
  /\ retries < MaxRetries /\ retries' = retries + 1
  /\ row' = [row EXCEPT ![c] = [estado |-> "REINTENTO", intentos |-> 0,
                                lock |-> "libre", vencida |-> TRUE]]
  /\ UNCHANGED <<replicaVars, faults, history>>

LockBlindClaimable(c) ==      \* a mutant: forgets bloqueado_hasta <= NOW()
  row[c].estado \in {"PENDIENTE", "REINTENTO", "PROCESANDO"}

StuckClaimable(c) ==          \* a mutant: forgets the rows left PROCESANDO
  row[c].estado \in {"PENDIENTE", "REINTENTO"} /\ row[c].vencida

Claimable(c) ==
  \/ row[c].estado \in {"PENDIENTE", "REINTENTO"} /\ row[c].vencida
  \/ row[c].estado = "PROCESANDO" /\ row[c].lock = "vencido"

\* The claim transaction of one tick; the advisory lock and SKIP LOCKED make
\* it atomic, a row another statement holds may be left out.  A tick starts
\* only when the previous one has finished.
Claim(r, S) ==
  /\ batch[r] = {} /\ S # {}
  /\ \A c \in S : Claimable(c)
  /\ batch' = [batch EXCEPT ![r] = S]
  /\ snap' = [snap EXCEPT ![r] = [c \in Rows |-> IF c \in S THEN row[c].intentos ELSE @[c]]]
  /\ row' = [c \in Rows |-> IF c \in S THEN [row[c] EXCEPT !.estado = "PROCESANDO",
                                                           !.lock = "vigente"]
                                       ELSE row[c]]
  /\ UNCHANGED <<current, outcome, retries, faults, history>>

\* The batch goes on with one of the rows RETURNING gave, in no set order.
Begin(r, c) ==
  /\ current[r] = NoRow /\ c \in batch[r]
  /\ current' = [current EXCEPT ![r] = c]
  /\ UNCHANGED <<row, batch, snap, outcome, retries, faults, history>>

\* sendCajaCloseEmailFromOutbox.  The message may go out and the call still
\* fail (the SMTP answer is lost).
SendOk(r) ==
  /\ current[r] # NoRow /\ outcome[r] = "none"
  /\ outcome' = [outcome EXCEPT ![r] = "enviado"]
  /\ correos' = [correos EXCEPT ![current[r]] = @ + 1]
  /\ UNCHANGED <<row, batch, snap, current, retries, faults, fallos, ambiguos, vencidos>>

SendFails(r) ==
  /\ current[r] # NoRow /\ outcome[r] = "none"
  /\ outcome' = [outcome EXCEPT ![r] = "fallo"]
  /\ UNCHANGED <<row, batch, snap, current, retries, faults, history>>

SendAnswerLost(r) ==
  /\ current[r] # NoRow /\ outcome[r] = "none" /\ Fault
  /\ outcome' = [outcome EXCEPT ![r] = "fallo"]
  /\ correos' = [correos EXCEPT ![current[r]] = @ + 1]
  /\ ambiguos' = [ambiguos EXCEPT ![current[r]] = @ + 1]
  /\ UNCHANGED <<row, batch, snap, current, retries, fallos, vencidos>>

\* The batch goes on with the next row; or the write of the outcome, or its
\* answer, is lost: the promise returned from inside the try block rejects
\* the whole batch and the rows not reached stay PROCESANDO.
Conclude(r) ==
  /\ \/ batch' = [batch EXCEPT ![r] = @ \ {current[r]}] /\ UNCHANGED faults
     \/ batch' = [batch EXCEPT ![r] = {}] /\ Fault
  /\ current' = [current EXCEPT ![r] = NoRow]
  /\ outcome' = [outcome EXCEPT ![r] = "none"]
  /\ UNCHANGED <<snap, retries>>

EagerMarkSent(r) ==           \* a mutant: marks the row before the send has answered
  /\ current[r] # NoRow
  /\ row' = [row EXCEPT ![current[r]] = [@ EXCEPT !.estado = "ENVIADO", !.lock = "libre"]]
  /\ Conclude(r)
  /\ UNCHANGED history

\* markCajaCloseEmailNotificationSent: by id only, whatever the row has become.
MarkSent(r) ==
  /\ outcome[r] = "enviado"
  /\ row' = [row EXCEPT ![current[r]] = [@ EXCEPT !.estado = "ENVIADO", !.lock = "libre"]]
  /\ Conclude(r)
  /\ UNCHANGED history

HastyFailed(copia) ==         \* a mutant: counts the attempt about to be made
  [estado |-> IF copia + 2 >= MaxAttempts THEN "FALLIDO" ELSE "REINTENTO",
   intentos |-> copia + 1, lock |-> "libre", vencida |-> FALSE]

\* What markCajaCloseEmailNotificationFailed writes, counting on from the copy
\* of intentos that the claim returned.
Failed(copia) ==
  [estado |-> IF copia + 1 >= MaxAttempts THEN "FALLIDO" ELSE "REINTENTO",
   intentos |-> copia + 1, lock |-> "libre", vencida |-> FALSE]

MarkFailed(r) ==
  /\ outcome[r] = "fallo"
  /\ row' = [row EXCEPT ![current[r]] = Failed(snap[r][current[r]])]
  /\ fallos' = [fallos EXCEPT ![current[r]] = @ + 1]
  /\ Conclude(r)
  /\ UNCHANGED <<correos, ambiguos, vencidos>>

\* The replica stops, or the write of the outcome never takes effect.
AbortBatch(r) ==
  /\ batch[r] # {} /\ Fault
  /\ batch' = [batch EXCEPT ![r] = {}]
  /\ current' = [current EXCEPT ![r] = NoRow]
  /\ outcome' = [outcome EXCEPT ![r] = "none"]
  /\ UNCHANGED <<row, snap, retries, history>>

\* bloqueado_hasta passes: after a while for a row nobody works on any more;
\* while its replica is still in the batch only if the batch is slow.
LockExpires(c) ==
  /\ row[c].lock = "vigente"
  /\ IF Holders(c) = {} THEN UNCHANGED faults ELSE Fault
  /\ row' = [row EXCEPT ![c] = [@ EXCEPT !.lock = "vencido"]]
  /\ vencidos' = [vencidos EXCEPT ![c] = @ + 1]
  /\ UNCHANGED <<replicaVars, retries, correos, fallos, ambiguos>>

\* proximo_intento arrives.
BackoffElapses(c) ==
  /\ row[c].estado = "REINTENTO" /\ ~row[c].vencida
  /\ row' = [row EXCEPT ![c] = [@ EXCEPT !.vencida = TRUE]]
  /\ UNCHANGED <<replicaVars, retries, faults, history>>

SomeClaim(r) == \E S \in SUBSET Rows : Cardinality(S) <= BatchSize /\ Claim(r, S)
Send(r)      == SendOk(r) \/ SendFails(r) \/ SendAnswerLost(r)
Work(r)      == (\E c \in Rows : Begin(r, c)) \/ Send(r) \/ MarkSent(r) \/ MarkFailed(r)

Next ==
  \/ \E c \in Rows : Create(c) \/ Retry(c) \/ LockExpires(c) \/ BackoffElapses(c)
  \/ \E r \in Replicas : SomeClaim(r) \/ Work(r) \/ AbortBatch(r)

Spec == Init /\ [][Next]_vars

\* The worker ticks for ever (runTickCycle reschedules itself after a success
\* and after a failure), a batch that has begun goes on, and time passes.
\* Nothing says that an SMTP server ever accepts a message.
Fairness ==
  /\ \A r \in Replicas : WF_vars(SomeClaim(r)) /\ WF_vars(Work(r))
  /\ \A c \in Rows : WF_vars(BackoffElapses(c)) /\ WF_vars(Holders(c) = {} /\ LockExpires(c))

FairSpec == Spec /\ Fairness

-----------------------------------------------------------------------------
\* A replica sends only rows it has claimed, and has an outcome only for a row
\* it is sending.
TypeOK ==
  /\ row \in [Rows -> Row]
  /\ batch \in [Replicas -> SUBSET Rows]
  /\ snap \in [Replicas -> [Rows -> 0..(MaxAttempts - 1)]]
  /\ current \in [Replicas -> Rows \cup {NoRow}]
  /\ outcome \in [Replicas -> {"none", "enviado", "fallo"}]
  /\ \A r \in Replicas : current[r] = NoRow \/ current[r] \in batch[r]
  /\ \A r \in Replicas : outcome[r] # "none" => current[r] # NoRow
  /\ retries \in 0..MaxRetries /\ faults \in 0..MaxFaults
  /\ correos \in [Rows -> Nat] /\ fallos \in [Rows -> Nat]
  /\ ambiguos \in [Rows -> Nat] /\ vencidos \in [Rows -> Nat]

\* An e-mail goes out twice only for a reason one can name: for every copy
\* beyond the first, either a send that delivered was reported as failed, or a
\* lock passed before its holder wrote the outcome.  In particular retries
\* after real failures, a stale failure overwriting ENVIADO, and the
\* administrator's retry of a FALLIDO row never duplicate a mail by themselves.
MailBudget == \A c \in Rows : correos[c] <= 1 + ambiguos[c] + vencidos[c]

\* A row says ENVIADO only if a message for it really went out, whichever
\* replica wrote last.
SentMeansDelivered == \A c \in Rows : row[c].estado = "ENVIADO" => correos[c] > 0

\* A row is given up only after MAX_ATTEMPTS recorded failures, though stale
\* copies of intentos may be written over newer ones.
NeverGivesUpEarly == \A c \in Rows : row[c].estado = "FALLIDO" => fallos[c] >= MaxAttempts

\* However the replicas overwrite one another, no outcome is a lie: a
\* notification marked sent went out, one given up had its attempts.
OutcomesAreTrue == SentMeansDelivered /\ NeverGivesUpEarly

\* With finitely many faults every notification ends ENVIADO or FALLIDO and
\* stays there: none is left PROCESANDO by a crash, and no pair of replicas
\* keeps undoing each other's outcome.
Settles ==
  \A c \in Rows : <>[](row[c].estado \in {"ausente", "ENVIADO", "FALLIDO"})

\* The strengthening: every token that lets one more message out is counted.
\* A replica holding the row that has not delivered is one; so is a row that
\* can still be claimed.
Live(c) == {r \in Replicas : c \in batch[r] /\ ~(current[r] = c /\ outcome[r] = "enviado")}
Waiting(c) ==
  IF row[c].estado \in {"PROCESANDO", "ENVIADO"} /\ row[c].lock # "vencido" THEN 0 ELSE 1

Accounted ==
  \A c \in Rows : correos[c] + Cardinality(Live(c)) + Waiting(c) <= 1 + ambiguos[c] + vencidos[c]

\* A delivery that is about to be written did happen.
OutcomeIsTrue ==
  \A r \in Replicas : outcome[r] = "enviado" => correos[current[r]] > 0

\* No copy of intentos runs ahead of the failures recorded.
CopiesBehind ==
  \A c \in Rows : /\ row[c].intentos <= fallos[c]
                  /\ row[c].estado = "FALLIDO" => row[c].intentos >= MaxAttempts
                  /\ row[c].estado \notin {"FALLIDO", "ENVIADO"} => row[c].intentos < MaxAttempts
                  /\ \A r \in Replicas : snap[r][c] <= fallos[c]

IInv == TypeOK /\ Accounted /\ OutcomeIsTrue /\ SentMeansDelivered /\ CopiesBehind
=============================================================================
