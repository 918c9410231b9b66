# Formal models of the Jonny's backend

TLA+ specifications of the concurrent core of this repository: branch printing,
the two e-mail subsystems, the ledger and the administration of cash sessions,
the life of an order, loyalty points and purchases. Each component has a
specification, TLC configurations that check it on small instances and, where
marked, TLAPS proofs for every value of its constants. `PROJECT.json` maps every
definition to the source lines it models and lists the runs, the mutants, the
theorems and the hazards by line.

    tlc -workers 2 -config MCPrintQueue.cfg MCPrintQueue    # any run of PROJECT.json
    tlapm PrintProofs.tla                                   # any *Proofs module

## 1. The system

An Express/PostgreSQL backend for a restaurant chain (603 files). Handlers run
in one or several Node replicas; what they share is PostgreSQL. Beside them run
an outbox worker and a session cutoff in every web replica, a scheduler process
(campaigns, loyalty reconciliation), and one print agent per branch on the
shop's PC, which polls the backend and drives printers through QZ Tray.

| Component | State it keeps | Operations | What is hard | Correct when |
| --- | --- | --- | --- | --- |
| Print queue (`services/printQueue*`, `qzAgentSigningService`, `sql/2026-07-16...`) | rows of `trabajos_impresion`, agents, signatures | enqueue, claim, printing / confirmation-pending / complete / fail / renew, sign, resolve printed / not printed, revoke | leases that expire, several agents, caps on attempts | no job is lost to a cap, an agent's second lease needs an overlapping renewal, no unordered copy is authorised |
| Print agent (`print-agent/src`) | journal in memory and on disk, the running drain | drain, reconcile, process, dispatch | crashes, 15 s timeouts with effects that arrive later, failed journal writes, an administrator meanwhile | at most one copy per order, `impreso` is never a guess, a printed copy is reported |
| Close e-mail outbox (`cajaCloseEmailOutboxService`, its worker) | `cajas_cierres_notificaciones_email` | create with the close, claim batch, send, mark sent / failed, retry | several replicas, a lock that runs out under a slow batch, stale attempt counters, lost SMTP answers | one mail except for a nameable cause, outcomes are true, every row settles |
| E-mail campaigns (`emailCampaignService`, its scheduler) | campaign and recipient states | create, edit, schedule, send, retry, cancel, process | the audience replaced while a loop works on it, two loops at once, failed writes, crashes | one mail per address except for a nameable cause, `sent` is true, a cancellation holds |
| Cash ledger (`routers/cajas.js`, `routers/ventas.js`, `ventasReversionService`, financial lock) | sessions, invoices and their charges, reversals, movements, close reviews, closes, idempotency keys | sale, payment of a pending order or division, reversal, manual movement, review, close | READ COMMITTED transactions that check and then write, an advisory lock polled until a deadline, opposite lock orders, client retries | a closed session never changes, nothing is charged or returned twice, a retry has no second effect |
| Session administration (`routers/cajas.js`) | sessions, participants, assignments, closes, pay deductions | open, join, leave, assign, reassign, close, resolve | several handlers look for another session and then write; row locks with joined reads | nobody in two open sessions, a closed session has no team, pay follows the last decision |
| Order lifecycle and kitchen (`ventas.js`, `cocina.js`, `insumos.js`, `pedidoOperationalRoutingService`) | `estado_pedido`, `estado_pago`, payment window, stock movements | create, confirm, expire, advance, cook, discount, charge, reverse | two clocks, sweeps that lock many rows, partial reversals before and after cooking | stock is taken once and never over-returned, what was settled stays settled |
| Loyalty (`modules/fidelizacion`, `fidelizacionService`) | accumulation row per invoice, balance, debt, in-memory queues and cursor | reserve with the charge, accumulate, reconcile, redeem, reverse | crash between the 201 and the accumulation, full queue, two processes, an invoice that always fails | points once, judged by the moment of the payment, no credit beside a debt, no invoice left behind |
| Purchases (`solicitudesCompra*`, `capturasCompraRapida*`) | requests, captures, evidence rows, images in object storage | create, approve, reject, upload, remove, receive; draft, discard, send, formalise | rows and images without a common transaction, retries with and without a key | goods enter once, nothing received without invoice, storage and rows agree |
| Purchase-order workflow (`ordenes_compra_workflow.js`), inventory, billing documents | tables | transitions, movements, numbering | row locks | not modelled |
| Security, catalogues, menu, payroll, reports | tables | CRUD, queries, rendering | little control flow | not modelled |

How they meet: a sale or a payment enqueues a print job after it commits; a
close inserts its outbox row in its own transaction; payments and reversals
share orders, invoices and the financial lock of the session with the close;
charges reserve the loyalty accumulation in their transaction; reversals take
back stock and points; the kitchen and the inventory endpoint take stock of the
same order. The agent and the queue meet over HTTP, the administrator acts on the
queue behind the agent's back, and QZ Tray asks the backend for a signature in
the middle of a print.

The hazards, each at its line with the properties that cover it, are in
`PROJECT.json`. The worst of them, in short: a request that takes effect after
its client gave up; a crash between paper and journal, or between an image and
its row; a status read before an await and used after it; a lock that expires
under its holder; a snapshot read before and written after somebody else's
commit; a check made before the lock that should protect it; a row that is
re-read after a wait while what was joined to it is not; a lock cycle the
database cannot see.

## 2. Modules

| Module | Models | Builds on |
| --- | --- | --- |
| `PrintQueue` | the backend half of printing, any agent asking anything at any time | - |
| `PrintSystem` | the queue with its agents, journals, QZ Tray, network and crashes | EXTENDS `PrintQueue` |
| `PrintContract` | what printing promises, without machines | refined by `PrintSystem` |
| `PrintProofs` | the theorems of both and the two refinements | `PrintSystem` |
| `EmailOutbox`, `EmailOutboxProofs` | outbox and workers | - |
| `EmailCampaign`, `EmailCampaignProofs` | one campaign, its requests and the scheduler | - |
| `CashLedger`, `CashLedgerProofs` | transactions on the money of the sessions | - |
| `CashSessions`, `CashSessionsProofs` | who is in which session, assignments, resolutions | - |
| `OrderLifecycle`, `OrderLifecycleProofs` | an order from its creation to its reversal | - |
| `Loyalty`, `LoyaltyProofs` | the account of one customer | - |
| `Purchases`, `PurchasesProofs` | purchase requests, quick captures and their images | - |
| `MC*` | instances for TLC | the module they name |

Definitions whose comment calls them a mutant are not part of a
specification: each is a plausible bug of the definition it names, and shows that
a property would notice it.

### PrintQueue

`job[j]` is the row of `trabajos_impresion`, one branch only (every statement
filters on the agent's branch). `lease` counts ticks to `lease_expires_at`,
`disponible` is `disponible_at <= now()`. Each HTTP request is one transaction on
a row locked FOR UPDATE, hence one action, taken at its COMMIT: `Enqueue`, `Claim`
(the SQL function; SKIP LOCKED makes any claimable row a possible choice),
`Transition(op, ...)` with the code's table of rules (`FromStates`, `NextState`,
`NeedsLease`), `SignPrint`, `ResolvePrinted`, `ResolveNotPrinted`, and the operator's manual
revocation of an agent (`Revoke`), which only the middleware looks at. `LeaseTick`
and `BackoffElapses` are time. `signed`, `requeues` and `grants` hold the
signature rows and two histories. The state `cancelado`, which the table's
CHECK allows, is written by no code and left out.

What is not atomic in a transition is its clock. `now()` stands still from BEGIN,
so the request judges the old lease and stamps the new one by a moment that may lie
before the lease ran out, while it commits after. `Transition` takes how far the
lease ran down in between (`edad`, any value: any agent may have begun any request
at any time). The claim reads the agent's *other* rows without a lock; a renewal not
committed yet is not seen, which is the order claim, then late renewal. So an agent
may have two live leases, and `tardios` records the jobs whose lease came that way:
`SecondLeaseNeedsOverlap`. The claim itself may be taken at its commit: an older
clock takes more leases for live and fewer rows for claimable, and a shorter lease
is a fresh one after some ticks. Each lease runs down on its own and the time past
its end is not counted, so more clocks are possible than one.

### PrintSystem

It EXTENDS the queue; its own initial states, steps and specification are
`SystemInit`, `SystemNext` and `SystemSpec` (with fairness, `FairSpec`).
Each agent is a program counter over `runner.js`; every `await` is a step. `mem`
and `disk` are the journal in memory and in the file: `stateStore.upsert` changes
memory first, so a failed write leaves them apart (`Write`). `Ask` is a request
with its four fates: answered, refused, lost before, or effective with the answer
lost - now, or later (`late`, `DeliverLate`), after the client's
`AbortSignal.timeout(15000)`. `recoverPrepared` remembers in its step what it read
before `qz.prepare`. An awaited request is taken with `edad` 0: its commit moves to
the left over the ticks, because only a claim of the same agent would read the lease
meanwhile, and that agent waits. A late request carries the ticks since it was sent
(`TimePasses` ages it), a renewal of the timer left in flight being one of them.
`Crash` restarts the agent from the file. Faults draw on
`MaxFaults`. Signals (WebSocket) only set `claimPending`: `ClaimNothing` may end
the drain or go round again. `ClaimNext`'s second disjunct is the job of
`seenJobIds` that the agent ignores. Without a bound on a drain's iterations
(`MAX_DRAIN_ITERATIONS`, 25) more behaviours are possible than in the code, so
what holds for the safety properties holds there too.

`PrintContract` knows documents, orders to print, signatures and paper. The
refinement maps the seven job states to five phases; `ContractSpec` is checked
as a property of every run of the module. `NoUnorderedCopy` and
`CompletionMeansPrinted` are what the contract says of copies and of `impreso`;
they follow from `ContractSpec` and are not run of their own.

### EmailOutbox

`row` is the table (`lock` is `bloqueado_hasta`: NULL, in force or passed). A
replica claims a batch in one transaction (`Claim`) and works through it from the
copies RETURNING gave (`snap`), one row at a time (`Begin`, `Send*`, `MarkSent`,
`MarkFailed`). Outcomes are written by id only, so a slow replica overwrites what
another wrote; `MarkFailed` counts on from its stale copy. A failed outcome
write rejects the whole batch (`Conclude`, `AbortBatch`). Four histories count
deliveries, recorded failures, deliveries reported as failures and expired locks.

### EmailCampaign

One campaign, because no statement spans two. Every statement is a transaction
of its own except the edit (which replaces the recipients, so that rows are told
apart by `gen`). A claim is an UPDATE on the status; whoever got it reads its list
once (`lista`) and writes each outcome by the id of the row. A program counter
(`paso`) per request and for the scheduler's tick separates the reads of
`retryFailed` from its claim, the send from the write of its outcome, and the
summary from the write that closes the campaign. Failed writes, lost SMTP answers
and crashes draw on `MaxFallos`. The histories name the causes a duplicate may
have: deliveries nobody recorded, retries beside a running loop, edits of a
campaign that had started.

### CashLedger

A request runs a plan: the locks and reads of its handler in source order
(`VentaPlan` ... `CerrarPlan`), then one commit. Locks last to the end of the
transaction, so the locks held are those of the steps behind (`Held`). Reads are
remembered (`foto`) or implied by the step passed; nothing but a lock keeps them
true until the commit, which is exactly what has to be shown. `Timeout` is the
deadline of the polled financial lock; every other wait is a row lock. `Reject` is
a failed check, including a key already used (replay or conflict). Money is
abstracted to what the properties tell apart: which invoices were charged in
which session (`cobro`), how many of their units were returned (`reversado`), how
many manual movements a session has; `Foto` is the function of these that the
close snapshot and its fingerprint compute. The correlative number's row lock is
left out: it is always the last lock taken, so it orders commits and adds no
cycle. Sessions start open and requests have already been authorised.

### CashSessions

A request holds a set of locks (`tiene`): advisory locks of users, rows of
assignments, sessions and closes. Its writes are applied at the commit. The locks
of several users are taken in ascending order (`TomarGuarda`), as
`assertUsersNotInAnotherOpenSession` sorts them; what is read before a lock is
kept in the request (`aux`, `vio`). A handler that only needs an open session
starts with `TomarSesion` and chooses afterwards what it does. A failed check, an
error and the victim of a deadlock all end in `Deshacer`.
`Resolver`/`TomarCierre` model one detail of PostgreSQL: SELECT ... FOR UPDATE OF
one table of a join, under READ COMMITTED, reads the locked row again after a wait
and keeps the old rows of the other tables. A close resolved meanwhile no longer
joins with the resolution the statement saw first, its code is NULL, and the
check lets the request pass (finding 6). Statements that do the same with an
INNER JOIN lose the row instead, which is safe: `ensureOpenSession` answers 404.

Of the payroll there is what a resolution writes for its close: the row that links
close and movement, with the movement's estado (`deduccion`). It is looked for in one
step (`BuscarDeduccion`) and written with the resolution at the commit
(`ConfirmarResolucion`), so that only the lock of the close keeps two resolutions
apart: without it the second would find no deduction and leave the first's active.

### OrderLifecycle

Requests that lock one order first are one step; those that lock several rows or
read before they lock (the board's listing, confirm-pago, the till's and the
kitchen's change of state, the inventory endpoint) go step by step, with the
sweep of expired orders row after row (`ExpirarFila`) inside the same
transaction, so that a `Rollback` undoes the sweep. `candado` is the row lock;
`AbortarVictima` is PostgreSQL's deadlock detector. The payment window is read on
two clocks (`Date.now()` in the handler, `NOW()` in the sweep): `tarde` lets them
disagree. `Revertir` needs the movement it undoes and brings back up to all that
was reversed so far (`Objetivo`), what an earlier reversal left included; its
`nulo` is the joined state that is lost when a reversal waited for the row (as
above). `preparado` is `en_preparacion_at`, which only the kitchen's step into
EN_PREPARACION sets; that an order was started at all, by the kitchen's direct
step to ready or by the till, is the history `iniciado`, `crudo` what was returned
before it, and `ciega` marks an order with a reversal that saw neither state nor
time of a started order (finding 8b), the one exception of `ReturnedIsNotCooked`.
An order's recipe stands for one row of the unique index (order, line, store,
ingredient): any row the index refuses undoes the whole discount.

### Loyalty

Charging reserves a row with the eligibility of that moment (`Snapshot`); a note
to the bounded in-memory queue follows and may be lost. Both processes work an
invoice in one transaction under its lock in two steps, `Decidir` and its
commit. The scheduler's tick lists a batch behind its cursor, works it through a
queue of its own and advances the cursor (`Listar`, `Concluir`). Redemptions and
reversals move `saldo` and `deuda` in between.

`Corregir` stands for what the comments of `resolveEffectiveAccumulationContext.js`
expect and no handler under `src/` does: after the charge an invoice or its order
gets another customer, branch, order or date, or loses its customer. A recorded
snapshot wins whole and fills what is missing (`Contexto`); one that the invoice now
contradicts ends as SKIPPED_TERMINAL without points (`Contradice`,
ACCUMULATION_CONTEXT_MISMATCH), and so does an invoice with no customer in either
(`Registro`, MISSING_REQUIRED_DATA; the reconciliation does not even list it).
`JudgedAsPaid` therefore reads: points only for what was earned at the payment, and
what was earned is refused only to an invoice that was corrected against its
snapshot. `NoneLeftBehind` excepts the invoice that lost its customer before any
snapshot was on record.

### Purchases

The image store and the tables are separate variables (`guardado`, `factura`). A
request takes its row (`Tomar`, `TomarRecepcion`), stores its image (`Guardar`;
`GuardarSinRespuesta` when the storage answers with an error but kept it), and
commits or rolls back; cleaning up is a step per image that may fail (`Limpiar`)
or never happen (`Caer`). `Concluye(perdida)` is a COMMIT whose answer is lost.
Submissions either reserve a key or take the advisory lock of their content
(`Reservar`).

## 3. Runs

Every run finishes within four minutes on two workers. Deadlock checking is off
where the system may legitimately stop (every job settled, all mail sent, bounds
used up); `CashLedger` always has another request to begin and checks it.

| Run | Question | Instance and why it is enough |
| --- | --- | --- |
| `print_queue` | is the queue right whatever agents do? | 2 agents, 2 jobs, cap 3 over default 2, leases of 2 ticks, 2 requeues: expiry, exhaustion, the CHECK's cap and re-assignment all happen |
| `print_system_agents` | competing agents | 2 agents, 1 job, leases of 2 ticks, 1 requeue, 1 fault: a stale owner meets a new one after a late request or a crash, and a late renewal revives a lease |
| `print_system_faults` | repeated faults; does the job settle? | fair; 1 agent, 3 faults, 2 requeues: lost answer + crash + failed write in one life of a job |
| `email_outbox` | duplicates and lies; does it settle? | fair; 2 replicas, 2 rows, batches of 2, 2 attempts, 1 retry, 2 faults |
| `email_campaigns` | duplicates, false outcomes, cancellations, campaigns left open | fair; 2 addresses, 2 requests and the scheduler, 2 claims, 1 edit, 1 fault: a retry beside a running loop, an edit between check and write |
| `cash_ledger` | atomicity | 2 connections, 2 sessions, all six operations, a direct sale of 2 units (so partial reversals) and a division, 3 keys (so retries), a movement and a review: a close can meet the other session's review, its own stale one, or a spent one |
| `cash_ledger_live` | the lock cycle | fair; 2 connections, payments and reversals of a split order: the smallest instance where one waits for the other crosswise |
| `cash_sessions` | exclusion by advisory locks | 2 connections, 2 tills, 2 users of whom one is a super-admin, 2 sessions: both openings, additions and assignments of one user meet, and two resolutions of one close |
| `orders` | stock, reversals and settled states | 2 connections, all five operations, one order (cooked or not, eaten on the premises or not) of 2 units, so two partial reversals, before and after it is started |
| `orders_sweep` | do sweeps and confirmations end? | fair; 2 orders that expire, 2 connections: the smallest cycle of row locks |
| `loyalty` | once, as judged, and none left behind | fair; 3 invoices (one direct sale and two divisions of one account), one that always fails, a queue of 1, batches of 2, 1 fault, 1 correction |
| `purchases` | idempotency, and rows against storage | 2 connections, 2 requests, 1 capture, a key and the keyless submission, 1 upload key, 2 reception keys, 2 images, 1 fault |

Bounds that are not the code's: `MaxRequeues`, `MaxFaults`, `LeaseTicks`, `MaxRetries`, `MaxMovs`,
`MaxEnvios`, `MaxEdiciones`, `Corregibles`, `MaxFallos`, `MaxCreados`, `MaxObjetos`, the sets
`Mostrador` and `Operaciones`, and the guards of `Fits` (requests arrive only
while their rows fit in the instance). The safety properties are closed under
them: each is about what has happened so far. `Limite` of `Loyalty` is the code's
batch limit: `NoneLeftBehind` needs it larger than the number of invoices that
fail for ever (finding 9).

### Fairness

- `PrintSystem`: weak fairness of each agent's step (`run` polls for ever, every
  await returns: requests time out) and of time. None for crashes, the
  administrator, the printer or late deliveries.
- `EmailOutbox`: the worker reschedules itself after success and failure; weak
  fairness of claiming, of working on a batch, and of time. No fairness makes a
  send succeed.
- `EmailCampaign`: weak fairness of a loop once it runs (every await returns).
  Nothing makes anybody start, retry or cancel; `Closes` excepts the campaign
  whose process died, because nothing claims it again.
- `CashLedger`: strong fairness of each connection's progress. PostgreSQL queues
  the waiters of a row lock, so a lock that is free again and again is had; a
  poll either gets the financial lock or runs into its deadline. Weak fairness
  would let a third client starve a waiter, which the queue does not allow.
- `OrderLifecycle`: for the same reason strong fairness of what waits for a row
  (`ExpirarFila`, `Tomar`), weak fairness of the rest of a request and of the
  deadlock detector.
- `Loyalty`: strong fairness of `Decidir`, which waits for the lock of an invoice
  that PostgreSQL hands on in order; weak fairness of queue work, of the
  scheduler's tick and of the end of the grace period.

### Findings

What the models showed the code to do against a comment, a message or a document,
or against its evident intent.

1. *Printing.* A lease that expires on the last attempt is never recovered: the
   claim requires `intentos < max_intentos` (`sql/2026-07-16...:156`);
   `docs/branch-print-agent.md:120` says the next claim recovers it. "Si ya conserva
   un lease activo, no se toma un segundo trabajo" (`sql/2026-07-16...:140`) holds of
   what the claim sees; a renewal that commits after it (`printQueueService.js:297`)
   leaves the agent with two live leases. `SecondLeaseNeedsOverlap` says that nothing
   else does.
2. A drain can be handed a job it already processed (its backoff passes within the
   drain); `runner.js:233` says the RPC never should. It costs an attempt and a
   lease.
3. *Outbox.* Two replicas can work on one row (120 s lock, sequential batch, no
   renewal), against the comment at `OUTBOX_ADVISORY_LOCK_KEY`
   (`cajaCloseEmailOutboxService.js:32`). `MailBudget` bounds the consequence.
4. *Ledger.* Split account: one division is returned whole and the order cancelled
   (`ventasReversionService.js:641`: "se cancela el pedido y se anula el pago");
   paying the last division then overwrites PAGO_ANULADO of the cancelled order
   with PAGADO_CONFIRMADO (`ventas.js:4534`, `10095`).
5. Reversal after the close: `docs/reglas_negocio_ventas.md:483` sends it to the
   open session, `ventasReversionSessionService.js:148` refuses it; the one-hour
   limit of lines 477-478 has no counterpart.
6. *Resolution of a close.* Two administrators who resolve one close at once both
   succeed: the check at `cajas.js:5541` ("El cierre ya tiene una resolucion final
   registrada") sees NULL when the request waited for the row (`CashSessions`,
   above). The deduction entered for the close follows the last decision
   (`PayFollowsDecision`), the net pay stored in the payroll does not always: taking a
   deduction back (`cajas.js:1385`) calls no `fn_recalcular_detalle_planilla` and asks
   for no editable payroll, so the net keeps it until something else recalculates; and
   two resolutions of two closes of one person each recalculate from a sum without the
   other's deduction, the later write leaving one out of the net. Neither the stored
   sums nor the payroll's own annulments of a movement (which leave the close's row
   active) are modelled.
7. *Tills.* Two openings of one till by different people (a contingency of a
   super-admin beside a normal opening, or a reassignment between two openings)
   both find no open session (`cajas.js:4587`) and insert one, unless an index
   exists that the repository does not contain. auto-auxiliar (6117) puts a
   super-admin into any number of sessions. An assignment can be deactivated while
   its till is being opened (4395). Openings take the user's lock before the
   session's row, participants and assignments after it: PostgreSQL may abort one
   of them (40P01, answered as 500).
8. *Orders.* (a) An order can reach EN_PREPARACION by the till's endpoint, a bare
   UPDATE that takes nothing from stock (`ventas.js:7311`), although
   `docs/reglas_negocio_ventas.md:141` requires the discount exactly there.
   (b) A reversal that waits while the order moves on reads no state and, as neither
   the till's UPDATE nor the kitchen's step from EN_COCINA to ready sets
   `en_preparacion_at`, treats a started order as not started
   (`ventasReversionEligibilityService.js:32`) and returns its ingredients, those an
   earlier reversal rightly kept included. `ReturnedIsNotCooked` says that nothing
   else does.
   (c) confirm-pago's own timeout (`ventas.js:7081`) leaves the order PENDIENTE
   with CANCELADO_TIMEOUT: the sweep never cancels it and it may still go to the
   kitchen. (d) A rejection rolls back the expirations of its own transaction.
   (e) Neither the till nor the kitchen looks at `estado_pago`, so an unpaid order
   can be cooked, against `docs/reglas_negocio_ventas.md:247`; registrar-pago looks
   at `pedidos_pago_control` alone. (f) Lines 140 and 266 of that document do not
   match `ventas.js:8908` and the reversal of an order in preparation. (g) The
   index that makes the discount unique comes from a migration marked "No ejecutar
   sin revisar"; without it the `BlindIndex` mutant is the program.
9. *Loyalty.* (a) In a divided account only the payment of the last division
   reserves and notifies (`ventas.js:10094`); the others depend on the
   reconciliation. (b) A reversal counts what it may still recover from its REVERSO
   movements and not from the debt it created
   (`ventasReversionFidelizacionService.js:169`), so repeated partial reversals may
   recover more than was granted. (c) The cursor stays before an invoice that
   always fails; with as many of them as the batch limit nothing behind is
   reconciled. (d) An invoice reversed whole before its accumulation is credited
   afterwards. (e) `fidelizacionQueue.js:1-7` speaks of one job at a time, but the
   web process and the scheduler each have a queue; the lock of the invoice is what
   holds.
10. *Campaigns.* An edit may replace the audience of a campaign claimed meanwhile;
    two loops may work on one campaign after a retry, and the slower one may mark a
    sent campaign failed; a crash leaves PROCESSING for ever; an aborted loop leaves
    recipients PENDING; a failed write of SENT makes a delivered row FAILED.
11. *Purchases.* A COMMIT whose answer is lost removes the image of a committed
    row, so a request may be RECIBIDA with no viewable invoice; an upload to a
    request that errors after storing leaves an orphan (captures clean it up); a
    keyless repetition may be answered with a request rejected meanwhile; a keyed
    and a keyless submission of the same content make two requests; the upload key
    of a removed invoice is free again.

## 4. Proofs

Proved by TLAPS for every value of the constants that satisfies the named
ASSUMEs of the modules (which TLC evaluates in the runs):

**PrintProofs**, the queue (assumes `ConstantsAssumption`). `IInv` = types, an attempt
left on every unclaimed row, the cause of a second live lease, and the copy budget.
`SecondLeaseNeedsOverlap` is inductive with the types because a renewal needs a lease
that lived when it began: either it still lives, or the renewal was late.
`PendingIsClaimable` needs `UnclaimedHasAttempt`, which also speaks of rows not yet
enqueued. `SignaturesWithinRequeues` is not inductive: a second signature is
excluded only because, while the budget is used up, the job is past the barrier
and its owner has signed - that is `CopyBudget`. `NoTheft` follows from one step.

**PrintProofs**, the whole (assumes `SystemAssumption` too). `JournalBeforePaper` and
`NoUnorderedCopy` are not inductive; `SystemIInv` adds what the agents rely on:

- `CopyAccounting`: the copies that came out and those QZ Tray may be making
  (`Printing`, the agents at `imprimirQz`) together have their signatures. Signing
  buys a place, printing gives it up; with `CopyBudget` this bounds the copies.
- `PrintedKnown`: whoever says that a job was printed - the journal in memory or in
  the file, an agent on its way to report it, a `complete` whose client gave up
  long ago - says it of a job with a copy. Hence `CompletionMeansPrinted`.
- `JournalSafe`: a copy whose outcome the queue waits for (`Awaited`) is recorded as
  dispatched in memory and in the file; the record is there before QZ Tray is asked;
  and the steps that clear or overwrite a record are reached only when the queue
  does not wait. The crash is where memory and file must both say it.

A step has two sides, and each action's lemma joins them. `Serves` says what the
backend may do meanwhile: signatures only grow, no step but the agent's own
printing starts an `Awaited`, a job becomes `impreso` only with a copy or an
administrator's word. `AgentStep` says what an agent must respect in its journal;
`TalkStep`, `WriteStep`, `AskStep` and `StatusStep` are its instances. The lemmas
also conclude `Effect`, what the step does to the queue and to paper, and the two
refinements are read off it: `QueueImplemented` (`SystemSpec => Spec`, so every
theorem of the queue holds of the system) and `ContractImplemented`
(`SystemSpec => ContractSpec`): a crossing is `Cruzar`, a signature `Autorizar` (by
`CopyBudget`), a copy `Imprimir` (by `CopyAccounting`), a `complete` `Confirmar` (by
`PrintedKnown`), a last failure `Fallar`, the administrator's two words
`DarPorImpresa` and `Reabrir`; claims, printing, renewals, retries, crashes and the
journal stutter.

**EmailOutboxProofs** (assumes `OutboxAssumption`). `MailBudget` is proved by
accounting: `Accounted` counts, per row, the mails sent, the replicas that may
still send one (`Live`) and whether another may claim it (`Waiting`); every step
keeps the sum within the faults recorded. `CopiesBehind` says no copy of
`intentos` runs ahead of the recorded failures, which gives `OutcomesAreTrue`.

**CashLedgerProofs** (assumes `LedgerAssumption`). The argument is two-phase
locking. `LockExclusion`: two transactions never hold the same resource.
From it, what each check established stays true until its transaction ends:
`OpenUnderLock` (the session), `SnapshotUnderLock` (snapshot and review),
`BalanceUnderLock` (division and balance), `KeyUnderLock` (idempotency key),
because whoever could change it must hold the same lock. The invariants of the
ledger follow at each commit: `ClosedLedgerFrozen`, `CloseWasReviewed`,
`NoOverReversal`, and the action properties `PaidOnce`, `OneEffectPerKey`,
`ReplaySurvivesClose`. The last one is about an order of checks: a reversal gets
to the state check only with its key reserved, so a committed one never does.

**CashSessionsProofs** (assumes `CashSessionsAssumption`, `NadaIsNoCode`). The
same argument on two kinds of lock. `Bueno` says what a request relies on: an
opening that has checked its team holds the lock of each of them, and its cashiers
are in no open session; who works on a session holds its row, and it is open. A
step that takes locks keeps this by `RequestStep`, a step that writes by
`DataStep`, which asks that it close only a session it holds, put into one only a
cashier whose lock it holds and change only a close it holds. Who resolves a close
holds it from the check on, so the deduction it found is still the one there when it
commits (`ResolucionBuena`). `NobodyInTwoTills`, `TeamEndsWithSession` and
`PayFollowsDecision` follow at each commit. Super-admins are no part of it:
`AutoAuxiliar` takes no lock.

**OrderLifecycleProofs** (assumes `OrderAssumption`). A request is good when what
it names exists (`Aims`), the rows it expired are locked and still expirable
(`Sweeps`), and the order it decides on is locked and as it was read (`Decides`);
an order is good when what came back to stock was taken, returned and not started
(`OrderGood`). A whole return is a sum of partial ones, so its clauses speak of
`entradas` and not of one reversal, and `ReturnedIsNotCooked` needs that the
history of the start agrees with the state and the times kept (`Told`): a started
order leaves the started states only when it is returned whole. `DiscountedOnce` rests on the unique index,
`SettledStays` on `Sweeps` and `Decides`.

**LoyaltyProofs** (assumes `LoyaltyAssumption`, `NadaIsNoRow`). What keeps two
processes from crediting one invoice is that a decision stays right until it is
written (`DecisionStands`), which needs that only one process holds the lock
(`LockExclusive`). `JudgedAsPaid` also needs that a reservation stays on record
with its eligibility and its context (`ReservedOnRecord`) and that a correction is
not taken back while a decision that rests on it is being written
(`ContextoStable`), and `ReconcileNeedsEvidence`, proved only here, that the
reconciliation credits nobody without a contact or a snapshot.

**EmailCampaignProofs** (assumes `CampaignAssumption`). `SentReachedAll` and
`CancelHolds` follow from `IInv`: nobody works on a campaign that has not started
(`NotStarted`), SENT is written of what was delivered and counted of what was
written. `DuplicatesHaveCause` is accounting again: per address, the mails that
left and those that may still leave (`Lists`, `Sends`, `Fresh`, `Unclaimed`,
`ByRetries`) stay within the causes named.

**PurchasesProofs** (assumes `PurchasesAssumption`). Two arguments meet. A request that
holds a row finds it at the COMMIT as it was when it took the lock (`Exclusion`,
`FilaBuena`), which gives `GoodsEnterOnce` (with `Entradas`, `Ordenes`: stock enters
with the state RECIBIDA and orders made of captures are counted by the captures
formalised), `OneRequestPerSubmission` (the lock of the content covers the check and
the insertion) and `ReceivedWithInvoice`. The storage is in no transaction, so an
image is either referred to by a row or in the hands of exactly one request that
still has to refer to it or remove it (`ImagenBuena`, `Unica`), and a new name is
nobody's (`Nuevas`); what a COMMIT with a lost answer leaves is named in the
history, which gives `StorageMatchesRows`. `SentIsFrozen` is an action property: a
COMMIT writes the invoices only of a row it holds in a state that was not sent.

Every safety property and every action property of the runs is proved, and the
refinement of `PrintContract`. The inductive invariants `IInv` and `SystemIInv` were
checked by TLC on instances of the size of the runs before they were proved; what
stays in a run is what they imply.

Only model-checked: all liveness (`JobsSettle`, `PrintedIsReported`, `Settles`,
`Closes`, `NoneLeftBehind`, `RequestsEnd`). The prover handles neither liveness under
fairness nor ENABLED, cannot use induction over data, and loses its SMT backend
next to RECURSIVE operators; no module here declares any.

## 5. Not modelled

- Of printing: the process lock, WebSocket transport, rendering, `printers.find`
  signatures, the inside of `qz.prepare`, `MAX_DRAIN_ITERATIONS`. A crash is one of the
  process: the journal is not fsynced, and what a power cut leaves of it is no part.
- Of the outbox: a row's failures are counted over its whole life, so after an
  administrator's retry "used up its attempts" includes those of before it.
- Of the purchases: one connection crashes at a time, never the whole process.
- Of both mails: the composition of mail and PDF (a failure there is a failed
  send), templates, the selection of an audience.
- Of the tills: creation and edition of a till (with its optional first assignment
  and opening), arqueos, incidents, roles, the edition of a close's observation.
- Of the ledger: discounts, the RPC modes of POST /ventas, sales split at the
  moment of sale, the cash movement of a reversal (the close's snapshot excludes
  it), amounts and rounding (`ventasReversionPaymentAllocationService`).
- Of orders: stations inside the kitchen, notes, traces per ingredient, stock
  levels.
- Of loyalty: which credits a redemption consumes, expiry of points, rules, a second
  correction of one invoice, and the account of the other customer an invoice may be
  moved to (the model follows one).
- Of the payroll: the stored sums, states of a payroll (a refused deduction is
  `Deshacer`), annulments by hand (finding 6).
- Of purchases: lines, prices, providers, conversions, and the whole of
  `ordenes_compra_workflow.js`.
- CRUD, reports and rendering (payroll, catalogues, menu, users), which make up
  most of the source: single-transaction writes with little control flow.
- The components listed `not_modelled` in `PROJECT.json`, each with its reason.

## 6. Plan

1. `ProcessLock` and `ClaimDrain`: the two small protocols of the agent left out
   of `PrintSystem`.
2. `PurchaseOrderWorkflow`, and the creation of a till with its first assignment.
3. `ReversionAllocation`: the allocation of cents as pure functions against a
   reference definition, bounded inputs.
