------------------------- MODULE EmailOutboxProofs -------------------------
(***************************************************************************)
(* What EmailOutbox promises for any number of replicas, rows, attempts    *)
(* and faults.  MailBudget is not inductive: whether another message can   *)
(* still go out depends on who holds the row and on whether anybody can    *)
(* claim it again.  Accounted counts those as tokens; every action either  *)
(* passes a token on, spends one, or is paid for by a lock that passed or  *)
(* an answer that was lost.                                                *)
(***************************************************************************)
EXTENDS EmailOutbox, FiniteSetTheorems, TLAPS

-----------------------------------------------------------------------------
\* The replicas that can still send a row form a finite set.
LEMMA LiveFinite ==
  ASSUME NEW c \in Rows
  PROVE  IsFiniteSet(Live(c)) /\ Cardinality(Live(c)) \in Nat
<1>1. IsFiniteSet(Replicas) BY OutboxAssumption
<1>2. Live(c) \subseteq Replicas BY DEF Live
<1> QED BY <1>1, <1>2, FS_Subset, FS_CardinalityType

\* Removing at least one element makes a finite set smaller by at least one.
LEMMA Smaller ==
  ASSUME NEW S, IsFiniteSet(S), NEW x \in S, NEW T, T \subseteq S \ {x}
  PROVE  IsFiniteSet(T) /\ Cardinality(T) \in Nat /\ Cardinality(S) \in Nat
         /\ Cardinality(T) + 1 <= Cardinality(S)
<1>1. IsFiniteSet(S \ {x}) /\ Cardinality(S \ {x}) = Cardinality(S) - 1
  BY FS_RemoveElement
<1>2. IsFiniteSet(T) /\ Cardinality(T) <= Cardinality(S \ {x})
  BY <1>1, FS_Subset
<1>3. Cardinality(T) \in Nat /\ Cardinality(S) \in Nat
  BY <1>2, FS_CardinalityType
<1> QED BY <1>1, <1>2, <1>3

\* A subset of a finite set has at most as many elements.
LEMMA NoLarger ==
  ASSUME NEW S, IsFiniteSet(S), NEW T, T \subseteq S
  PROVE  IsFiniteSet(T) /\ Cardinality(T) \in Nat /\ Cardinality(S) \in Nat
         /\ Cardinality(T) <= Cardinality(S)
BY FS_Subset, FS_CardinalityType

\* Adding one element makes a finite set larger by at most one.
LEMMA OneMore ==
  ASSUME NEW S, IsFiniteSet(S), NEW x, NEW T, T \subseteq S \cup {x}
  PROVE  IsFiniteSet(T) /\ Cardinality(T) \in Nat /\ Cardinality(S) \in Nat
         /\ Cardinality(T) <= Cardinality(S) + 1
<1>1. /\ IsFiniteSet(S \cup {x})
      /\ Cardinality(S \cup {x}) = Cardinality(S) \/ Cardinality(S \cup {x}) = Cardinality(S) + 1
  <2>1. CASE x \in S
    <3>1. S \cup {x} = S BY <2>1
    <3> QED BY <3>1
  <2>2. CASE x \notin S
    BY <2>2, FS_AddElement
  <2> QED BY <2>1, <2>2
<1>2. IsFiniteSet(T) /\ Cardinality(T) <= Cardinality(S \cup {x})
  BY <1>1, FS_Subset
<1>3. Cardinality(T) \in Nat /\ Cardinality(S) \in Nat
  BY <1>2, FS_CardinalityType
<1> QED BY <1>1, <1>2, <1>3

-----------------------------------------------------------------------------
LEMMA InitInvariant == Init => IInv
<1> SUFFICES ASSUME Init PROVE IInv OBVIOUS
<1>1. TypeOK
  BY OutboxAssumption DEF Init, TypeOK, Row, Estados
<1>2. Accounted
  <2> SUFFICES ASSUME NEW c \in Rows
               PROVE  correos[c] + Cardinality(Live(c)) + Waiting(c)
                        <= 1 + ambiguos[c] + vencidos[c]
    BY DEF Accounted
  <2>1. Live(c) = {} BY DEF Init, Live
  <2>2. Cardinality(Live(c)) = 0 BY <2>1, FS_EmptySet
  <2>3. Waiting(c) = 1 BY DEF Init, Waiting
  <2>4. correos[c] = 0 /\ ambiguos[c] = 0 /\ vencidos[c] = 0 BY DEF Init
  <2> QED BY <2>2, <2>3, <2>4
<1>3. OutcomeIsTrue /\ SentMeansDelivered
  BY DEF Init, OutcomeIsTrue, SentMeansDelivered
<1>4. CopiesBehind
  BY OutboxAssumption DEF Init, CopiesBehind
<1> QED BY <1>1, <1>2, <1>3, <1>4 DEF IInv


-----------------------------------------------------------------------------
\* What each action does to the table, row by row.
\* The effect of a claim.
LEMMA ClaimRows ==
  ASSUME TypeOK, NEW r \in Replicas, NEW S \in SUBSET Rows, Claim(r, S)
  PROVE  /\ row' \in [Rows -> Row]
         /\ \A c \in S : /\ row'[c].estado = "PROCESANDO" /\ row'[c].lock = "vigente"
                         /\ row'[c].intentos = row[c].intentos
                         /\ row[c].estado \in {"PENDIENTE", "REINTENTO", "PROCESANDO"}
                         /\ row[c].estado = "PROCESANDO" => row[c].lock = "vencido"
         /\ \A c \in Rows \ S : row'[c] = row[c]
<1> DEFINE new(c) == [row[c] EXCEPT !.estado = "PROCESANDO", !.lock = "vigente"]
<1>1. \A c \in Rows : row[c] \in Row BY DEF TypeOK
<1>2. row' = [c \in Rows |-> IF c \in S THEN new(c) ELSE row[c]] BY DEF Claim
<1>3. ASSUME NEW c \in Rows
      PROVE  /\ new(c) \in Row /\ new(c).estado = "PROCESANDO" /\ new(c).lock = "vigente"
             /\ new(c).intentos = row[c].intentos
  <2>1. row[c] \in Row BY <1>1
  <2> QED BY <2>1 DEF Row, Estados
<1>4. \A c \in S : /\ row[c].estado \in {"PENDIENTE", "REINTENTO", "PROCESANDO"}
                   /\ row[c].estado = "PROCESANDO" => row[c].lock = "vencido"
  BY DEF Claim, Claimable
<1> HIDE DEF new
<1> QED BY <1>1, <1>2, <1>3, <1>4

\* The effect of writing ENVIADO.
LEMMA SentRows ==
  ASSUME TypeOK, NEW r \in Replicas, MarkSent(r)
  PROVE  LET c == current[r] IN
         /\ c \in Rows /\ c \in batch[r]
         /\ row' \in [Rows -> Row]
         /\ row'[c].estado = "ENVIADO" /\ row'[c].lock = "libre"
         /\ row'[c].intentos = row[c].intentos
         /\ \A d \in Rows \ {c} : row'[d] = row[d]
<1> DEFINE c == current[r]
           new == [row[c] EXCEPT !.estado = "ENVIADO", !.lock = "libre"]
<1>1. c \in Rows /\ c \in batch[r] BY OutboxAssumption DEF MarkSent, TypeOK
<1>2. new \in Row /\ new.estado = "ENVIADO" /\ new.lock = "libre" /\ new.intentos = row[c].intentos
  <2>1. row[c] \in Row BY <1>1 DEF TypeOK
  <2> QED BY <2>1 DEF Row, Estados
<1>3. row' = [row EXCEPT ![c] = new] BY DEF MarkSent
<1>4. row \in [Rows -> Row] BY DEF TypeOK
<1> HIDE DEF new
<1> QED BY <1>1, <1>2, <1>3, <1>4

\* The effect of recording a failure.
LEMMA FailedRows ==
  ASSUME TypeOK, NEW r \in Replicas, MarkFailed(r)
  PROVE  LET c == current[r] IN
         /\ c \in Rows /\ c \in batch[r]
         /\ row' \in [Rows -> Row]
         /\ row'[c].intentos = snap[r][c] + 1 /\ row'[c].lock = "libre"
         /\ IF snap[r][c] + 1 >= MaxAttempts THEN row'[c].estado = "FALLIDO"
                                             ELSE row'[c].estado = "REINTENTO"
         /\ \A d \in Rows \ {c} : row'[d] = row[d]
<1> DEFINE c == current[r]
           new == Failed(snap[r][c])
<1>1. c \in Rows /\ c \in batch[r] BY OutboxAssumption DEF MarkFailed, TypeOK
<1>2. snap[r][c] \in 0..(MaxAttempts - 1) BY <1>1 DEF TypeOK
<1>3. /\ new \in Row /\ new.intentos = snap[r][c] + 1 /\ new.lock = "libre"
      /\ IF snap[r][c] + 1 >= MaxAttempts THEN new.estado = "FALLIDO" ELSE new.estado = "REINTENTO"
  BY <1>2, OutboxAssumption DEF Failed, Row, Estados
<1>4. row' = [row EXCEPT ![c] = new] BY DEF MarkFailed
<1>5. row \in [Rows -> Row] BY DEF TypeOK
<1> HIDE DEF new
<1> QED BY <1>1, <1>3, <1>4, <1>5

\* The effect of a close committing its notification.
LEMMA CreateRows ==
  ASSUME TypeOK, NEW c \in Rows, Create(c)
  PROVE  /\ row' \in [Rows -> Row]
         /\ row[c].estado = "ausente" /\ row'[c].estado = "PENDIENTE"
         /\ row'[c].intentos = row[c].intentos /\ row'[c].lock = row[c].lock
         /\ \A d \in Rows \ {c} : row'[d] = row[d]
<1> DEFINE new == [row[c] EXCEPT !.estado = "PENDIENTE", !.vencida = TRUE]
<1>1. row \in [Rows -> Row] /\ row[c] \in Row BY DEF TypeOK
<1>2. /\ new \in Row /\ new.estado = "PENDIENTE"
      /\ new.intentos = row[c].intentos /\ new.lock = row[c].lock
  BY <1>1 DEF Row, Estados
<1>3. row' = [row EXCEPT ![c] = new] /\ row[c].estado = "ausente" BY DEF Create
<1> HIDE DEF new
<1> QED BY <1>1, <1>2, <1>3

\* The effect of the administrator's retry.
LEMMA RetryRows ==
  ASSUME TypeOK, NEW c \in Rows, Retry(c)
  PROVE  /\ row' \in [Rows -> Row]
         /\ row[c].estado = "FALLIDO" /\ row'[c].estado = "REINTENTO"
         /\ row'[c].intentos = 0 /\ row'[c].lock = "libre"
         /\ \A d \in Rows \ {c} : row'[d] = row[d]
<1> DEFINE new == [estado |-> "REINTENTO", intentos |-> 0, lock |-> "libre", vencida |-> TRUE]
<1>1. row \in [Rows -> Row] BY DEF TypeOK
<1>2. /\ new \in Row /\ new.estado = "REINTENTO" /\ new.intentos = 0 /\ new.lock = "libre"
  BY OutboxAssumption DEF Row, Estados
<1>3. row' = [row EXCEPT ![c] = new] /\ row[c].estado = "FALLIDO" BY DEF Retry
<1> HIDE DEF new
<1> QED BY <1>1, <1>2, <1>3

\* The effect of a lock that passes, and of the backoff.
LEMMA ExpireRows ==
  ASSUME TypeOK, NEW c \in Rows, LockExpires(c)
  PROVE  /\ row' \in [Rows -> Row]
         /\ row[c].lock = "vigente" /\ row'[c].lock = "vencido"
         /\ row'[c].estado = row[c].estado /\ row'[c].intentos = row[c].intentos
         /\ \A d \in Rows \ {c} : row'[d] = row[d]
<1> DEFINE new == [row[c] EXCEPT !.lock = "vencido"]
<1>1. row \in [Rows -> Row] /\ row[c] \in Row BY DEF TypeOK
<1>2. /\ new \in Row /\ new.lock = "vencido"
      /\ new.estado = row[c].estado /\ new.intentos = row[c].intentos
  BY <1>1 DEF Row
<1>3. row' = [row EXCEPT ![c] = new] /\ row[c].lock = "vigente" BY DEF LockExpires
<1> HIDE DEF new
<1> QED BY <1>1, <1>2, <1>3

LEMMA BackoffRows ==
  ASSUME TypeOK, NEW c \in Rows, BackoffElapses(c)
  PROVE  /\ row' \in [Rows -> Row]
         /\ \A d \in Rows : /\ row'[d].lock = row[d].lock
                            /\ row'[d].estado = row[d].estado
                            /\ row'[d].intentos = row[d].intentos
<1> DEFINE new == [row[c] EXCEPT !.vencida = TRUE]
<1>1. row \in [Rows -> Row] /\ row[c] \in Row BY DEF TypeOK
<1>2. /\ new \in Row /\ new.lock = row[c].lock
      /\ new.estado = row[c].estado /\ new.intentos = row[c].intentos
  BY <1>1 DEF Row
<1>3. row' = [row EXCEPT ![c] = new] BY DEF BackoffElapses
<1> HIDE DEF new
<1> QED BY <1>1, <1>2, <1>3

-----------------------------------------------------------------------------
\* What the end of a row, or of the batch, does to the replica.
LEMMA ConcludeEffect ==
  ASSUME TypeOK, NEW r \in Replicas, Conclude(r)
  PROVE  /\ batch' \in [Replicas -> SUBSET Rows]
         /\ current' = [current EXCEPT ![r] = NoRow]
         /\ outcome' = [outcome EXCEPT ![r] = "none"]
         /\ current[r] \notin batch'[r]
         /\ \A q \in Replicas : batch'[q] \subseteq batch[q] /\ (q # r => batch'[q] = batch[q])
         /\ snap' = snap /\ retries' = retries /\ faults' \in 0..MaxFaults
<1>1. CASE batch' = [batch EXCEPT ![r] = @ \ {current[r]}] /\ UNCHANGED faults
  BY <1>1 DEF Conclude, TypeOK
<1>2. CASE batch' = [batch EXCEPT ![r] = {}] /\ Fault
  BY <1>2, OutboxAssumption DEF Conclude, TypeOK, Fault
<1> QED BY <1>1, <1>2 DEF Conclude

\* Every action keeps the types.
LEMMA TypeStep == TypeOK /\ CopiesBehind /\ [Next]_vars => TypeOK'
<1> SUFFICES ASSUME TypeOK, CopiesBehind, [Next]_vars PROVE TypeOK'
    OBVIOUS
<1> USE OutboxAssumption
<1>1. ASSUME NEW c \in Rows, Create(c) PROVE TypeOK'
  BY <1>1, CreateRows DEF Create, TypeOK, replicaVars, history
<1>2. ASSUME NEW c \in Rows, Retry(c) PROVE TypeOK'
  <2>1. row' \in [Rows -> Row] BY <1>2, RetryRows
  <2>2. retries' \in 0..MaxRetries BY <1>2 DEF Retry, TypeOK
  <2> QED BY <1>2, <2>1, <2>2 DEF Retry, TypeOK, replicaVars, history
<1>3. ASSUME NEW c \in Rows, LockExpires(c) PROVE TypeOK'
  <2>1. row' \in [Rows -> Row] BY <1>3, ExpireRows
  <2>2. faults' \in 0..MaxFaults BY <1>3 DEF LockExpires, Fault, TypeOK
  <2>3. vencidos' \in [Rows -> Nat] BY <1>3 DEF LockExpires, TypeOK
  <2> QED BY <1>3, <2>1, <2>2, <2>3 DEF LockExpires, TypeOK, replicaVars
<1>4. ASSUME NEW c \in Rows, BackoffElapses(c) PROVE TypeOK'
  BY <1>4, BackoffRows DEF BackoffElapses, TypeOK, replicaVars, history
<1>5. ASSUME NEW r \in Replicas, NEW S \in SUBSET Rows, Claim(r, S) PROVE TypeOK'
  <2>1. row' \in [Rows -> Row]
    BY <1>5, ClaimRows
  <2>2. \A c \in S : row[c].intentos \in 0..(MaxAttempts - 1)
    <3> SUFFICES ASSUME NEW c \in S PROVE row[c].intentos \in 0..(MaxAttempts - 1)
      OBVIOUS
    <3>1. row[c].estado \notin {"FALLIDO", "ENVIADO"} BY <1>5 DEF Claim, Claimable
    <3>2. row[c].intentos \in 0..MaxAttempts BY DEF TypeOK, Row
    <3> QED BY <3>1, <3>2 DEF CopiesBehind
  <2>3. snap' \in [Replicas -> [Rows -> 0..(MaxAttempts - 1)]]
    BY <1>5, <2>2, ZenonT(30) DEF Claim, TypeOK
  <2>4. batch[r] = {} /\ batch' = [batch EXCEPT ![r] = S]
    BY <1>5 DEF Claim
  <2>5. \A q \in Replicas : current'[q] = NoRow \/ current'[q] \in batch'[q]
    BY <1>5, <2>4 DEF Claim, TypeOK
  <2> QED BY <1>5, <2>1, <2>3, <2>4, <2>5, ZenonT(30) DEF Claim, TypeOK, history
<1>6. ASSUME NEW r \in Replicas, NEW c \in Rows, Begin(r, c) PROVE TypeOK'
  BY <1>6 DEF Begin, TypeOK, history
<1>7. ASSUME NEW r \in Replicas, SendOk(r) PROVE TypeOK'
  BY <1>7 DEF SendOk, TypeOK
<1>8. ASSUME NEW r \in Replicas, SendFails(r) PROVE TypeOK'
  BY <1>8 DEF SendFails, TypeOK, history
<1>9. ASSUME NEW r \in Replicas, SendAnswerLost(r) PROVE TypeOK'
  BY <1>9 DEF SendAnswerLost, Fault, TypeOK
<1>10. ASSUME NEW r \in Replicas, Conclude(r)
       PROVE  /\ batch' \in [Replicas -> SUBSET Rows]
              /\ snap' \in [Replicas -> [Rows -> 0..(MaxAttempts - 1)]]
              /\ current' \in [Replicas -> Rows \cup {NoRow}]
              /\ outcome' \in [Replicas -> {"none", "enviado", "fallo"}]
              /\ \A q \in Replicas : current'[q] = NoRow \/ current'[q] \in batch'[q]
              /\ \A q \in Replicas : outcome'[q] # "none" => current'[q] # NoRow
              /\ retries' \in 0..MaxRetries /\ faults' \in 0..MaxFaults
  <2>1. /\ batch' \in [Replicas -> SUBSET Rows]
        /\ current' = [current EXCEPT ![r] = NoRow]
        /\ outcome' = [outcome EXCEPT ![r] = "none"]
        /\ \A q \in Replicas : q # r => batch'[q] = batch[q]
        /\ snap' = snap /\ retries' = retries /\ faults' \in 0..MaxFaults
    BY <1>10, ConcludeEffect
  <2> QED BY <2>1 DEF TypeOK
<1>11. ASSUME NEW r \in Replicas, MarkSent(r) PROVE TypeOK'
  <2>1. Conclude(r) BY <1>11 DEF MarkSent
  <2>2. row' \in [Rows -> Row] BY <1>11, SentRows
  <2> QED BY <1>10, <1>11, <2>1, <2>2 DEF MarkSent, TypeOK, history
<1>12. ASSUME NEW r \in Replicas, MarkFailed(r) PROVE TypeOK'
  <2>1. Conclude(r) BY <1>12 DEF MarkFailed
  <2>2. row' \in [Rows -> Row] /\ current[r] \in Rows BY <1>12, FailedRows
  <2>3. fallos' \in [Rows -> Nat] BY <1>12, <2>2 DEF MarkFailed, TypeOK
  <2> QED BY <1>10, <1>12, <2>1, <2>2, <2>3 DEF MarkFailed, TypeOK
<1>13. ASSUME NEW r \in Replicas, AbortBatch(r) PROVE TypeOK'
  BY <1>13 DEF AbortBatch, Fault, TypeOK, history
<1>14. CASE UNCHANGED vars
  BY <1>14 DEF vars, TypeOK, replicaVars, history
<1> QED BY <1>1, <1>2, <1>3, <1>4, <1>5, <1>6, <1>7, <1>8, <1>9, <1>11, <1>12,
            <1>13, <1>14 DEF Next, SomeClaim, Work, Send

\* A delivery is never forgotten, so neither ENVIADO nor a pending "enviado" is
\* ever about nothing.
LEMMA TruthStep ==
  TypeOK /\ OutcomeIsTrue /\ SentMeansDelivered /\ [Next]_vars
    => OutcomeIsTrue' /\ SentMeansDelivered'
<1> SUFFICES ASSUME TypeOK, OutcomeIsTrue, SentMeansDelivered, [Next]_vars
             PROVE  OutcomeIsTrue' /\ SentMeansDelivered'
    OBVIOUS
<1> USE OutboxAssumption DEF OutcomeIsTrue, SentMeansDelivered
<1>1. ASSUME NEW c \in Rows, Create(c) PROVE OutcomeIsTrue' /\ SentMeansDelivered'
  BY <1>1, CreateRows DEF Create, replicaVars, history
<1>2. ASSUME NEW c \in Rows, Retry(c) PROVE OutcomeIsTrue' /\ SentMeansDelivered'
  BY <1>2, RetryRows DEF Retry, replicaVars, history
<1>3. ASSUME NEW c \in Rows, LockExpires(c) PROVE OutcomeIsTrue' /\ SentMeansDelivered'
  BY <1>3, ExpireRows DEF LockExpires, replicaVars
<1>4. ASSUME NEW c \in Rows, BackoffElapses(c) PROVE OutcomeIsTrue' /\ SentMeansDelivered'
  BY <1>4, BackoffRows DEF BackoffElapses, replicaVars, history
<1>5. ASSUME NEW r \in Replicas, NEW S \in SUBSET Rows, Claim(r, S)
      PROVE  OutcomeIsTrue' /\ SentMeansDelivered'
  <2>1. \A c \in Rows : row'[c].estado = "ENVIADO" => row[c].estado = "ENVIADO"
    BY <1>5, ClaimRows
  <2> QED BY <1>5, <2>1 DEF Claim, history
<1>6. ASSUME NEW r \in Replicas, NEW c \in Rows, Begin(r, c)
      PROVE  OutcomeIsTrue' /\ SentMeansDelivered'
  BY <1>6 DEF Begin, TypeOK, history
<1>7. ASSUME NEW r \in Replicas, SendOk(r)
      PROVE  OutcomeIsTrue' /\ SentMeansDelivered'
  BY <1>7 DEF SendOk, TypeOK
<1>8. ASSUME NEW r \in Replicas, SendFails(r)
      PROVE  OutcomeIsTrue' /\ SentMeansDelivered'
  BY <1>8 DEF SendFails, TypeOK, history
<1>9. ASSUME NEW r \in Replicas, SendAnswerLost(r)
      PROVE  OutcomeIsTrue' /\ SentMeansDelivered'
  BY <1>9 DEF SendAnswerLost, TypeOK
<1>10. ASSUME NEW r \in Replicas, Conclude(r), correos' = correos PROVE OutcomeIsTrue'
  BY <1>10, ConcludeEffect DEF TypeOK
<1>11. ASSUME NEW r \in Replicas, MarkSent(r)
       PROVE  OutcomeIsTrue' /\ SentMeansDelivered'
  <2>1. correos[current[r]] > 0 /\ correos' = correos /\ Conclude(r)
    BY <1>11 DEF MarkSent, history
  <2>2. SentMeansDelivered' BY <1>11, <2>1, SentRows
  <2> QED BY <1>10, <2>1, <2>2
<1>12. ASSUME NEW r \in Replicas, MarkFailed(r)
       PROVE  OutcomeIsTrue' /\ SentMeansDelivered'
  <2>1. correos' = correos /\ Conclude(r) BY <1>12 DEF MarkFailed
  <2>2. row'[current[r]].estado # "ENVIADO" BY <1>12, FailedRows
  <2>3. SentMeansDelivered' BY <1>12, <2>1, <2>2, FailedRows
  <2> QED BY <1>10, <2>1, <2>3
<1>13. ASSUME NEW r \in Replicas, AbortBatch(r)
       PROVE  OutcomeIsTrue' /\ SentMeansDelivered'
  BY <1>13 DEF AbortBatch, TypeOK, history
<1>14. CASE UNCHANGED vars
  BY <1>14 DEF vars, replicaVars, history
<1> QED BY <1>1, <1>2, <1>3, <1>4, <1>5, <1>6, <1>7, <1>8, <1>9, <1>11, <1>12,
            <1>13, <1>14 DEF Next, SomeClaim, Work, Send

\* Copies of intentos stay behind the failures recorded, and FALLIDO is written
\* only with the count at its limit.
LEMMA CopiesStep == TypeOK /\ CopiesBehind /\ [Next]_vars => CopiesBehind'
<1> SUFFICES ASSUME TypeOK, CopiesBehind, [Next]_vars PROVE CopiesBehind'
    OBVIOUS
<1> USE OutboxAssumption DEF CopiesBehind
<1>0. fallos \in [Rows -> Nat] BY DEF TypeOK
<1>1. ASSUME NEW c \in Rows, Create(c) PROVE CopiesBehind'
  BY <1>1, CreateRows DEF Create, replicaVars, history
<1>2. ASSUME NEW c \in Rows, Retry(c) PROVE CopiesBehind'
  BY <1>0, <1>2, RetryRows DEF Retry, replicaVars, history
<1>3. ASSUME NEW c \in Rows, LockExpires(c) PROVE CopiesBehind'
  BY <1>3, ExpireRows DEF LockExpires, replicaVars
<1>4. ASSUME NEW c \in Rows, BackoffElapses(c) PROVE CopiesBehind'
  BY <1>4, BackoffRows DEF BackoffElapses, replicaVars, history
<1>5. ASSUME NEW r \in Replicas, NEW S \in SUBSET Rows, Claim(r, S) PROVE CopiesBehind'
  <2>1. fallos' = fallos BY <1>5 DEF Claim, history
  <2>2. \A c \in Rows :
          /\ row'[c].intentos = row[c].intentos
          /\ \/ row'[c].estado = row[c].estado
             \/ row'[c].estado = "PROCESANDO" /\ row[c].estado \notin {"FALLIDO", "ENVIADO"}
    BY <1>5, ClaimRows
  <2>3. \A c \in Rows, q \in Replicas : snap'[q][c] \in {snap[q][c], row[c].intentos}
    BY <1>5 DEF Claim, TypeOK
  <2> QED BY <2>1, <2>2, <2>3
<1>6. ASSUME NEW r \in Replicas, NEW c \in Rows, Begin(r, c) PROVE CopiesBehind'
  BY <1>6 DEF Begin, history
<1>7. ASSUME NEW r \in Replicas, Send(r) PROVE CopiesBehind'
  BY <1>7 DEF Send, SendOk, SendFails, SendAnswerLost, history
<1>8. ASSUME NEW r \in Replicas, MarkSent(r) PROVE CopiesBehind'
  <2>1. fallos' = fallos /\ snap' = snap BY <1>8, ConcludeEffect DEF MarkSent, history
  <2> QED BY <1>8, <2>1, SentRows
<1>9. ASSUME NEW r \in Replicas, MarkFailed(r) PROVE CopiesBehind'
  <2> DEFINE c == current[r]
  <2>1. /\ c \in Rows /\ snap[r][c] \in 0..(MaxAttempts - 1)
        /\ snap[r][c] <= fallos[c] /\ fallos[c] \in Nat
    BY <1>0, <1>9, FailedRows DEF TypeOK
  <2>2. snap' = snap /\ fallos' = [fallos EXCEPT ![c] = fallos[c] + 1]
    BY <1>9, ConcludeEffect DEF MarkFailed
  <2>3. /\ row'[c].intentos = snap[r][c] + 1
        /\ IF snap[r][c] + 1 >= MaxAttempts THEN row'[c].estado = "FALLIDO"
                                            ELSE row'[c].estado = "REINTENTO"
        /\ \A d \in Rows \ {c} : row'[d] = row[d]
    BY <1>9, FailedRows
  <2> HIDE DEF c
  <2>4. fallos'[c] = fallos[c] + 1 /\ \A d \in Rows \ {c} : fallos'[d] = fallos[d]
    BY <1>0, <2>1, <2>2
  <2>5. \A d \in Rows, q \in Replicas : snap'[q][d] <= fallos'[d]
    <3>1. \A d \in Rows, q \in Replicas : snap[q][d] \in Nat /\ snap[q][d] <= fallos[d]
      BY DEF TypeOK
    <3> QED BY <1>0, <2>2, <2>4, <3>1
  <2>6. \A d \in Rows : /\ row'[d].intentos <= fallos'[d]
                        /\ row'[d].estado = "FALLIDO" => row'[d].intentos >= MaxAttempts
                        /\ row'[d].estado \notin {"FALLIDO", "ENVIADO"} => row'[d].intentos < MaxAttempts
    BY <2>1, <2>3, <2>4
  <2> QED BY <2>5, <2>6
<1>10. ASSUME NEW r \in Replicas, AbortBatch(r) PROVE CopiesBehind'
  BY <1>10 DEF AbortBatch, history
<1>11. CASE UNCHANGED vars
  BY <1>11 DEF vars, replicaVars, history
<1> QED BY <1>1, <1>2, <1>3, <1>4, <1>5, <1>6, <1>7, <1>8, <1>9, <1>10, <1>11
        DEF Next, SomeClaim, Work

\* The tokens of one row: no action makes the left side grow by more than what
\* it adds to the right side.
LEMMA AccountStep == TypeOK /\ Accounted /\ [Next]_vars => Accounted'
<1> SUFFICES ASSUME TypeOK, Accounted, [Next]_vars, NEW c \in Rows
             PROVE  (correos[c] + Cardinality(Live(c)) + Waiting(c) <= 1 + ambiguos[c] + vencidos[c])'
    BY DEF Accounted
<1> DEFINE Goal == correos'[c] + Cardinality(Live(c)') + Waiting(c)'
                     <= 1 + ambiguos'[c] + vencidos'[c]
<1>0. SUFFICES Goal OBVIOUS
<1>a. /\ correos[c] + Cardinality(Live(c)) + Waiting(c) <= 1 + ambiguos[c] + vencidos[c]
      /\ IsFiniteSet(Live(c)) /\ Cardinality(Live(c)) \in Nat
      /\ correos[c] \in Nat /\ ambiguos[c] \in Nat /\ vencidos[c] \in Nat
  BY LiveFinite DEF Accounted, TypeOK
<1>b. Waiting(c) \in {0, 1} /\ Waiting(c)' \in {0, 1} BY DEF Waiting
\* An action that neither delivers nor hands the row out.
<1>c. ASSUME Live(c)' \subseteq Live(c), Waiting(c)' <= Waiting(c),
             UNCHANGED <<correos, ambiguos, vencidos>>
      PROVE  Goal
  BY <1>a, <1>b, <1>c, NoLarger
<1>1. ASSUME NEW d \in Rows, Create(d) PROVE Goal
  <2>1. Live(c)' = Live(c) BY <1>1 DEF Create, Live, replicaVars
  <2>2. Waiting(c)' <= Waiting(c) BY <1>1, CreateRows DEF Waiting
  <2> QED BY <1>1, <1>c, <2>1, <2>2 DEF Create, history
<1>2. ASSUME NEW d \in Rows, Retry(d) PROVE Goal
  <2>1. Live(c)' = Live(c) BY <1>2 DEF Retry, Live, replicaVars
  <2>2. Waiting(c)' <= Waiting(c) BY <1>2, RetryRows DEF Waiting
  <2> QED BY <1>2, <1>c, <2>1, <2>2 DEF Retry, history
<1>3. ASSUME NEW d \in Rows, BackoffElapses(d) PROVE Goal
  <2>1. Live(c)' = Live(c) BY <1>3 DEF BackoffElapses, Live, replicaVars
  <2>2. Waiting(c)' <= Waiting(c) BY <1>3, BackoffRows DEF Waiting
  <2> QED BY <1>3, <1>c, <2>1, <2>2 DEF BackoffElapses, history
\* A lock that passes makes the row claimable once more, and is counted.
<1>4. ASSUME NEW d \in Rows, LockExpires(d) PROVE Goal
  <2>1. Live(c)' = Live(c) BY <1>4 DEF LockExpires, Live, replicaVars
  <2>2. correos' = correos /\ ambiguos' = ambiguos BY <1>4 DEF LockExpires
  <2>3. CASE d = c
    <3>1. vencidos'[c] = vencidos[c] + 1 BY <1>4, <2>3 DEF LockExpires, TypeOK
    <3> QED BY <1>a, <1>b, <2>1, <2>2, <3>1
  <2>4. CASE d # c
    <3>1. vencidos'[c] = vencidos[c] BY <1>4, <2>4 DEF LockExpires, TypeOK
    <3>2. Waiting(c)' = Waiting(c) BY <1>4, <2>4, ExpireRows DEF Waiting
    <3> QED BY <1>a, <1>b, <2>1, <2>2, <3>1, <3>2
  <2> QED BY <2>3, <2>4
\* A claim turns the token of a claimable row into that of a holder.
<1>5. ASSUME NEW r \in Replicas, NEW S \in SUBSET Rows, Claim(r, S) PROVE Goal
  <2>1. UNCHANGED <<correos, ambiguos, vencidos>> BY <1>5 DEF Claim, history
  <2>2. Live(c)' \subseteq Live(c) \cup (IF c \in S THEN {r} ELSE {})
    BY <1>5 DEF Live, Claim, TypeOK
  <2>3. CASE c \in S
    <3>1. Waiting(c) = 1 /\ Waiting(c)' = 0 BY <1>5, <2>3, ClaimRows DEF Waiting
    <3>2. Cardinality(Live(c)') \in Nat /\ Cardinality(Live(c)') <= Cardinality(Live(c)) + 1
      BY <1>a, <2>2, <2>3, OneMore
    <3> QED BY <1>a, <2>1, <3>1, <3>2
  <2>4. CASE c \notin S
    <3>1. Waiting(c)' = Waiting(c) BY <1>5, <2>4, ClaimRows DEF Waiting
    <3> QED BY <1>b, <1>c, <2>1, <2>2, <2>4, <3>1
  <2> QED BY <2>3, <2>4
<1>6. ASSUME NEW r \in Replicas, NEW d \in Rows, Begin(r, d) PROVE Goal
  <2>1. Live(c)' \subseteq Live(c) BY <1>6, OutboxAssumption DEF Begin, Live, TypeOK
  <2>2. Waiting(c)' = Waiting(c) BY <1>6 DEF Begin, Waiting
  <2> QED BY <1>6, <1>b, <1>c, <2>1, <2>2 DEF Begin, history
\* A delivery spends its holder's token.
<1>7. ASSUME NEW r \in Replicas, SendOk(r) PROVE Goal
  <2>1. ambiguos' = ambiguos /\ vencidos' = vencidos /\ Waiting(c)' = Waiting(c)
    BY <1>7 DEF SendOk, Waiting
  <2>2. CASE current[r] = c
    <3>1. r \in Live(c) BY <1>7, <2>2, OutboxAssumption DEF SendOk, Live, TypeOK
    <3>2. Live(c)' \subseteq Live(c) \ {r} BY <1>7, <2>2 DEF SendOk, Live, TypeOK
    <3>3. /\ Cardinality(Live(c)') \in Nat
          /\ Cardinality(Live(c)') + 1 <= Cardinality(Live(c))
      BY <1>a, <3>1, <3>2, Smaller
    <3>4. correos'[c] = correos[c] + 1 BY <1>7, <2>2 DEF SendOk, TypeOK
    <3> QED BY <1>a, <1>b, <2>1, <3>3, <3>4
  <2>3. CASE current[r] # c
    <3>1. Live(c)' \subseteq Live(c) BY <1>7, <2>3 DEF SendOk, Live, TypeOK
    <3>2. correos'[c] = correos[c] BY <1>7, <2>3 DEF SendOk, TypeOK
    <3>3. Cardinality(Live(c)') \in Nat /\ Cardinality(Live(c)') <= Cardinality(Live(c))
      BY <1>a, <3>1, NoLarger
    <3> QED BY <1>a, <1>b, <2>1, <3>2, <3>3
  <2> QED BY <2>2, <2>3
<1>8. ASSUME NEW r \in Replicas, SendFails(r) PROVE Goal
  <2>1. Live(c)' \subseteq Live(c) BY <1>8 DEF SendFails, Live, TypeOK
  <2>2. Waiting(c)' = Waiting(c) BY <1>8 DEF SendFails, Waiting
  <2> QED BY <1>8, <1>b, <1>c, <2>1, <2>2 DEF SendFails, history
\* A delivery whose answer is lost keeps the token and is counted.
<1>9. ASSUME NEW r \in Replicas, SendAnswerLost(r) PROVE Goal
  <2>1. Live(c)' \subseteq Live(c) BY <1>9 DEF SendAnswerLost, Live, TypeOK
  <2>2. Cardinality(Live(c)') \in Nat /\ Cardinality(Live(c)') <= Cardinality(Live(c))
    BY <1>a, <2>1, NoLarger
  <2>3. vencidos' = vencidos /\ Waiting(c)' = Waiting(c)
    BY <1>9 DEF SendAnswerLost, Waiting
  <2>4. \/ correos'[c] = correos[c] /\ ambiguos'[c] = ambiguos[c]
        \/ correos'[c] = correos[c] + 1 /\ ambiguos'[c] = ambiguos[c] + 1
    BY <1>9 DEF SendAnswerLost, TypeOK
  <2> QED BY <1>a, <1>b, <2>2, <2>3, <2>4
<1>10. ASSUME NEW r \in Replicas, MarkSent(r) PROVE Goal
  <2>1. UNCHANGED <<correos, ambiguos, vencidos>> /\ Conclude(r) BY <1>10 DEF MarkSent, history
  <2>2. Live(c)' \subseteq Live(c)
    <3> SUFFICES ASSUME NEW q \in Live(c)' PROVE q \in Live(c) OBVIOUS
    <3>1. q \in Replicas /\ c \in batch'[q] BY DEF Live
    <3>2. c \in batch[q] /\ (q = r => c # current[r]) BY <2>1, <3>1, ConcludeEffect
    <3>3. q # r => current'[q] = current[q] /\ outcome'[q] = outcome[q]
      BY <2>1, <3>1, ConcludeEffect DEF TypeOK
    <3> QED BY <3>1, <3>2, <3>3 DEF Live
  <2>3. Waiting(c)' <= Waiting(c)
    <3>1. CASE c = current[r]
      <4>1. Waiting(c)' = 0 BY <1>10, <3>1, SentRows DEF Waiting
      <4> QED BY <1>b, <4>1
    <3>2. CASE c # current[r]
      <4>1. Waiting(c)' = Waiting(c) BY <1>10, <3>2, SentRows DEF Waiting
      <4> QED BY <1>b, <4>1
    <3> QED BY <3>1, <3>2
  <2> QED BY <1>c, <2>1, <2>2, <2>3
\* Recording a failure turns the holder's token into that of a claimable row.
<1>11. ASSUME NEW r \in Replicas, MarkFailed(r) PROVE Goal
  <2>1. UNCHANGED <<correos, ambiguos, vencidos>> /\ Conclude(r) BY <1>11 DEF MarkFailed
  <2>2. Live(c)' \subseteq Live(c)
    <3> SUFFICES ASSUME NEW q \in Live(c)' PROVE q \in Live(c) OBVIOUS
    <3>1. q \in Replicas /\ c \in batch'[q] BY DEF Live
    <3>2. c \in batch[q] /\ (q = r => c # current[r]) BY <2>1, <3>1, ConcludeEffect
    <3>3. q # r => current'[q] = current[q] /\ outcome'[q] = outcome[q]
      BY <2>1, <3>1, ConcludeEffect DEF TypeOK
    <3> QED BY <3>1, <3>2, <3>3 DEF Live
  <2>3. CASE c = current[r]
    <3>1. r \in Live(c) BY <1>11, <2>3, FailedRows DEF Live, MarkFailed
    <3>2. r \notin Live(c)' BY <2>1, <2>3, ConcludeEffect DEF Live
    <3>3. /\ Cardinality(Live(c)') \in Nat
          /\ Cardinality(Live(c)') + 1 <= Cardinality(Live(c))
      BY <1>a, <2>2, <3>1, <3>2, Smaller
    <3> QED BY <1>a, <1>b, <2>1, <3>3
  <2>4. CASE c # current[r]
    <3>1. Waiting(c)' = Waiting(c) BY <1>11, <2>4, FailedRows DEF Waiting
    <3> QED BY <1>b, <1>c, <2>1, <2>2, <3>1
  <2> QED BY <2>3, <2>4
<1>12. ASSUME NEW r \in Replicas, AbortBatch(r) PROVE Goal
  <2>1. Live(c)' \subseteq Live(c) BY <1>12 DEF AbortBatch, Live, TypeOK
  <2>2. Waiting(c)' = Waiting(c) BY <1>12 DEF AbortBatch, Waiting
  <2> QED BY <1>12, <1>b, <1>c, <2>1, <2>2 DEF AbortBatch, history
<1>13. CASE UNCHANGED vars
  <2>1. Live(c)' = Live(c) BY <1>13 DEF vars, replicaVars, Live
  <2>2. Waiting(c)' = Waiting(c) BY <1>13 DEF vars, Waiting
  <2> QED BY <1>13, <1>b, <1>c, <2>1, <2>2 DEF vars, history
<1> QED BY <1>1, <1>2, <1>3, <1>4, <1>5, <1>6, <1>7, <1>8, <1>9, <1>10, <1>11,
            <1>12, <1>13 DEF Next, SomeClaim, Work, Send

-----------------------------------------------------------------------------
\* The strengthened invariant holds of every behaviour.
THEOREM Invariance == Spec => []IInv
<1>1. IInv /\ [Next]_vars => IInv'
  BY TypeStep, TruthStep, CopiesStep, AccountStep DEF IInv
<1> QED BY InitInvariant, <1>1, PTL DEF Spec

\* The types of the outbox, and that a replica sends only what it has claimed.
THEOREM TypeCorrect == Spec => []TypeOK
<1>1. IInv => TypeOK BY DEF IInv
<1> QED BY Invariance, <1>1, PTL

\* Every copy of a mail beyond the first is accounted for by a lost answer or by
\* a lock that passed, whatever replicas, failures and retries do.
THEOREM MailsBudgeted == Spec => []MailBudget
<1>1. IInv => MailBudget
  <2> SUFFICES ASSUME IInv, NEW c \in Rows
               PROVE  correos[c] <= 1 + ambiguos[c] + vencidos[c]
    BY DEF MailBudget
  <2>1. correos[c] + Cardinality(Live(c)) + Waiting(c) <= 1 + ambiguos[c] + vencidos[c]
    BY DEF IInv, Accounted
  <2>2. Cardinality(Live(c)) \in Nat BY LiveFinite
  <2>3. Waiting(c) \in {0, 1} BY DEF Waiting
  <2>4. correos[c] \in Nat /\ ambiguos[c] \in Nat /\ vencidos[c] \in Nat
    BY DEF IInv, TypeOK
  <2> QED BY <2>1, <2>2, <2>3, <2>4
<1> QED BY Invariance, <1>1, PTL

\* ENVIADO always stands for a message that went out.
THEOREM SentDelivered == Spec => []SentMeansDelivered
<1>1. IInv => SentMeansDelivered BY DEF IInv
<1> QED BY Invariance, <1>1, PTL

\* FALLIDO is never reached with fewer than MaxAttempts recorded failures.
THEOREM GivesUpLate == Spec => []NeverGivesUpEarly
<1>1. IInv => NeverGivesUpEarly
  <2> SUFFICES ASSUME IInv, NEW c \in Rows, row[c].estado = "FALLIDO"
               PROVE  fallos[c] >= MaxAttempts
    BY DEF NeverGivesUpEarly
  <2>1. row[c].intentos >= MaxAttempts /\ row[c].intentos <= fallos[c]
    BY DEF IInv, CopiesBehind
  <2>2. row[c].intentos \in 0..MaxAttempts /\ fallos[c] \in Nat
    BY DEF IInv, TypeOK, Row
  <2> QED BY <2>1, <2>2, OutboxAssumption
<1> QED BY Invariance, <1>1, PTL

\* Both together: neither outcome is claimed without its cause.
THEOREM OutcomesTrue == Spec => []OutcomesAreTrue
BY SentDelivered, GivesUpLate, PTL DEF OutcomesAreTrue

=============================================================================
