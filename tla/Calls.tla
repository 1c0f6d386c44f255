-------------------------------- MODULE Calls --------------------------------
(***************************************************************************)
(* How a write call becomes an effect: call_with_effect and                *)
(* reconcile_effect of store.rs, run by blocking workers that share one    *)
(* Mutex<Store>. A worker authorises the call with the grants that were    *)
(* read when the request arrived, opens a transaction, looks the call up   *)
(* under its effect key and its idempotency key, performs the write, logs  *)
(* it under both and commits. The process may die between any two steps,   *)
(* a response may get lost, and a caller may send anything again while an  *)
(* earlier copy is still waiting.                                          *)
(***************************************************************************)
EXTENDS Integers, FiniteSets

CONSTANTS
  Principals, Scopes,
  Writes,       \* write calls: principal, scope, op (idempotency key), key, body
  Queries,      \* reconcile_effect calls: principal, key
  Ids,          \* what uid() draws
  Workers,      \* blocking workers
  NoKey, NoRequest, Nobody,
  GrantChoices, \* what the configuration file may grant: principal to scopes
  MaxSends,     \* bound on requests
  MaxCrashes    \* bound on crashes

VARIABLES
  tables,   \* the committed tables
  staged,   \* the tables as the open transaction has changed them
  holder,   \* the worker that has the store mutex
  job,      \* what each worker is doing
  grants,   \* the grants in the configuration file
  told,     \* the answers that have reached callers
  sends, crashes

vars == <<tables, staged, holder, job, grants, told, sends, crashes>>

Requests == Writes \cup Queries
Answers == Ids \cup {"none", "not_found", "error"}
JobStates == {"idle", "queued", "open", "written", "logged", "ready", "answered"}

ASSUME CallsAssumption ==
  /\ \A w \in Writes : w.principal \in Principals /\ w.scope \in Scopes
  /\ \A q \in Queries : q.principal \in Principals /\ q.key # NoKey
  /\ GrantChoices \subseteq [Principals -> SUBSET Scopes] /\ GrantChoices # {}
  /\ Writes \cap Queries = {} /\ NoRequest \notin Requests /\ Nobody \notin Workers
  /\ Ids \cap {"none", "not_found", "error"} = {}
  /\ MaxSends \in Nat /\ MaxCrashes \in Nat

\* The arguments hold scope, idempotency key and body; the effect key is not
\* one of them. SHA-256 is taken to be injective.
Digest(w) == <<w.scope, w.op, w.body>>

EmptyTables == [effects |-> {}, operations |-> {}, receipts |-> {}]
Idle == [state |-> "idle", request |-> NoRequest, scopes |-> {}, answer |-> "none"]

OperationRow(w, id) ==
  [principal |-> w.principal, scope |-> w.scope, key |-> w.op,
   digest |-> Digest(w), result |-> id]

ReceiptRow(w, id) ==
  [principal |-> w.principal, key |-> w.key, scope |-> w.scope,
   digest |-> Digest(w), result |-> id]

WithEffect(T, c, id) ==
  [effects |-> T.effects \cup {[id |-> id, by |-> c]},
   operations |-> T.operations, receipts |-> T.receipts]

WithOperation(T, c, id) ==
  [effects |-> T.effects, operations |-> T.operations \cup {OperationRow(c, id)},
   receipts |-> T.receipts]

WithReceipt(T, c, id) ==
  [effects |-> T.effects, operations |-> T.operations,
   receipts |-> IF c.key = NoKey THEN T.receipts
                ELSE T.receipts \cup {ReceiptRow(c, id)}]

\* Mutation: the query forgets its principal.
ReceiptsOfAny(T, r) == {x \in T.receipts : x.key = r.key}

Receipts(T, r) == {x \in T.receipts : x.principal = r.principal /\ x.key = r.key}

Operations(T, w) ==
  {x \in T.operations : x.principal = w.principal /\ x.scope = w.scope /\ x.key = w.op}

-----------------------------------------------------------------------------

Enter(w, state, answer) ==
  job' = [job EXCEPT ![w] = [@ EXCEPT !.state = state, !.answer = answer]]

\* The transaction ends with the tables T, and the mutex is released.
Finish(w, T, answer) ==
  /\ Enter(w, "answered", answer)
  /\ tables' = T /\ staged' = T /\ holder' = Nobody
  /\ UNCHANGED <<grants, told, sends, crashes>>

\* auth() of handle(): the configuration is read as the request arrives.
Arrive(w, r) ==
  /\ sends < MaxSends
  /\ job[w].state = "idle"
  /\ job' = [job EXCEPT ![w] = [state |-> "queued", request |-> r,
                                scopes |-> grants[r.principal], answer |-> "none"]]
  /\ sends' = sends + 1
  /\ UNCHANGED <<tables, staged, holder, grants, told, crashes>>

\* store.lock(), and BEGIN IMMEDIATE for a write: it sees what is staged,
\* which is what was committed as no transaction is left open.
Lock(w) ==
  /\ job[w].state = "queued" /\ holder = Nobody
  /\ holder' = w
  /\ Enter(w, "open", "none")
  /\ UNCHANGED <<tables, staged, grants, told, sends, crashes>>

Writing(w, state) == job[w].state = state /\ job[w].request \in Writes
Permitted(w) == job[w].request.scope \in job[w].scopes

Deny(w) ==
  /\ Writing(w, "open") /\ ~Permitted(w)
  /\ Finish(w, tables, "error")

\* Mutation: a receipt for another content does not count.
ReceiptAlike(T, c) ==
  IF c.key = NoKey THEN {} ELSE {x \in Receipts(T, c) : x.digest = Digest(c)}

\* The receipt that the call's effect key already has.
Receipt(T, c) == IF c.key = NoKey THEN {} ELSE Receipts(T, c)

\* Mutation: the digest of a receipt is not compared.
RecallAny(w) ==
  /\ Writing(w, "open") /\ Permitted(w)
  /\ \E x \in Receipt(staged, job[w].request) : Enter(w, "ready", x.result)
  /\ UNCHANGED <<tables, staged, holder, grants, told, sends, crashes>>

Recall(w) ==
  /\ Writing(w, "open") /\ Permitted(w)
  /\ \E x \in Receipt(staged, job[w].request) :
       /\ x.digest = Digest(job[w].request)
       /\ Enter(w, "ready", x.result)
  /\ UNCHANGED <<tables, staged, holder, grants, told, sends, crashes>>

\* Mutation: a repeated call writes no receipt for its effect key.
RepeatUnreceipted(w) ==
  /\ Writing(w, "open") /\ Permitted(w)
  /\ Receipt(staged, job[w].request) = {}
  /\ \E x \in Operations(staged, job[w].request) :
       /\ x.digest = Digest(job[w].request)
       /\ Enter(w, "ready", x.result)
  /\ UNCHANGED <<tables, staged, holder, grants, told, sends, crashes>>

\* The result of an earlier call with the same idempotency key.
Repeat(w) ==
  /\ Writing(w, "open") /\ Permitted(w)
  /\ Receipt(staged, job[w].request) = {}
  /\ \E x \in Operations(staged, job[w].request) :
       /\ x.digest = Digest(job[w].request)
       /\ Enter(w, "logged", x.result)
  /\ UNCHANGED <<tables, staged, holder, grants, told, sends, crashes>>

\* idempotency_conflict: either key stands for another call.
Conflict(w) ==
  /\ Writing(w, "open") /\ Permitted(w)
  /\ LET c == job[w].request
         found == IF Receipt(staged, c) # {} THEN Receipt(staged, c)
                                             ELSE Operations(staged, c)
     IN \E x \in found : x.digest # Digest(c)
  /\ Finish(w, tables, "error")

\* Mutation: the write commits a transaction of its own.
PerformCommitted(w) ==
  /\ Writing(w, "open") /\ Permitted(w)
  /\ LET c == job[w].request IN
     /\ Receipt(staged, c) = {} /\ Operations(staged, c) = {}
     /\ \E id \in Ids :
          /\ \A e \in staged.effects : e.id # id
          /\ staged' = WithEffect(staged, c, id)
          /\ tables' = staged'
          /\ Enter(w, "written", id)
  /\ UNCHANGED <<holder, grants, told, sends, crashes>>

\* save, correct, forget or observe succeeds; its result has a fresh id.
Perform(w) ==
  /\ Writing(w, "open") /\ Permitted(w)
  /\ LET c == job[w].request IN
     /\ Receipt(staged, c) = {} /\ Operations(staged, c) = {}
     /\ \E id \in Ids :
          /\ \A e \in staged.effects : e.id # id
          /\ staged' = WithEffect(staged, c, id)
          /\ Enter(w, "written", id)
  /\ UNCHANGED <<tables, holder, grants, told, sends, crashes>>

\* Mutation: a call that will have a receipt is not logged as operation.
LogUnkeyedOperation(w) ==
  /\ Writing(w, "written")
  /\ staged' = IF job[w].request.key # NoKey THEN staged
               ELSE WithOperation(staged, job[w].request, job[w].answer)
  /\ Enter(w, "logged", job[w].answer)
  /\ UNCHANGED <<tables, holder, grants, told, sends, crashes>>

\* INSERT INTO operations, and bump().
LogOperation(w) ==
  /\ Writing(w, "written")
  /\ staged' = WithOperation(staged, job[w].request, job[w].answer)
  /\ Enter(w, "logged", job[w].answer)
  /\ UNCHANGED <<tables, holder, grants, told, sends, crashes>>

\* Mutation: calls without effect key get a receipt as well.
LogEveryReceipt(w) ==
  /\ Writing(w, "logged")
  /\ staged' = [staged EXCEPT !.receipts =
                  @ \cup {ReceiptRow(job[w].request, job[w].answer)}]
  /\ Enter(w, "ready", job[w].answer)
  /\ UNCHANGED <<tables, holder, grants, told, sends, crashes>>

\* INSERT INTO effect_receipts, of a new and of a repeated call alike.
LogReceipt(w) ==
  /\ Writing(w, "logged")
  /\ staged' = WithReceipt(staged, job[w].request, job[w].answer)
  /\ Enter(w, "ready", job[w].answer)
  /\ UNCHANGED <<tables, holder, grants, told, sends, crashes>>

Commit(w) ==
  /\ Writing(w, "ready")
  /\ Finish(w, staged, job[w].answer)

\* Mutation: an error leaves the transaction open.
FailOpen(w) ==
  /\ \E s \in {"open", "written", "logged", "ready"} : Writing(w, s)
  /\ Enter(w, "answered", "error")
  /\ holder' = Nobody
  /\ UNCHANGED <<tables, staged, grants, told, sends, crashes>>

\* The write is refused, or a statement or the COMMIT fails: ROLLBACK.
Fail(w) ==
  /\ \E s \in {"open", "written", "logged", "ready"} : Writing(w, s)
  /\ Finish(w, tables, "error")

\* Mutation: the scope of the receipt is not authorised.
OutcomeOfAny(T, q, scopes) ==
  IF Receipts(T, q) = {} THEN "not_found"
  ELSE (CHOOSE x \in Receipts(T, q) : TRUE).result

\* reconcile_effect: its receipt's scope must be among the caller's.
Outcome(T, q, scopes) ==
  IF Receipts(T, q) = {} THEN "not_found"
  ELSE LET x == CHOOSE x \in Receipts(T, q) : TRUE
       IN IF x.scope \in scopes THEN x.result ELSE "error"

Look(w) ==
  /\ job[w].state = "open" /\ job[w].request \in Queries
  /\ Enter(w, "answered", Outcome(staged, job[w].request, job[w].scopes))
  /\ holder' = Nobody
  /\ UNCHANGED <<tables, staged, grants, told, sends, crashes>>

-----------------------------------------------------------------------------

\* The response reaches the caller, or the connection has gone.
Deliver(w) ==
  /\ job[w].state = "answered"
  /\ told' = IF job[w].answer = "error" THEN told
             ELSE told \cup {[request |-> job[w].request, answer |-> job[w].answer]}
  /\ job' = [job EXCEPT ![w] = Idle]
  /\ UNCHANGED <<tables, staged, holder, grants, sends, crashes>>

Lose(w) ==
  /\ job[w].state = "answered"
  /\ job' = [job EXCEPT ![w] = Idle]
  /\ UNCHANGED <<tables, staged, holder, grants, told, sends, crashes>>

\* The process dies and is started again: what was not committed is gone.
Crash ==
  /\ crashes < MaxCrashes
  /\ crashes' = crashes + 1
  /\ job' = [w \in Workers |-> Idle]
  /\ holder' = Nobody /\ staged' = tables
  /\ UNCHANGED <<tables, grants, told, sends>>

\* An administrator edits the configuration file.
Reconfigure(g) ==
  /\ grants # g /\ grants' = g
  /\ UNCHANGED <<tables, staged, holder, job, told, sends, crashes>>

Work(w) ==
  \/ Lock(w) \/ Deny(w) \/ Recall(w) \/ Repeat(w) \/ Conflict(w) \/ Perform(w)
  \/ LogOperation(w) \/ LogReceipt(w) \/ Commit(w) \/ Fail(w) \/ Look(w)
  \/ Deliver(w) \/ Lose(w)

Init ==
  /\ tables = EmptyTables /\ staged = EmptyTables /\ holder = Nobody
  /\ job = [w \in Workers |-> Idle]
  /\ grants \in GrantChoices
  /\ told = {} /\ sends = 0 /\ crashes = 0

Next ==
  \/ \E w \in Workers : Work(w) \/ \E r \in Requests : Arrive(w, r)
  \/ Crash
  \/ \E g \in GrantChoices : Reconfigure(g)

Spec == Init /\ [][Next]_vars

=============================================================================
