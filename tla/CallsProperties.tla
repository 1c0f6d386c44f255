--------------------------- MODULE CallsProperties ---------------------------
(***************************************************************************)
(* What callers may rely on when they repeat, lose or look up a write.     *)
(***************************************************************************)
EXTENDS Calls

Effect == [id : Ids, by : Writes]
Tables == [effects : SUBSET Effect,
           operations : SUBSET {OperationRow(w, id) : w \in Writes, id \in Ids},
           receipts : SUBSET {ReceiptRow(w, id) :
                                w \in {w \in Writes : w.key # NoKey}, id \in Ids}]
Job == [state : JobStates, request : Requests \cup {NoRequest},
        scopes : SUBSET Scopes, answer : Answers]

\* The shapes of the tables (receipts have a key) and of a worker's job.
TypeOK ==
  /\ tables \in Tables /\ staged \in Tables
  /\ holder \in Workers \cup {Nobody}
  /\ job \in [Workers -> Job]
  /\ grants \in [Principals -> SUBSET Scopes]
  /\ told \subseteq [request : Requests, answer : Answers]
  /\ sends \in 0..MaxSends /\ crashes \in 0..MaxCrashes

\* However often, by whatever workers and under whatever mix of keys a call
\* is repeated, with crashes and lost responses in between, a principal's
\* idempotency key in a scope has one effect, and so has its effect key.
OncePerKey ==
  \A e, f \in tables.effects : e.by.principal = f.by.principal =>
    /\ e.by.scope = f.by.scope /\ e.by.op = f.by.op => e = f
    /\ e.by.key = f.by.key /\ e.by.key # NoKey => e = f

\* After every commit and every crash the business tables and the two logs
\* agree: an effect has its operation row and, when it was asked for under
\* an effect key, its receipt; a row of either log has its effect, of the
\* same principal, scope and content.
LogsAgree ==
  /\ \A e \in tables.effects :
       /\ OperationRow(e.by, e.id) \in tables.operations
       /\ e.by.key # NoKey => ReceiptRow(e.by, e.id) \in tables.receipts
  /\ \A x \in tables.operations : \E e \in tables.effects :
       x = OperationRow(e.by, e.id)
  /\ \A x \in tables.receipts : \E e \in tables.effects :
       /\ x.result = e.id /\ x.principal = e.by.principal
       /\ x.scope = e.by.scope /\ x.digest = Digest(e.by)

\* commit(): "A failed COMMIT must not leave the connection inside a partial
\* transaction": whoever takes the mutex next, maintenance or a reader on the
\* same connection, finds the committed tables.
TransactionClosed == holder = Nobody => staged = tables

Results(t) == t.answer \in Ids

\* All the results that a principal has been given for one effect key, by
\* the write itself, by its repetitions or by reconcile_effect, are the same.
AnswersAgree ==
  \A t, u \in told :
    /\ Results(t) /\ Results(u)
    /\ t.request.principal = u.request.principal
    /\ t.request.key = u.request.key /\ t.request.key # NoKey
    => t.answer = u.answer

\* not_found is never answered by a lookup made after a caller has been given
\* a result for that key, whichever call logged it and whatever crashed since.
NotFoundIsTrue ==
  [][\A w \in Workers :
       /\ job'[w].state = "answered" /\ job'[w].answer = "not_found"
       /\ job[w].state # "answered"
       => \A t \in told : ~ /\ Results(t)
                            /\ t.request.principal = job[w].request.principal
                            /\ t.request.key = job[w].request.key]_vars

\* A result, old or new, is given only to a caller whose grants, as read when
\* it asked, cover the scope of the effect: a key that was used in another
\* scope discloses nothing.
DisclosedInScope ==
  \A w \in Workers :
    job[w].state = "answered" /\ job[w].answer \in Ids =>
      \E e \in tables.effects :
        /\ e.id = job[w].answer
        /\ e.by.principal = job[w].request.principal
        /\ e.by.scope \in job[w].scopes

-----------------------------------------------------------------------------

KeyNames == {[principal |-> x.principal, key |-> x.key, id |-> x.result] :
               x \in tables.receipts}

Once == INSTANCE EffectOnce WITH effects <- tables.effects, names <- KeyNames

\* The locks, transactions, retries and crashes implement the atomic
\* specification that callers see.
ImplementsEffectOnce == Once!Spec

=============================================================================
