------------------------------ MODULE Worklist ------------------------------
(***************************************************************************)
(* The transactions of the store that erase, opened up: the worklist of    *)
(* records in erase and the worklist of source keys in                     *)
(* clear_lineage_dependents, which runs anew for every key a record comes  *)
(* from. Each visit changes the tables that the next visit reads. Store    *)
(* takes such a transaction as one step, and what it removes as a closure. *)
(*                                                                         *)
(* The worklists are sets: the order in which the code takes their members *)
(* follows from rows selected without ORDER BY.                            *)
(***************************************************************************)
EXTENDS Store

CONSTANT NoWork

VARIABLE work  \* the open transaction, or NoWork

worklistVars == <<db, clock, work>>

(***************************************************************************)
(* d is what the transaction sees; keys and seen belong to the run of      *)
(* clear_lineage_dependents, ids and erased to erase, own is what is left  *)
(* of the keys of its current record, and then what the transaction does   *)
(* once erase has returned.                                                *)
(***************************************************************************)
Begin(s, then, d, keys, ids, block) ==
  work' = [s |-> s, then |-> then, d |-> d, block |-> block, keys |-> keys, seen |-> {},
           ids |-> ids, erased |-> {}, current |-> NoRec, own |-> {}]

Commit(d) == db' = d /\ work' = NoWork /\ UNCHANGED clock
Stage(next) == work' = next /\ UNCHANGED <<db, clock>>

-----------------------------------------------------------------------------
(* Transactions that open with a worklist; the guards are those of Store.  *)

BeginForget(s, ids) ==
  /\ work = NoWork
  /\ ids # {} /\ Cardinality(ids) <= ForgetLimit
  /\ \A r \in ids : r \in Present(db, s) /\ db.rec[r].status # "deleted"
  /\ Begin(s, [step |-> "forget"], db, {}, ids, TRUE) /\ UNCHANGED <<db, clock>>

BeginObserve(s, q) ==
  /\ work = NoWork
  /\ clock <= LastArrival /\ s \in HostScopes
  /\ db.obs[s][q].state = "absent" /\ q.key \notin db.tomb[s]
  /\ Begin(s, [step |-> "clear", delivery |-> q, refused |-> Refused(db, s, q), cleared |-> q.key,
               targets |-> IF q.class = "invalidated" THEN q.targets ELSE {}],
           db, {q.key}, Previous(db, s, q), FALSE)
  /\ UNCHANGED <<db, clock>>

BeginCancel(s, q) ==
  /\ work = NoWork
  /\ <<s, q>> \in NextJobs(db, clock) /\ Blocked(db, s, Cites(q))
  /\ Begin(s, [step |-> "cancel"], Sweep(db, clock), {q.key}, {}, TRUE) /\ UNCHANGED <<db, clock>>

-----------------------------------------------------------------------------
(* clear_lineage_dependents *)

\* The rows whose payload still cites k.
Citing(k) == {q \in Deliveries : work.d.obs[work.s][q].live /\ k \in Cites(q)}

CutRows(k, names) ==
  LET s == work.s IN
  [work.d EXCEPT
     !.tomb[s] = IF work.block THEN @ \cup {k} \cup names ELSE @,
     !.obs[s] = [q \in Deliveries |->
                   IF q \in Citing(k) THEN Cleared(work.d.obs[s][q]) ELSE work.d.obs[s][q]]]

\* Mutation: aliases are tombstoned and not visited.
VisitKeyByEvent(k) ==
  /\ k \in work.keys
  /\ LET names == UNION {Names(q) : q \in Citing(k)}
         events == {q.key : q \in Citing(k)}
         seen == work.seen \cup {k}
     IN Stage([work EXCEPT !.keys = (@ \cup events) \ seen, !.seen = seen,
                           !.d = CutRows(k, names)])

\* The payload is cut before its names are visited, so each is named once.
VisitKey(k) ==
  /\ k \in work.keys
  /\ LET names == UNION {Names(q) : q \in Citing(k)}
         seen == work.seen \cup {k}
     IN Stage([work EXCEPT !.keys = (@ \cup names) \ seen, !.seen = seen,
                           !.d = CutRows(k, names)])

\* The caller looks for the records that depend on a key it returned.
KeysVisited ==
  /\ work.keys = {} /\ work.seen # {}
  /\ Stage([work EXCEPT !.seen = {},
              !.ids = @ \cup {r \in Present(work.d, work.s) : work.d.deps[r] \cap work.seen # {}}])

-----------------------------------------------------------------------------
(* erase *)

BetweenKeys == work.keys = {} /\ work.seen = {}

\* A record that is not of this scope is passed over.
TakeRecord(r) ==
  /\ BetweenKeys /\ work.current = NoRec /\ r \in work.ids \ work.erased
  /\ Stage(IF r \in Present(work.d, work.s)
             THEN [work EXCEPT !.erased = @ \cup {r}, !.current = r,
                               !.own = OwnKeys(work.d, work.s, r)]
             ELSE [work EXCEPT !.erased = @ \cup {r}])

TakeOwnKey(k) ==
  /\ BetweenKeys /\ work.current # NoRec /\ k \in work.own
  /\ Stage([work EXCEPT !.own = @ \ {k}, !.keys = {k}])

CutRecord(d, r) ==
  [d EXCEPT
     !.rec[r] = [@ EXCEPT !.status = "deleted", !.fact = NoFact],
     !.ver = {v \in @ : v.id # r},
     !.idx = @ \ {r},
     !.deps[r] = {},
     !.obs = [s \in Scopes |-> [q \in Deliveries |->
                IF d.obs[s][q].record = r THEN Cleared(d.obs[s][q]) ELSE d.obs[s][q]]]]

EraseRecord ==
  /\ BetweenKeys /\ work.current # NoRec /\ work.own = {}
  /\ Stage([work EXCEPT !.current = NoRec, !.d = CutRecord(@, work.current)])

-----------------------------------------------------------------------------
(* What follows when erase has returned *)

Erased == BetweenKeys /\ work.current = NoRec /\ work.ids \subseteq work.erased
After(step) == work # NoWork /\ Erased /\ work.then.step = step

EndForget == After("forget") /\ Commit(Bump(Reconcile(work.d, {work.s}, Groups, clock)))

EndCancel == After("cancel") /\ Commit(work.d)

\* observe: the next target of an invalidation, ...
NextTarget ==
  /\ After("clear") /\ UNCHANGED <<db, clock>>
  /\ \E t \in work.then.targets :
       Begin(work.s, [work.then EXCEPT !.cleared = t, !.targets = @ \ {t}],
             ClearSource(work.d, work.s, {work.then.cleared}), {t}, {}, TRUE)

\* ... then the row, which a blocked source takes away again at once.
InsertRow ==
  /\ After("clear") /\ work.then.targets = {}
  /\ LET q == work.then.delivery
         fresh == Insert(ClearSource(work.d, work.s, {work.then.cleared}), work.s, q, clock)
     IN IF work.then.refused
          THEN Begin(work.s, [step |-> "refuse"], fresh, {q.key}, {}, TRUE) /\ UNCHANGED <<db, clock>>
          ELSE Commit(Bump(fresh))

EndRefuse == After("refuse") /\ Commit(Bump(work.d))

\* A statement fails, or the process dies.
Rollback == work # NoWork /\ Stage(NoWork)

WorkStep ==
  /\ work # NoWork
  /\ \/ \E k \in Keys : VisitKey(k) \/ TakeOwnKey(k)
     \/ \E r \in RecIds : TakeRecord(r)
     \/ KeysVisited \/ EraseRecord

-----------------------------------------------------------------------------
\* A transaction taken whole: those that erase nothing have no other form.
Whole == work = NoWork /\ Next /\ UNCHANGED work

WorklistNext ==
  \/ \E s \in Scopes, ids \in SUBSET RecIds : BeginForget(s, ids)
  \/ \E s \in Scopes, q \in Deliveries : BeginObserve(s, q) \/ BeginCancel(s, q)
  \/ WorkStep
  \/ EndForget \/ EndCancel \/ NextTarget \/ InsertRow \/ EndRefuse \/ Rollback
  \/ Whole

WorklistInit == InitUpgraded /\ work = NoWork
WorklistSpec == WorklistInit /\ [][WorklistNext]_worklistVars

\* Whatever order the worklists are taken in, and although each visit cuts
\* rows that later ones would have read, the transaction commits what the
\* closure of Store removes: nothing that is reachable is left, and nothing
\* else is lost (store.rs:682-800, 926-985). [A]_v is the same as
\* [v' # v /\ A]_v, which spares TLC the steps within a transaction.
ImplementsStore ==
  InitUpgraded /\ [][vars' # vars /\ Next]_vars

=============================================================================
