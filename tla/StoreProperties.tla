-------------------------- MODULE StoreProperties --------------------------
(***************************************************************************)
(* What the memory store promises, over the transactions of Store.         *)
(***************************************************************************)
EXTENDS Store

\* Every row stays well formed (the shapes of schema.sql and of put()).
TypeOK == db \in Database /\ clock \in 0..MaxClock

-----------------------------------------------------------------------------
(* Lineage and tombstones.                                                 *)

\* No record row, whatever its status, depends on a source that its scope
\* has tombstoned, and no stored revision of it, current or historical,
\* cites one (save/correct/observe/maintain check, erase cleans up).
NoTombstonedRecord ==
  \A r \in RecIds : db.rec[r].status # "absent" =>
    LET blocked == db.tomb[db.rec[r].scope] IN
    /\ db.deps[r] \cap blocked = {}
    /\ \A v \in db.ver : v.id = r => v.cites \cap blocked = {}

\* No retained observation payload, queued or processed, names a tombstoned
\* source, its alias or itself included. (A source_invalidated payload may:
\* naming blocked sources is its purpose, and observe() does not check it.)
NoTombstonedPayload ==
  \A s \in Scopes, q \in Deliveries :
    db.obs[s][q].live /\ q.class # "invalidated" =>
      Cites(q) \cap db.tomb[s] = {}

\* q descends from a capture of an event of which a revision arrives:
\* docs/design/lineage-forget.md: "Source revision cancels obsolete
\* descendants without permanent tombstones".
Obsolete(s, q) ==
  \E p \in Deliveries \ {q} :
    /\ db.obs[s][p].state = "absent" /\ db'.obs[s][p].state # "absent"
    /\ Cites(q) \cap Reached(db, s, {p.key}, Previous(db, s, p)) # {}

\* When a source is blocked, everything derived from it is blocked under all
\* its own names: an observation that is retained, or that arrives, and cites
\* a blocked source has its event key and raw alias tombstoned in the same
\* transaction, so that a child naming only the alias cannot be published.
\* (Unless a revision of what it derives from has just made it obsolete, also
\* when that revision is then refused and blocked.)
TaintSpreads ==
  [][\A s \in Scopes, q \in Deliveries :
       /\ q.class # "invalidated"
       /\ db.obs[s][q].live \/ db.obs[s][q].state = "absent"
       /\ db'.obs[s][q].state # "absent"
       /\ Cites(q) \cap db'.tomb[s] # {}
       /\ ~Obsolete(s, q)
       => Names(q) \subseteq db'.tomb[s]]_vars

\* Forgetting r in the step from db to db', where q produced r.
ForgetsProduct(s, q, r) ==
  /\ db.obs[s][q].record = r
  /\ db'.rec[r].status = "deleted" /\ db.rec[r].status # "deleted"
  /\ r \in Present(db, s)
  /\ Names(q) \cap db'.tomb[s] # {}

NothingDependsOn(s, keys) ==
  /\ \A o \in Live(db)' : db'.rec[o].scope = s => db'.deps[o] \cap keys = {}
  /\ \A p \in Deliveries :
       db'.obs[s][p].live /\ p.class # "invalidated" => Cites(p) \cap keys = {}

\* Forgetting, or invalidating, a live derived record removes everything
\* that depends on its producing event or on the event's raw alias.
ForgetReachesAlias ==
  [][\A s \in Scopes, q \in Deliveries, r \in RecIds :
       ForgetsProduct(s, q, r) /\ db.rec[r].status \in LiveStatus
         => NothingDependsOn(s, Names(q))]_vars

\* docs/design/lineage-forget.md: "Invalidation and forgetting tombstone the
\* selected source, remove every record and historical version reachable
\* through dependency edges", "through the producing event and its own raw
\* alias": also when the derived record has meanwhile expired.
ForgetRemovesDerived ==
  [][\A s \in Scopes, q \in Deliveries, r \in RecIds :
       ForgetsProduct(s, q, r) => NothingDependsOn(s, Names(q))]_vars

\* While a derived record is live the payload that produced it is retained
\* (erase and the closure find the raw alias only there), is completed, and
\* produced this record alone. A source event has at most one retained
\* capture, however many revisions (digests) of it were delivered and in
\* whatever order.
ProducerRetained ==
  \A s \in Scopes, q \in Deliveries :
    LET o == db.obs[s][q] IN
    /\ o.record # NoRec =>
         /\ o.record \in Live(db) => /\ o.live /\ o.state = "completed"
                                     /\ db.rec[o.record].scope = s
                                     /\ Cites(q) \subseteq db.deps[o.record]
         /\ \A t \in Scopes, p \in Deliveries :
              db.obs[t][p].record = o.record => t = s /\ p = q
    /\ o.live => \A p \in Deliveries : db.obs[s][p].live /\ p.key = q.key => p = q

\* Erasing and blocking follow keys that several scopes may share, but one
\* transaction erases records of one scope only and blocks keys in it only. (A
\* round of maintenance may erase in one scope and find records of another
\* past their TTL.)
EraseStaysInScope ==
  [][\A r \in RecIds, t \in Scopes :
       /\ db'.rec[r].status = "deleted" /\ db.rec[r].status # "deleted"
       /\ t # db.rec[r].scope
       => /\ db'.tomb[t] = db.tomb[t]
          /\ \A q \in Deliveries :
               db.obs[t][q].live =>
                 db'.obs[t][q].live \/ db'.obs[t][q].state = "expired"
          /\ \A o \in RecIds : db.rec[o].scope = t /\ db'.rec[o].status = "deleted"
                                 => db.rec[o].status = "deleted"]_vars

-----------------------------------------------------------------------------
(* Bodies, versions and the index.                                         *)

\* The FTS index holds exactly the live records, and the stored versions are
\* exactly the revisions of live records: an erased or expired record leaves
\* no version, no index entry and no copy of its text in a payload.
NoResidue ==
  /\ db.idx = Live(db)
  /\ \A v \in db.ver : v.id \in Live(db)
  /\ \A r \in Live(db) :
       {v.revision : v \in {v \in db.ver : v.id = r}} = 1..db.rec[r].rev
  /\ \A s \in Scopes, q \in Deliveries :
       db.obs[s][q].record \in RecIds \ Live(db) => ~db.obs[s][q].live

\* History is immutable: a stored version never changes while its record is
\* live (but for the status that reconcile_keys writes into the current one),
\* revisions grow one at a time, and a dead record never comes back.
HistoryImmutable ==
  [][\A r \in RecIds :
       /\ db'.rec[r].status \in LiveStatus =>
            /\ db.rec[r].status \in LiveStatus \cup {"absent"}
            /\ db'.rec[r].rev \in {db.rec[r].rev, db.rec[r].rev + 1}
            /\ \A v \in db.ver : v.id = r => v \in db'.ver
       /\ db.rec[r].status = "deleted" => db'.rec[r].status = "deleted"]_vars

\* A page cursor is bound to the generation: every transaction that changes
\* what a reader can see (a record, its revision, its status) moves it.
Visible(d) == [r \in Live(d) |-> <<d.rec[r].rev, d.rec[r].status, d.rec[r].fact>>]
GenerationMoves == [][Visible(db)' # Visible(db) => db'.gen # db.gen]_vars

-----------------------------------------------------------------------------
(* Facts.                                                                  *)

FactRows(d, s, now) == {r \in Readable(d, s, now) : d.rec[r].kind = "fact"}

\* Of two unexpired facts that disagree over an overlapping interval neither
\* is ever presented as settled: both rows are marked contested.
ConflictsMarked ==
  \A s \in Scopes : \A a, b \in FactRows(db, s, clock) :
    Disputes(db.rec[a].fact, db.rec[b].fact) => db.rec[a].status = "contested"

\* What get and search compute at read time agrees with the stored marks: a
\* fact reported contested has a contested row.
ReadAgreesWithMark ==
  \A s \in Scopes : \A r \in FactRows(db, s, clock) :
    CurrentStatus(db, r, clock) = "contested" => db.rec[r].status = "contested"

Settled(d, s, g, now) ==
  LET rows == {r \in FactRows(d, s, now) : d.rec[r].fact.group = g}
  IN \A r \in rows :
       (d.rec[r].status = "contested") <=>
         \E o \in rows : Disputes(d.rec[r].fact, d.rec[o].fact)

GroupRows(d, s, g) ==
  {<<r, d.rec[r].rev>> :
     r \in {r \in Live(d) : /\ d.rec[r].scope = s /\ d.rec[r].kind = "fact"
                            /\ d.rec[r].fact.group = g}}

Arrives == \E s \in Scopes, q \in Deliveries :
             db.obs[s][q].state = "absent" /\ db'.obs[s][q].state # "absent"

\* Saving, correcting, forgetting or expiring a fact leaves every group it
\* belonged to or now belongs to with exact marks: a correction that ends a
\* conflict clears the mark of the other side as well. (observe() may erase
\* facts and does not recompute marks; readers recompute them anyway.)
GroupsSettled ==
  [][~Arrives =>
       \A s \in Scopes, g \in Groups :
         GroupRows(db, s, g) # GroupRows(db', s, g) => Settled(db', s, g, clock)]_vars

-----------------------------------------------------------------------------
(* The work queue.                                                         *)

\* A job is pending exactly while its observation is accepted, with its
\* payload, and has produced nothing; what has been cleared is never queued;
\* attempts are bounded, and only the last failure gives up.
QueueAgrees ==
  \A s \in Scopes, q \in Deliveries :
    LET o == db.obs[s][q] IN
    /\ o.job = "accepted" => /\ o.live /\ o.state = "accepted"
                             /\ o.record = NoRec /\ o.attempts < MaxAttempts
    /\ o.job = "failed" => o.live /\ o.state = "accepted" /\ o.attempts = MaxAttempts
    /\ o.state = "accepted" => o.job \in {"accepted", "failed"}
    /\ o.live <=> o.state \in {"accepted", "completed"}

\* Every queued job is processed, cancelled or given up, as long as its
\* retry time lies within the bounded clock.
JobSettles ==
  \A s \in Scopes, q \in Deliveries :
    (db.obs[s][q].job = "accepted") ~>
      \/ db.obs[s][q].job \in {"completed", "failed"}
      \/ db.obs[s][q].nextAt > MaxClock

\* Every record past its TTL is eventually removed from the tables, although
\* a failing job rolls the sweep of its transaction back.
LapsedSwept ==
  \A r \in RecIds : (r \in Live(db) /\ PastTTL(db, r, clock)) ~> r \notin Live(db)

=============================================================================
