------------------------------- MODULE Store -------------------------------
(***************************************************************************)
(* The memory store: every write tool of store.rs and the maintenance      *)
(* loop, each one SQLite transaction (BEGIN IMMEDIATE .. COMMIT) and so    *)
(* one step. A request that the code refuses rolls back, and is a step     *)
(* that is not enabled here; a crash loses nothing that was committed, and *)
(* is a stuttering step. The clock is the one that the queries compare     *)
(* expiry, validity and retry times with.                                  *)
(***************************************************************************)
EXTENDS StoreTables

CONSTANTS
  SaveKinds,      \* kinds that the clients of this instance save
  SourceSets,     \* the sets of keyed sources that save and correct name
  GivenExpiry,    \* the expires_at values that clients give
  FragileKeys,    \* event keys whose processing may fail (storage errors)
  ForgetLimit,    \* bound on the ids of one forget
  LastArrival,    \* bound: no observe after this tick
  MaxClock,       \* bound on the clock
  UpgradeTombs,   \* tombstones found in an existing database, per scope
  UpgradeQueue    \* <<scope, delivery>> queued by an earlier version

VARIABLES db, clock

vars == <<db, clock>>

ASSUME BoundAssumption ==
  /\ SaveKinds \subseteq Kinds /\ SourceSets \subseteq SUBSET Keys
  /\ GivenExpiry \subseteq Nat /\ FragileKeys \subseteq Keys
  /\ ForgetLimit \in Nat /\ LastArrival \in Nat /\ MaxClock \in Nat
  /\ UpgradeTombs \in [Scopes -> SUBSET Keys]
  /\ UpgradeQueue \subseteq HostScopes \X {q \in Deliveries : q.class = "material"}

-----------------------------------------------------------------------------
(* memory.save                                                             *)

\* pinned wins over expires_at, which wins over the retention of episodes.
SaveExpiries(kind, now) ==
  {Never} \cup GivenExpiry
    \cup (IF kind = "episode" THEN {now + EpisodeTTL} ELSE {})

SavedRow(s, kind, f, exp) ==
  [scope |-> s, kind |-> kind, rev |-> 1, status |-> "active",
   expires |-> exp, fact |-> f]

Save(s, kind, f, src, exp) ==
  /\ ~Blocked(db, s, src)
  /\ (kind = "fact") = (f # NoFact)
  /\ f # NoFact => f.from < f.to
  /\ \E r \in RecIds :
       /\ db.rec[r].status = "absent"
       /\ LET saved == Put(db, r, SavedRow(s, kind, f, exp), src)
          IN db' = Bump(IF kind = "fact"
                          THEN Reconcile(saved, {s}, {f.group}, clock)
                          ELSE saved)
  /\ UNCHANGED clock

\* Mutation: the revision is overwritten.
CorrectedInPlace(row, f) == [row EXCEPT !.status = "active", !.fact = f]

\* Mutation: only the group that the fact moves to is reconciled.
RegroupedNew(row, f) == {f.group}

(***************************************************************************)
(* memory.correct. The request names the revision it replaces; one that    *)
(* names another revision is refused with revision_conflict.               *)
(***************************************************************************)
Corrected(row, f) == [row EXCEPT !.rev = @ + 1, !.status = "active", !.fact = f]

\* The groups that a correction takes the fact out of and puts it into.
Regrouped(row, f) == {row.fact.group, f.group}

Correct(s, r, expected, f, src) ==
  /\ r \in Readable(db, s, clock)
  /\ db.rec[r].rev = expected
  /\ expected < MaxRevision
  /\ (db.rec[r].kind = "fact") = (f # NoFact)
  /\ f # NoFact => f.from < f.to
  /\ ~Blocked(db, s, src)
  /\ LET put == Put(db, r, Corrected(db.rec[r], f), src)
     IN db' = Bump(IF f # NoFact
                     THEN Reconcile(put, {s}, Regrouped(db.rec[r], f), clock)
                     ELSE put)
  /\ UNCHANGED clock

(***************************************************************************)
(* memory.forget. Expired rows may be forgotten too. The ids are distinct  *)
(* and each comes with its current revision, or the request is refused.    *)
(***************************************************************************)
Forget(s, ids, expected) ==
  /\ ids # {} /\ Cardinality(ids) <= ForgetLimit
  /\ \A r \in ids : /\ r \in Present(db, s)
                    /\ db.rec[r].status # "deleted"
                    /\ db.rec[r].rev = expected[r]
  /\ db' = Bump(Reconcile(Purge(db, s, {}, ids, TRUE), {s}, Groups, clock))
  /\ UNCHANGED clock

(***************************************************************************)
(* memory.observe of a delivery not seen before: a delivery already in the *)
(* table (whatever its state) is answered from its row, or refused when    *)
(* its payload differs, and changes nothing.                               *)
(***************************************************************************)
\* Mutation: an observation is checked under its own names only.
RefusedByName(d, s, q) == q.class # "invalidated" /\ Blocked(d, s, Names(q))

Refused(d, s, q) == q.class # "invalidated" /\ Blocked(d, s, Cites(q))

\* Records that an earlier capture of the same event produced.
Previous(d, s, q) ==
  {d.obs[s][p].record : p \in {p \in Deliveries : p.key = q.key}} \ {NoRec}

\* Mutation: only the payload of the earlier capture is dropped.
SupersededPayload(d, s, q) == ClearSource(d, s, {q.key})

\* Mutation: an earlier capture is dropped only once it produced a record.
SupersededProduct(d, s, q) ==
  IF Previous(d, s, q) = {} THEN d
  ELSE ClearSource(Purge(d, s, {q.key}, Previous(d, s, q), FALSE), s, {q.key})

\* Drop what derives from an earlier capture, without blocking its keys.
Superseded(d, s, q) ==
  ClearSource(Purge(d, s, {q.key}, Previous(d, s, q), FALSE), s, {q.key})

\* source_invalidated: block every target and all that derives from it.
\* The code takes the targets one by one; the closure of a union is the
\* union of the closures, and a later target finds the earlier ones' rows
\* already cleared.
Invalidated(d, s, q) ==
  IF q.class = "invalidated"
    THEN ClearSource(Purge(d, s, q.targets, {}, TRUE), s, q.targets)
    ELSE d

Queued(q, now) ==
  LET state == IF q.class = "material" THEN "accepted" ELSE "completed"
  IN [state |-> state, live |-> TRUE, record |-> NoRec,
      job |-> state, attempts |-> 0, nextAt |-> now]

Insert(d, s, q, now) == SetObs(d, s, q, Queued(q, now))

Observe(s, q) ==
  /\ clock <= LastArrival
  /\ s \in HostScopes
  /\ db.obs[s][q].state = "absent"
  /\ q.key \notin db.tomb[s]
  /\ LET fresh == Insert(Invalidated(Superseded(db, s, q), s, q), s, q, clock)
     IN db' = Bump(IF Refused(db, s, q)
                     THEN Purge(fresh, s, {q.key}, {}, TRUE) ELSE fresh)
  /\ UNCHANGED clock

-----------------------------------------------------------------------------
(* maintain(): one transaction that expires records and runs one job.      *)

\* Mutation: only episodes are swept.
LapsedEpisodes(d, now) ==
  {r \in Live(d) : PastTTL(d, r, now) /\ d.rec[r].kind = "episode"}

Lapsed(d, now) == {r \in Live(d) : PastTTL(d, r, now)}

\* Mutation: the state of the job is set along with the observation's.
ExpireJobs(d, X) ==
  [d EXCEPT
     !.rec = [r \in RecIds |->
       IF r \in X THEN [d.rec[r] EXCEPT !.status = "expired", !.fact = NoFact]
                  ELSE d.rec[r]],
     !.ver = {v \in @ : v.id \notin X},
     !.idx = @ \ X,
     !.obs = [s \in Scopes |-> [q \in Deliveries |->
       IF d.obs[s][q].record \in X
         THEN [d.obs[s][q] EXCEPT !.live = FALSE, !.state = "expired", !.job = "expired"]
         ELSE d.obs[s][q]]]]

\* Mutation: the versions and the payloads of expired records stay.
ExpireRow(d, X) ==
  [d EXCEPT
     !.rec = [r \in RecIds |->
       IF r \in X THEN [d.rec[r] EXCEPT !.status = "expired", !.fact = NoFact]
                  ELSE d.rec[r]],
     !.idx = @ \ X]

\* Dependencies of expired records stay.
Expire(d, X) ==
  [rec |-> [r \in RecIds |->
             IF r \in X THEN [d.rec[r] EXCEPT !.status = "expired", !.fact = NoFact]
                        ELSE d.rec[r]],
   ver |-> {v \in d.ver : v.id \notin X},
   idx |-> d.idx \ X,
   deps |-> d.deps,
   tomb |-> d.tomb,
   obs |-> [s \in Scopes |-> [q \in Deliveries |->
             IF d.obs[s][q].record \in X
               THEN [d.obs[s][q] EXCEPT !.live = FALSE, !.state = "expired"]
               ELSE d.obs[s][q]]],
   gen |-> d.gen]

Sweep(d, now) ==
  LET X == Lapsed(d, now)
  IN Reconcile(Expire(d, X), {d.rec[r].scope : r \in X}, Groups, now)

\* Mutation: a job is due after its time only.
DueLater(d, now) ==
  {w \in Scopes \X Deliveries :
     d.obs[w[1]][w[2]].job = "accepted" /\ d.obs[w[1]][w[2]].nextAt < now}

Due(d, now) ==
  {w \in Scopes \X Deliveries :
     d.obs[w[1]][w[2]].job = "accepted" /\ d.obs[w[1]][w[2]].nextAt <= now}

\* ORDER BY next_at, id LIMIT 1; ids are random, so ties go either way.
NextJobs(d, now) ==
  {w \in Due(d, now) : \A v \in Due(d, now) :
     d.obs[w[1]][w[2]].nextAt <= d.obs[v[1]][v[2]].nextAt}

Done(o, r) ==
  [o EXCEPT !.state = "completed", !.record = r, !.job = "completed",
            !.attempts = @ + 1]

\* save() of the derived episode, then the observation and its job.
Derive(d, s, q, r, now) ==
  LET put == Put(d, r, SavedRow(s, "episode", NoFact, now + EpisodeTTL), Cites(q))
  IN SetObs(put, s, q, Done(d.obs[s][q], r))

\* Mutation: a sweep without a job does not move the generation.
MaintainSweepSilent ==
  /\ Due(db, clock) = {} /\ Lapsed(db, clock) # {}
  /\ db' = Sweep(db, clock)
  /\ UNCHANGED clock

MaintainSweep ==
  /\ Due(db, clock) = {} /\ Lapsed(db, clock) # {}
  /\ db' = Bump(Sweep(db, clock))
  /\ UNCHANGED clock

\* Mutation: sources are checked when observed only.
MaintainJobUnchecked(s, q) ==
  /\ <<s, q>> \in NextJobs(db, clock)
  /\ \E r \in RecIds :
       /\ db.rec[r].status = "absent"
       /\ db' = Bump(Derive(Sweep(db, clock), s, q, r, clock))
  /\ UNCHANGED clock

MaintainJob(s, q) ==
  /\ <<s, q>> \in NextJobs(db, clock)
  /\ ~Blocked(db, s, Cites(q))
  /\ \E r \in RecIds :
       /\ db.rec[r].status = "absent"
       /\ db' = Bump(Derive(Sweep(db, clock), s, q, r, clock))
  /\ UNCHANGED clock

\* A source was tombstoned while the observation was queued: an early
\* return, which commits but skips bump(). (swept is bound, not named by a
\* LET, so that TLC evaluates the sweep once.)
MaintainCancel(s, q) ==
  /\ <<s, q>> \in NextJobs(db, clock)
  /\ Blocked(db, s, Cites(q))
  /\ \E swept \in {Sweep(db, clock)} : db' = Purge(swept, s, {q.key}, {}, TRUE)
  /\ UNCHANGED clock

\* Mutation: one attempt too many.
FailedOnceMore(o, now) ==
  LET n == o.attempts + 1
  IN [o EXCEPT !.attempts = n, !.nextAt = now + Backoff[n],
               !.job = IF n > MaxAttempts THEN "failed" ELSE "accepted"]

\* Processing failed: all is rolled back, the sweep too, and then the job
\* alone is updated.
Failed(o, now) ==
  LET n == o.attempts + 1
  IN [o EXCEPT !.attempts = n, !.nextAt = now + Backoff[n],
               !.job = IF n >= MaxAttempts THEN "failed" ELSE "accepted"]

MaintainFail(s, q) ==
  /\ <<s, q>> \in NextJobs(db, clock)
  /\ q.key \in FragileKeys
  /\ db' = SetObs(db, s, q, Failed(db.obs[s][q], clock))
  /\ UNCHANGED clock

Maintain ==
  \/ MaintainSweep
  \/ \E s \in Scopes, q \in Deliveries :
       MaintainJob(s, q) \/ MaintainCancel(s, q) \/ MaintainFail(s, q)

-----------------------------------------------------------------------------

Tick == clock < MaxClock /\ clock' = clock + 1 /\ UNCHANGED db

Init == db = EmptyDatabase /\ clock = 0

\* An existing database, written before observe() itself checked tombstones:
\* its queue may hold observations whose sources are already blocked.
InitUpgraded ==
  /\ clock = 0
  /\ db = [EmptyDatabase EXCEPT
       !.tomb = UpgradeTombs,
       !.obs = [s \in Scopes |-> [q \in Deliveries |->
         IF <<s, q>> \in UpgradeQueue THEN Queued(q, 0) ELSE NoObs]]]

Next ==
  \/ \E s \in Scopes, kind \in SaveKinds, f \in Facts \cup {NoFact}, src \in SourceSets :
       \E exp \in SaveExpiries(kind, clock) : Save(s, kind, f, src, exp)
  \/ \E s \in Scopes, r \in RecIds, n \in 1..MaxRevision,
        f \in Facts \cup {NoFact}, src \in SourceSets : Correct(s, r, n, f, src)
  \/ \E s \in Scopes, ids \in SUBSET RecIds :
       Forget(s, ids, [r \in ids |-> db.rec[r].rev])
  \/ \E s \in Scopes, q \in Deliveries : Observe(s, q)
  \/ Maintain
  \/ Tick

Spec == Init /\ [][Next]_vars
SpecUpgraded == InitUpgraded /\ [][Next]_vars

\* The server runs maintain() in a loop of its own, and time passes.
FairSpec == SpecUpgraded /\ WF_vars(Maintain) /\ WF_vars(Tick)

=============================================================================
