---------------------------- MODULE StoreProofs ----------------------------
(***************************************************************************)
(* Theorems about the memory store, for every set of scopes, keys,         *)
(* deliveries, records and facts and for every bound.                      *)
(***************************************************************************)
EXTENDS StoreProperties, TLAPS

-----------------------------------------------------------------------------
(* The statements of a transaction keep the tables well formed.            *)

LEMMA PutType ==
  ASSUME NEW d \in Database, NEW r \in RecIds, NEW row \in Row, NEW src \in SUBSET Keys
  PROVE  Put(d, r, row, src) \in Database
BY DEF Put, Database, Version, Row

LEMMA RowType ==
  ASSUME NEW row \in Row, NEW st \in Statuses
  PROVE  /\ [row EXCEPT !.status = st] \in Row
         /\ [row EXCEPT !.status = st, !.fact = NoFact] \in Row
BY DEF Row

LEMMA ReconcileType ==
  ASSUME NEW d \in Database, NEW ss, NEW gs, NEW now
  PROVE  Reconcile(d, ss, gs, now) \in Database
<1> DEFINE rec == Reconcile(d, ss, gs, now).rec
<1>1. Reconcile(d, ss, gs, now) = [d EXCEPT !.rec = rec]
  BY DEF Reconcile, Database
<1>2. rec \in [RecIds -> Row]
  <2>1. \A r \in RecIds, st \in Statuses :
          d.rec[r] \in Row /\ [d.rec[r] EXCEPT !.status = st] \in Row
    BY RowType DEF Database
  <2>2. {"active", "contested"} \subseteq Statuses
    BY DEF Statuses, LiveStatus
  <2> QED BY <2>1, <2>2 DEF Reconcile
<1> HIDE DEF rec
<1>3. QED 
  BY <1>1, <1>2 DEF Database

LEMMA ClearedType == ASSUME NEW o \in ObsRow PROVE Cleared(o) \in ObsRow
  BY DEF Cleared, ObsRow, ObsStates, JobStates

LEMMA SetObsType ==
  ASSUME NEW d \in Database, NEW s \in Scopes, NEW rows \in [Deliveries -> ObsRow]
  PROVE  [d EXCEPT !.obs[s] = rows] \in Database
BY DEF Database

LEMMA ClearSourceType ==
  ASSUME NEW d \in Database, NEW s \in Scopes, NEW keys
  PROVE  ClearSource(d, s, keys) \in Database
<1> DEFINE rows == [q \in Deliveries |->
     IF q.key \in keys /\ d.obs[s][q].state # "absent"
       THEN Cleared(d.obs[s][q]) ELSE d.obs[s][q]]
<1>1. rows \in [Deliveries -> ObsRow]
  BY ClearedType DEF Database
<1> QED BY <1>1, SetObsType DEF ClearSource

LEMMA ReachedKeys ==
  ASSUME NEW d, NEW s, NEW S, NEW I
  PROVE  Reached(d, s, S, I) \subseteq Keys
BY DEF Reached, Closure

LEMMA PurgeType ==
  ASSUME NEW d \in Database, NEW s \in Scopes, NEW S, NEW I, NEW block \in BOOLEAN
  PROVE  Purge(d, s, S, I, block) \in Database
<1> DEFINE e == Purge(d, s, S, I, block)
<1>1. e.rec \in [RecIds -> Row] 
  <2>1. \A r \in RecIds : /\ d.rec[r] \in Row
                          /\ [d.rec[r] EXCEPT !.status = "deleted", !.fact = NoFact] \in Row
    BY RowType DEF Database, Statuses
  <2> QED BY <2>1 DEF Purge
<1>2. e.obs \in [Scopes -> [Deliveries -> ObsRow]]
  BY ClearedType DEF Purge, Database
<1>3. QED
BY <1>1, <1>2, ReachedKeys DEF Purge, Database

LEMMA BumpType ==
  ASSUME NEW d \in Database
  PROVE  Bump(d) \in Database
BY DEF Bump, Database

LEMMA SetObsRowType ==
  ASSUME NEW d \in Database, NEW s \in Scopes, NEW q \in Deliveries, NEW row \in ObsRow
  PROVE  SetObs(d, s, q, row) \in Database
<1>1. [d.obs[s] EXCEPT ![q] = row] \in [Deliveries -> ObsRow]
  BY DEF Database
<1> QED BY <1>1, SetObsType DEF SetObs

LEMMA QueuedType ==
  ASSUME NEW q \in Deliveries, NEW now \in Nat
  PROVE  Queued(q, now) \in ObsRow
BY StoreAssumption DEF Queued, ObsRow, ObsStates, JobStates

LEMMA ExpireType ==
  ASSUME NEW d \in Database, NEW X
  PROVE  Expire(d, X) \in Database
<1>1. \A r \in RecIds : /\ d.rec[r] \in Row
                        /\ [d.rec[r] EXCEPT !.status = "expired", !.fact = NoFact] \in Row
  BY RowType DEF Database, Statuses
<1>2. \A o \in ObsRow : [o EXCEPT !.live = FALSE, !.state = "expired"] \in ObsRow
  BY DEF ObsRow, ObsStates
<1> QED BY <1>1, <1>2 DEF Expire, Database

LEMMA SweepType ==
  ASSUME NEW d \in Database, NEW now
  PROVE  Sweep(d, now) \in Database
BY ExpireType, ReconcileType DEF Sweep

LEMMA ReconcileFrame ==
  ASSUME NEW d \in Database, NEW ss, NEW gs, NEW now
  PROVE  /\ Reconcile(d, ss, gs, now).ver = d.ver
         /\ Reconcile(d, ss, gs, now).idx = d.idx
         /\ Reconcile(d, ss, gs, now).deps = d.deps
         /\ Reconcile(d, ss, gs, now).tomb = d.tomb
         /\ Reconcile(d, ss, gs, now).obs = d.obs
BY DEF Reconcile, Database

LEMMA SweepFrame ==
  ASSUME NEW d \in Database, NEW now, NEW s \in Scopes, NEW q \in Deliveries
  PROVE  /\ Sweep(d, now).deps = d.deps
         /\ Sweep(d, now).tomb = d.tomb
         /\ Sweep(d, now).obs[s][q].attempts = d.obs[s][q].attempts
         /\ Sweep(d, now).obs[s][q].job = d.obs[s][q].job
         /\ Sweep(d, now).obs[s][q].live => d.obs[s][q].live
<1> DEFINE e == Expire(d, Lapsed(d, now))
<1>1. e \in Database
  BY ExpireType
<1>2. /\ Sweep(d, now).deps = e.deps
      /\ Sweep(d, now).tomb = e.tomb
      /\ Sweep(d, now).obs = e.obs
  BY <1>1, ReconcileFrame DEF Sweep
<1>3. d.obs[s][q] \in ObsRow
  BY DEF Database
<1>4. /\ e.deps = d.deps
      /\ e.tomb = d.tomb
      /\ e.obs[s][q] = IF d.obs[s][q].record \in Lapsed(d, now)
                         THEN [d.obs[s][q] EXCEPT !.live = FALSE, !.state = "expired"]
                         ELSE d.obs[s][q]
  BY DEF Expire
<1> HIDE DEF e
<1> QED BY <1>2, <1>3, <1>4 DEF ObsRow

LEMMA SavedRowType ==
  ASSUME NEW s \in Scopes, NEW kind \in Kinds, NEW f \in Facts \cup {NoFact},
         NEW exp \in Nat \cup {Never}
  PROVE  SavedRow(s, kind, f, exp) \in Row
BY DEF SavedRow, Row, Statuses, LiveStatus

LEMMA DeliveryKeys ==
  ASSUME NEW q \in Deliveries
  PROVE  Names(q) \subseteq Cites(q) /\ Cites(q) \subseteq Keys /\ q.key \in Names(q)
BY StoreAssumption DEF Names, Cites, Delivery

LEMMA DoneType ==
  ASSUME NEW o \in ObsRow, NEW r \in RecIds, o.attempts < MaxAttempts
  PROVE  Done(o, r) \in ObsRow
<1>1. o.attempts + 1 \in 0..MaxAttempts
  BY StoreAssumption DEF ObsRow
<1> QED BY <1>1 DEF Done, ObsRow, ObsStates, JobStates

LEMMA FailedType ==
  ASSUME NEW o \in ObsRow, NEW now \in Nat, o.attempts < MaxAttempts
  PROVE  Failed(o, now) \in ObsRow
<1>1. /\ o.attempts + 1 \in 0..MaxAttempts
      /\ now + Backoff[o.attempts + 1] \in Nat
  BY StoreAssumption DEF ObsRow
<1> QED BY <1>1 DEF Failed, ObsRow, JobStates

LEMMA FailedAttempts ==
  ASSUME NEW o \in ObsRow, NEW now, o.attempts < MaxAttempts,
         Failed(o, now).job = "accepted"
  PROVE  Failed(o, now).attempts < MaxAttempts
<1>1. /\ Failed(o, now).attempts = o.attempts + 1
      /\ o.attempts + 1 >= MaxAttempts => Failed(o, now).job = "failed"
  BY DEF Failed, ObsRow
<1>2. o.attempts \in Nat /\ MaxAttempts \in Nat
  BY StoreAssumption DEF ObsRow
<1> QED BY <1>1, <1>2

-----------------------------------------------------------------------------
(* Type correctness. The number of attempts stays in its type only because *)
(* a pending job has attempts left, so the two are proved together.        *)

AttemptsLeft(d) ==
  \A s \in Scopes, q \in Deliveries :
    d.obs[s][q].job = "accepted" => d.obs[s][q].attempts < MaxAttempts

LEMMA PutAttempts ==
  ASSUME NEW d, AttemptsLeft(d), NEW r, NEW row, NEW src
  PROVE  AttemptsLeft(Put(d, r, row, src))
BY DEF AttemptsLeft, Put

LEMMA ReconcileAttempts ==
  ASSUME NEW d \in Database, AttemptsLeft(d), NEW ss, NEW gs, NEW now
  PROVE  AttemptsLeft(Reconcile(d, ss, gs, now))
BY ReconcileFrame DEF AttemptsLeft

LEMMA BumpAttempts ==
  ASSUME NEW d \in Database, AttemptsLeft(d)
  PROVE  AttemptsLeft(Bump(d))
BY DEF AttemptsLeft, Bump, Database

LEMMA ClearedAttempts ==
  ASSUME NEW o \in ObsRow
  PROVE  Cleared(o).job = "completed" /\ Cleared(o).live = FALSE
         /\ Cleared(o).record = o.record /\ Cleared(o).state = "deleted"
BY DEF Cleared, ObsRow

LEMMA SetObsFields ==
  ASSUME NEW d \in Database, NEW s \in Scopes, NEW q \in Deliveries, NEW row
  PROVE  /\ SetObs(d, s, q, row).obs = [d.obs EXCEPT ![s] = [d.obs[s] EXCEPT ![q] = row]]
         /\ SetObs(d, s, q, row).rec = d.rec
         /\ SetObs(d, s, q, row).ver = d.ver
         /\ SetObs(d, s, q, row).deps = d.deps
         /\ SetObs(d, s, q, row).tomb = d.tomb
BY DEF SetObs, Database

LEMMA SetObsRows ==
  ASSUME NEW d \in Database, NEW s \in Scopes, NEW q \in Deliveries, NEW row,
         NEW t \in Scopes, NEW p \in Deliveries
  PROVE  SetObs(d, s, q, row).obs[t][p] = IF t = s /\ p = q THEN row ELSE d.obs[t][p]
BY DEF SetObs, Database

LEMMA SetObsAttempts ==
  ASSUME NEW d \in Database, AttemptsLeft(d), NEW s \in Scopes, NEW q \in Deliveries,
         NEW row, row.job = "accepted" => row.attempts < MaxAttempts
  PROVE  AttemptsLeft(SetObs(d, s, q, row))
<1> DEFINE e == SetObs(d, s, q, row)
<1>1. \A t \in Scopes, p \in Deliveries :
        e.obs[t][p] = IF t = s /\ p = q THEN row ELSE d.obs[t][p]
  BY SetObsRows
<1> HIDE DEF e
<1>2. ASSUME NEW t \in Scopes, NEW p \in Deliveries, e.obs[t][p].job = "accepted"
      PROVE  e.obs[t][p].attempts < MaxAttempts
  <2>1. CASE t = s /\ p = q
    BY <1>1, <1>2, <2>1
  <2>2. CASE ~(t = s /\ p = q)
    BY <1>1, <1>2, <2>2 DEF AttemptsLeft
  <2> QED BY <2>1, <2>2
<1> QED BY <1>2 DEF AttemptsLeft, e

LEMMA ClearSourceObs ==
  ASSUME NEW d \in Database, NEW s \in Scopes, NEW keys
  PROVE  /\ ClearSource(d, s, keys).rec = d.rec
         /\ ClearSource(d, s, keys).ver = d.ver
         /\ ClearSource(d, s, keys).deps = d.deps
         /\ ClearSource(d, s, keys).tomb = d.tomb
         /\ \A t \in Scopes, p \in Deliveries :
              \/ ClearSource(d, s, keys).obs[t][p] = d.obs[t][p]
              \/ ClearSource(d, s, keys).obs[t][p] = Cleared(d.obs[t][p])
BY DEF ClearSource, Database

LEMMA ClearSourceAttempts ==
  ASSUME NEW d \in Database, AttemptsLeft(d), NEW s \in Scopes, NEW keys
  PROVE  AttemptsLeft(ClearSource(d, s, keys))
<1>1. \A t \in Scopes, p \in Deliveries : d.obs[t][p] \in ObsRow
  BY DEF Database
<1> DEFINE e == ClearSource(d, s, keys)
<1>2. \A t \in Scopes, p \in Deliveries :
        e.obs[t][p] \in {d.obs[t][p], Cleared(d.obs[t][p])}
  BY ClearSourceObs
<1> HIDE DEF e
<1>3. AttemptsLeft(e)
  BY <1>1, <1>2, ClearedAttempts DEF AttemptsLeft
<1> QED BY <1>3 DEF e

LEMMA PurgeObs ==
  ASSUME NEW d \in Database, NEW s \in Scopes, NEW S, NEW I, NEW block \in BOOLEAN,
         NEW t \in Scopes, NEW p \in Deliveries
  PROVE  \/ Purge(d, s, S, I, block).obs[t][p] = Cleared(d.obs[t][p])
         \/ /\ Purge(d, s, S, I, block).obs[t][p] = d.obs[t][p]
            /\ t = s /\ d.obs[t][p].live => Cites(p) \cap Reached(d, s, S, I) = {}
BY DEF Purge, Database

LEMMA PurgeAttempts ==
  ASSUME NEW d \in Database, AttemptsLeft(d), NEW s \in Scopes, NEW S, NEW I,
         NEW block \in BOOLEAN
  PROVE  AttemptsLeft(Purge(d, s, S, I, block))
<1>1. \A t \in Scopes, p \in Deliveries : d.obs[t][p] \in ObsRow
  BY DEF Database
<1> DEFINE e == Purge(d, s, S, I, block)
<1>2. \A t \in Scopes, p \in Deliveries :
        e.obs[t][p] \in {d.obs[t][p], Cleared(d.obs[t][p])}
  BY PurgeObs
<1> HIDE DEF e
<1>3. AttemptsLeft(e)
  BY <1>1, <1>2, ClearedAttempts DEF AttemptsLeft
<1> QED BY <1>3 DEF e

LEMMA BumpWellFormed ==
  ASSUME NEW d \in Database, AttemptsLeft(d)
  PROVE  Bump(d) \in Database /\ AttemptsLeft(Bump(d))
BY BumpType, BumpAttempts

TypeInv == TypeOK /\ AttemptsLeft(db)

LEMMA InitTypeInv == Init => TypeInv
<1>1. NoRow \in Row
  BY StoreAssumption DEF NoRow, Row, Kinds, Statuses
<1>2. NoObs \in ObsRow
  BY StoreAssumption DEF NoObs, ObsRow, ObsStates, JobStates
<1>3. EmptyDatabase \in Database
  BY <1>1, <1>2 DEF EmptyDatabase, Database
<1>4. Init => AttemptsLeft(db)
  BY DEF Init, AttemptsLeft, EmptyDatabase, NoObs
<1> QED BY <1>3, <1>4, BoundAssumption DEF Init, TypeOK, TypeInv

LEMMA SaveExpiryType ==
  ASSUME TypeOK, NEW kind, NEW exp \in SaveExpiries(kind, clock)
  PROVE  exp \in Nat \cup {Never}
<1>1. clock + EpisodeTTL \in Nat /\ GivenExpiry \subseteq Nat
  BY StoreAssumption, BoundAssumption DEF TypeOK
<1> QED BY <1>1 DEF SaveExpiries

LEMMA SaveTypeInv ==
  ASSUME TypeInv, NEW s \in Scopes, NEW kind \in SaveKinds,
         NEW f \in Facts \cup {NoFact}, NEW src \in SourceSets,
         NEW exp \in SaveExpiries(kind, clock), Save(s, kind, f, src, exp)
  PROVE  TypeInv'
<1>1. PICK r \in RecIds :
        LET saved == Put(db, r, SavedRow(s, kind, f, exp), src)
        IN db' = Bump(IF kind = "fact" THEN Reconcile(saved, {s}, {f.group}, clock)
                                       ELSE saved)
  BY DEF Save
<1> DEFINE saved == Put(db, r, SavedRow(s, kind, f, exp), src)
<1>2. SavedRow(s, kind, f, exp) \in Row
  BY SaveExpiryType, SavedRowType, BoundAssumption DEF TypeInv
<1>3. saved \in Database /\ AttemptsLeft(saved)
  BY <1>2, PutType, PutAttempts, BoundAssumption DEF TypeInv, TypeOK
<1>4. db' = Bump(IF kind = "fact" THEN Reconcile(saved, {s}, {f.group}, clock)
                                  ELSE saved)
  BY <1>1
<1> HIDE DEF saved
<1> QED BY <1>3, <1>4, ReconcileType, ReconcileAttempts, BumpWellFormed
        DEF Save, TypeInv, TypeOK

LEMMA CorrectTypeInv ==
  ASSUME TypeInv, NEW s \in Scopes, NEW r \in RecIds, NEW n,
         NEW f \in Facts \cup {NoFact}, NEW src \in SourceSets,
         Correct(s, r, n, f, src)
  PROVE  TypeInv'
<1>1. db.rec[r] \in Row
  BY DEF TypeInv, TypeOK, Database
<1>2. Corrected(db.rec[r], f) \in Row
  <2>1. db.rec[r].rev + 1 \in Nat /\ "active" \in Statuses
    BY <1>1 DEF Row, Statuses, LiveStatus
  <2> QED BY <1>1, <2>1 DEF Corrected, Row
<1> DEFINE put == Put(db, r, Corrected(db.rec[r], f), src)
<1>3. put \in Database /\ AttemptsLeft(put)
  BY <1>2, PutType, PutAttempts, BoundAssumption DEF TypeInv, TypeOK
<1>4. db' = Bump(IF f # NoFact
                   THEN Reconcile(put, {s}, Regrouped(db.rec[r], f), clock)
                   ELSE put)
  BY DEF Correct
<1> HIDE DEF put
<1> QED BY <1>3, <1>4, ReconcileType, ReconcileAttempts, BumpWellFormed
        DEF Correct, TypeInv, TypeOK

LEMMA ForgetTypeInv ==
  ASSUME TypeInv, NEW s \in Scopes, NEW ids, NEW revs, Forget(s, ids, revs)
  PROVE  TypeInv'
<1> DEFINE purged == Purge(db, s, {}, ids, TRUE)
<1>1. purged \in Database /\ AttemptsLeft(purged)
  BY PurgeType, PurgeAttempts DEF TypeInv, TypeOK
<1>2. db' = Bump(Reconcile(purged, {s}, Groups, clock))
  BY DEF Forget
<1> HIDE DEF purged
<1> QED BY <1>1, <1>2, ReconcileType, ReconcileAttempts, BumpWellFormed
        DEF Forget, TypeInv, TypeOK

LEMMA ObserveTypeInv ==
  ASSUME TypeInv, NEW s \in Scopes, NEW q \in Deliveries, Observe(s, q)
  PROVE  TypeInv'
<1> DEFINE superseded == Superseded(db, s, q)
           invalidated == Invalidated(superseded, s, q)
           fresh == Insert(invalidated, s, q, clock)
<1>1. superseded \in Database /\ AttemptsLeft(superseded)
  BY PurgeType, PurgeAttempts, ClearSourceType, ClearSourceAttempts
     DEF Superseded, TypeInv, TypeOK
<1>2. invalidated \in Database /\ AttemptsLeft(invalidated)
  <2> HIDE DEF superseded
  <2> QED BY <1>1, PurgeType, PurgeAttempts, ClearSourceType, ClearSourceAttempts
          DEF Invalidated
<1>3. fresh \in Database /\ AttemptsLeft(fresh)
  <2> HIDE DEF invalidated
  <2>1. Queued(q, clock) \in ObsRow /\ Queued(q, clock).attempts < MaxAttempts
    BY QueuedType, BoundAssumption, StoreAssumption DEF Queued, TypeInv, TypeOK
  <2> QED BY <1>2, <2>1, SetObsRowType, SetObsAttempts DEF Insert
<1>4. db' = Bump(IF Refused(db, s, q) THEN Purge(fresh, s, {q.key}, {}, TRUE) ELSE fresh)
  BY DEF Observe
<1> HIDE DEF fresh
<1> QED BY <1>3, <1>4, PurgeType, PurgeAttempts, BumpWellFormed DEF Observe, TypeInv, TypeOK

LEMMA SweepAttempts ==
  ASSUME NEW d \in Database, AttemptsLeft(d), NEW now
  PROVE  AttemptsLeft(Sweep(d, now))
BY SweepFrame DEF AttemptsLeft

LEMMA MaintainTypeInv ==
  ASSUME TypeInv, Maintain
  PROVE  TypeInv'
<1> DEFINE swept == Sweep(db, clock)
<1>1. swept \in Database /\ AttemptsLeft(swept)
  BY SweepType, SweepAttempts DEF TypeInv, TypeOK
<1>2. \A s \in Scopes, q \in Deliveries : <<s, q>> \in NextJobs(db, clock) =>
        /\ db.obs[s][q] \in ObsRow /\ swept.obs[s][q] \in ObsRow
        /\ db.obs[s][q].job = "accepted" /\ db.obs[s][q].attempts < MaxAttempts
        /\ swept.obs[s][q].attempts < MaxAttempts
  <2>1. \A s \in Scopes, q \in Deliveries : <<s, q>> \in NextJobs(db, clock) =>
          db.obs[s][q].job = "accepted"
    BY DEF NextJobs, Due
  <2>2. \A s \in Scopes, q \in Deliveries :
          swept.obs[s][q].attempts = db.obs[s][q].attempts
    BY SweepFrame DEF TypeInv, TypeOK
  <2> HIDE DEF swept
  <2> QED BY <1>1, <2>1, <2>2 DEF AttemptsLeft, TypeInv, TypeOK, Database
<1> HIDE DEF swept
<1>3. CASE MaintainSweep
  BY <1>1, <1>3, BumpWellFormed DEF MaintainSweep, swept, TypeInv, TypeOK
<1>4. ASSUME NEW s \in Scopes, NEW q \in Deliveries, MaintainJob(s, q)
      PROVE  TypeInv'
  <2>1. PICK r \in RecIds : db' = Bump(Derive(swept, s, q, r, clock))
    BY <1>4 DEF MaintainJob, swept
  <2> DEFINE put == Put(swept, r, SavedRow(s, "episode", NoFact, clock + EpisodeTTL), Cites(q))
             row == Done(swept.obs[s][q], r)
  <2>2. clock + EpisodeTTL \in Nat
    BY StoreAssumption, BoundAssumption DEF TypeInv, TypeOK
  <2>3. put \in Database /\ AttemptsLeft(put)
    BY <1>1, <2>2, SavedRowType, DeliveryKeys, PutType, PutAttempts DEF Kinds
  <2>4. row \in ObsRow /\ row.job = "completed"
    BY <1>2, <1>4, DoneType DEF MaintainJob, Done, ObsRow
  <2>5. Derive(swept, s, q, r, clock) = SetObs(put, s, q, row)
    BY DEF Derive
  <2> HIDE DEF put, row
  <2> QED BY <1>4, <2>1, <2>3, <2>4, <2>5, SetObsRowType, SetObsAttempts, BumpWellFormed
          DEF MaintainJob, TypeInv, TypeOK
<1>5. ASSUME NEW s \in Scopes, NEW q \in Deliveries, MaintainCancel(s, q)
      PROVE  TypeInv'
  BY <1>1, <1>5, PurgeType, PurgeAttempts DEF MaintainCancel, swept, TypeInv, TypeOK
<1>6. ASSUME NEW s \in Scopes, NEW q \in Deliveries, MaintainFail(s, q)
      PROVE  TypeInv'
  <2> DEFINE row == Failed(db.obs[s][q], clock)
  <2>1. row \in ObsRow
    BY <1>2, <1>6, FailedType, BoundAssumption DEF MaintainFail, TypeInv, TypeOK
  <2>2. row.job = "accepted" => row.attempts < MaxAttempts
    BY <1>2, <1>6, FailedAttempts DEF MaintainFail
  <2>3. db' = SetObs(db, s, q, row)
    BY <1>6 DEF MaintainFail
  <2> HIDE DEF row
  <2> QED BY <1>6, <2>1, <2>2, <2>3, SetObsRowType, SetObsAttempts
          DEF MaintainFail, TypeInv, TypeOK
<1> QED BY <1>3, <1>4, <1>5, <1>6 DEF Maintain

LEMMA NextTypeInv == TypeInv /\ [Next]_vars => TypeInv'
<1> SUFFICES ASSUME TypeInv, [Next]_vars PROVE TypeInv'
  OBVIOUS
<1>1. CASE Tick
  BY <1>1, BoundAssumption DEF Tick, TypeInv, TypeOK, AttemptsLeft
<1>2. CASE UNCHANGED vars
  BY <1>2 DEF vars, TypeInv, TypeOK, AttemptsLeft
<1> QED BY <1>1, <1>2, SaveTypeInv, CorrectTypeInv, ForgetTypeInv, ObserveTypeInv,
           MaintainTypeInv DEF Next

\* The tables stay well formed, and a pending job always has attempts left,
\* whatever is saved, observed, invalidated, forgotten and expired.
THEOREM StoreTypeCorrect == Spec => []TypeOK
<1>1. TypeInv => TypeOK
  BY DEF TypeInv
<1> QED BY <1>1, InitTypeInv, NextTypeInv, PTL DEF Spec

-----------------------------------------------------------------------------
(* No survivor of a tombstone. NoTombstonedRecord is not inductive by      *)
(* itself: erase finds a record through its dependency rows, so they must  *)
(* cover the citations of every stored revision, and a fresh id must not   *)
(* inherit rows.                                                           *)

RecordsClean(d) ==
  /\ \A r \in RecIds : /\ d.deps[r] \cap d.tomb[d.rec[r].scope] = {}
                       /\ d.rec[r].status = "absent" => d.deps[r] = {}
  /\ \A v \in d.ver : v.cites \subseteq d.deps[v.id]

PayloadsClean(d) ==
  \A s \in Scopes, q \in Deliveries :
    d.obs[s][q].live /\ q.class # "invalidated" => Cites(q) \cap d.tomb[s] = {}

\* Two databases with the same dependencies, tombstones, versions (or fewer),
\* scopes and presence.
SameLineage(d, e) ==
  /\ e.deps = d.deps /\ e.tomb = d.tomb /\ e.ver \subseteq d.ver
  /\ \A r \in RecIds : /\ e.rec[r].scope = d.rec[r].scope
                       /\ e.rec[r].status = "absent" <=> d.rec[r].status = "absent"

LEMMA SameLineageClean ==
  ASSUME NEW d, NEW e, SameLineage(d, e), RecordsClean(d)
  PROVE  RecordsClean(e)
<1>1. ASSUME NEW r \in RecIds
      PROVE  /\ e.deps[r] \cap e.tomb[e.rec[r].scope] = {}
             /\ e.rec[r].status = "absent" => e.deps[r] = {}
  <2>1. /\ e.deps[r] = d.deps[r]
        /\ e.tomb[e.rec[r].scope] = d.tomb[d.rec[r].scope]
        /\ e.rec[r].status = "absent" => d.rec[r].status = "absent"
    BY DEF SameLineage
  <2> QED BY <2>1 DEF RecordsClean
<1>2. \A v \in e.ver : v.cites \subseteq e.deps[v.id]
  BY DEF SameLineage, RecordsClean
<1> QED BY <1>1, <1>2 DEF RecordsClean

\* No payload comes to life.
FewerPayloads(d, e) ==
  /\ e.tomb = d.tomb
  /\ \A s \in Scopes, q \in Deliveries : e.obs[s][q].live => d.obs[s][q].live

LEMMA FewerPayloadsClean ==
  ASSUME NEW d, NEW e, FewerPayloads(d, e), PayloadsClean(d)
  PROVE  PayloadsClean(e)
BY DEF FewerPayloads, PayloadsClean

LEMMA LineageTransitive ==
  ASSUME NEW a, NEW b, NEW c, SameLineage(a, b), SameLineage(b, c),
         FewerPayloads(a, b), FewerPayloads(b, c)
  PROVE  SameLineage(a, c) /\ FewerPayloads(a, c)
<1>1. SameLineage(a, c)
  <2>1. ASSUME NEW r \in RecIds
        PROVE  /\ c.rec[r].scope = a.rec[r].scope
               /\ c.rec[r].status = "absent" <=> a.rec[r].status = "absent"
    <3>1. /\ c.rec[r].scope = b.rec[r].scope
          /\ c.rec[r].status = "absent" <=> b.rec[r].status = "absent"
      BY DEF SameLineage
    <3>2. /\ b.rec[r].scope = a.rec[r].scope
          /\ b.rec[r].status = "absent" <=> a.rec[r].status = "absent"
      BY DEF SameLineage
    <3> QED BY <3>1, <3>2
  <2>2. c.deps = a.deps /\ c.tomb = a.tomb /\ c.ver \subseteq a.ver
    BY DEF SameLineage
  <2> QED BY <2>1, <2>2 DEF SameLineage
<1>2. FewerPayloads(a, c)
  BY DEF FewerPayloads
<1> QED BY <1>1, <1>2

LEMMA BumpLineage ==
  ASSUME NEW d \in Database
  PROVE  SameLineage(d, Bump(d)) /\ FewerPayloads(d, Bump(d))
BY DEF SameLineage, FewerPayloads, Bump, Database

LEMMA ReconcileLineage ==
  ASSUME NEW d \in Database, NEW ss, NEW gs, NEW now
  PROVE  SameLineage(d, Reconcile(d, ss, gs, now))
         /\ FewerPayloads(d, Reconcile(d, ss, gs, now))
<1>1. ASSUME NEW r \in RecIds
      PROVE  LET x == Reconcile(d, ss, gs, now).rec[r]
             IN /\ x.scope = d.rec[r].scope
                /\ x.status = "absent" <=> d.rec[r].status = "absent"
  <2>1. d.rec[r] \in Row
    BY DEF Database
  <2>2. \/ Reconcile(d, ss, gs, now).rec[r] = d.rec[r]
        \/ /\ d.rec[r].status # "absent"
           /\ \E st \in {"active", "contested"} :
                Reconcile(d, ss, gs, now).rec[r] = [d.rec[r] EXCEPT !.status = st]
    BY DEF Reconcile, Database, Readable, Live, LiveStatus
  <2> QED BY <2>1, <2>2 DEF Row
<1> QED BY <1>1, ReconcileFrame DEF SameLineage, FewerPayloads

LEMMA ExpireLineage ==
  ASSUME NEW d \in Database, NEW X, X \cap {r \in RecIds : d.rec[r].status = "absent"} = {}
  PROVE  SameLineage(d, Expire(d, X)) /\ FewerPayloads(d, Expire(d, X))
<1>1. ASSUME NEW r \in RecIds
      PROVE  LET x == Expire(d, X).rec[r]
             IN /\ x.scope = d.rec[r].scope
                /\ x.status = "absent" <=> d.rec[r].status = "absent"
  <2>1. d.rec[r] \in Row
    BY DEF Database
  <2> QED BY <2>1 DEF Expire, Row
<1>2. ASSUME NEW s \in Scopes, NEW q \in Deliveries, Expire(d, X).obs[s][q].live
      PROVE  d.obs[s][q].live
  <2>1. d.obs[s][q] \in ObsRow
    BY DEF Database
  <2> QED BY <1>2, <2>1 DEF Expire, ObsRow
<1> QED BY <1>1, <1>2 DEF SameLineage, FewerPayloads, Expire

LEMMA SweepLineage ==
  ASSUME NEW d \in Database, NEW now
  PROVE  SameLineage(d, Sweep(d, now)) /\ FewerPayloads(d, Sweep(d, now))
<1> DEFINE e == Expire(d, Lapsed(d, now))
<1>1. SameLineage(d, e) /\ FewerPayloads(d, e) /\ e \in Database
  BY ExpireLineage, ExpireType DEF Lapsed, Live, LiveStatus
<1>2. SameLineage(e, Sweep(d, now)) /\ FewerPayloads(e, Sweep(d, now))
  BY <1>1, ReconcileLineage DEF Sweep
<1> QED BY <1>1, <1>2, LineageTransitive

LEMMA ClearSourceLineage ==
  ASSUME NEW d \in Database, NEW s \in Scopes, NEW keys
  PROVE  SameLineage(d, ClearSource(d, s, keys)) /\ FewerPayloads(d, ClearSource(d, s, keys))
<1>1. \A t \in Scopes, p \in Deliveries : d.obs[t][p] \in ObsRow
  BY DEF Database
<1> DEFINE e == ClearSource(d, s, keys)
<1>2. /\ e.rec = d.rec /\ e.ver = d.ver /\ e.deps = d.deps /\ e.tomb = d.tomb
      /\ \A t \in Scopes, p \in Deliveries : e.obs[t][p] \in {d.obs[t][p], Cleared(d.obs[t][p])}
  BY ClearSourceObs
<1> HIDE DEF e
<1>3. SameLineage(d, e) /\ FewerPayloads(d, e)
  BY <1>1, <1>2, ClearedAttempts DEF SameLineage, FewerPayloads
<1> QED BY <1>3 DEF e

\* Storing a revision that cites nothing blocked.
LEMMA PutClean ==
  ASSUME NEW d \in Database, RecordsClean(d), NEW r \in RecIds, NEW row \in Row,
         NEW src \in SUBSET Keys, src \cap d.tomb[row.scope] = {},
         row.status # "absent",
         d.rec[r].status = "absent" \/ d.rec[r].scope = row.scope
  PROVE  /\ RecordsClean(Put(d, r, row, src))
         /\ FewerPayloads(d, Put(d, r, row, src))
<1> DEFINE e == Put(d, r, row, src)
<1>1. /\ \A o \in RecIds : /\ e.rec[o] = IF o = r THEN row ELSE d.rec[o]
                           /\ e.deps[o] = IF o = r THEN d.deps[r] \cup src ELSE d.deps[o]
      /\ e.tomb = d.tomb /\ e.obs = d.obs
      /\ \A v \in e.ver : v \in d.ver \/ (v.id = r /\ v.cites = src)
  BY DEF Put, Database
<1>2. \A v \in d.ver : v.id \in RecIds
  BY DEF Database, Version
<1>3. \A v \in e.ver : v.cites \subseteq e.deps[v.id]
  <2> HIDE DEF e
  <2> QED BY <1>1, <1>2 DEF RecordsClean
<1>4. ASSUME NEW o \in RecIds
      PROVE  /\ e.deps[o] \cap e.tomb[e.rec[o].scope] = {}
             /\ e.rec[o].status = "absent" => e.deps[o] = {}
  <2> HIDE DEF e
  <2>0. /\ d.deps[o] \cap d.tomb[d.rec[o].scope] = {}
        /\ d.rec[o].status = "absent" => d.deps[o] = {}
    BY DEF RecordsClean
  <2>1. CASE o = r
    <3>1. e.deps[o] = d.deps[r] \cup src /\ e.rec[o] = row /\ e.tomb = d.tomb
      BY <1>1, <2>1
    <3>2. d.deps[r] \cap d.tomb[row.scope] = {}
      BY <2>0, <2>1
    <3> QED BY <3>1, <3>2
  <2>2. CASE o # r
    <3>1. e.deps[o] = d.deps[o] /\ e.rec[o] = d.rec[o] /\ e.tomb = d.tomb
      BY <1>1, <2>2
    <3> QED BY <2>0, <3>1
  <2> QED BY <2>1, <2>2
<1> HIDE DEF e
<1>5. RecordsClean(e) /\ FewerPayloads(d, e)
  BY <1>1, <1>3, <1>4 DEF RecordsClean, FewerPayloads
<1> QED BY <1>5 DEF e

LEMMA ReachedSeeds ==
  ASSUME NEW d, NEW s, NEW S \in SUBSET Keys, NEW I
  PROVE  S \subseteq Reached(d, s, S, I)
BY DEF Reached, Closure

\* Whatever is blocked by a purge, no record still depends on it.
LEMMA PurgeRecordsClean ==
  ASSUME NEW d \in Database, RecordsClean(d), NEW s \in Scopes, NEW S, NEW I,
         NEW block \in BOOLEAN
  PROVE  RecordsClean(Purge(d, s, S, I, block))
<1> DEFINE K == Reached(d, s, S, I)
           R == {r \in Present(d, s) : r \in I \/ d.deps[r] \cap K # {}}
           e == Purge(d, s, S, I, block)
<1>1. \A r \in RecIds :
        /\ e.deps[r] = IF r \in R THEN {} ELSE d.deps[r]
        /\ e.rec[r] = IF r \in R THEN [d.rec[r] EXCEPT !.status = "deleted", !.fact = NoFact]
                                ELSE d.rec[r]
  BY DEF Purge
<1>2. \A t \in Scopes : e.tomb[t] \subseteq IF t = s THEN d.tomb[s] \cup K ELSE d.tomb[t]
  BY DEF Purge, Database
<1>3. e.ver = {v \in d.ver : v.id \notin R}
  BY DEF Purge
<1>4. \A r \in RecIds : d.rec[r] \in Row
  BY DEF Database
<1>5. \A v \in d.ver : v.id \in RecIds
  BY DEF Database, Version
<1>6. \A r \in RecIds : r \notin R /\ d.rec[r].status # "absent" /\ d.rec[r].scope = s
                        => d.deps[r] \cap K = {}
  BY DEF Present
<1> HIDE DEF K, R, e
<1>7. \A r \in RecIds : e.rec[r].scope = d.rec[r].scope /\ d.rec[r].scope \in Scopes
                      /\ (e.rec[r].status = "absent" => d.rec[r].status = "absent")
  BY <1>1, <1>4 DEF Row
<1>8. ASSUME NEW r \in RecIds
      PROVE  /\ e.deps[r] \cap e.tomb[e.rec[r].scope] = {}
             /\ e.rec[r].status = "absent" => e.deps[r] = {}
  <2>1. CASE r \in R
    BY <1>1, <2>1
  <2>2. CASE r \notin R
    <3>1. /\ e.deps[r] = d.deps[r] /\ e.rec[r] = d.rec[r]
          /\ d.deps[r] \cap d.tomb[d.rec[r].scope] = {}
          /\ d.rec[r].status = "absent" => d.deps[r] = {}
      BY <1>1, <2>2 DEF RecordsClean
    <3>2. CASE d.rec[r].scope = s
      <4>1. e.tomb[s] \subseteq d.tomb[s] \cup K
        BY <1>2
      <4>2. d.rec[r].status # "absent" => d.deps[r] \cap K = {}
        BY <1>6, <2>2, <3>2
      <4> QED BY <3>1, <3>2, <4>1, <4>2
    <3>3. CASE d.rec[r].scope # s
      <4>1. e.tomb[d.rec[r].scope] \subseteq d.tomb[d.rec[r].scope]
        BY <1>2, <1>7, <3>3
      <4> QED BY <3>1, <4>1
    <3> QED BY <3>2, <3>3
  <2> QED BY <2>1, <2>2
<1>9. \A v \in e.ver : v.cites \subseteq e.deps[v.id]
  BY <1>1, <1>3, <1>5 DEF RecordsClean
<1> QED BY <1>8, <1>9 DEF RecordsClean, e

\* Nor does a payload that the purge leaves cite it: only payloads that it
\* clears may have cited a blocked key before.
LEMMA PurgePayloadsClean ==
  ASSUME NEW d \in Database, NEW s \in Scopes, NEW S, NEW I, NEW block \in BOOLEAN,
         \A t \in Scopes, p \in Deliveries :
           /\ d.obs[t][p].live /\ p.class # "invalidated"
           /\ t = s => Cites(p) \cap Reached(d, s, S, I) = {}
           => Cites(p) \cap d.tomb[t] = {}
  PROVE  PayloadsClean(Purge(d, s, S, I, block))
<1> DEFINE K == Reached(d, s, S, I)
           e == Purge(d, s, S, I, block)
<1>1. \A t \in Scopes : e.tomb[t] \subseteq IF t = s THEN d.tomb[s] \cup K ELSE d.tomb[t]
  BY DEF Purge, Database
<1>2. ASSUME NEW t \in Scopes, NEW p \in Deliveries, e.obs[t][p].live,
             p.class # "invalidated"
      PROVE  Cites(p) \cap e.tomb[t] = {}
  <2>1. d.obs[t][p] \in ObsRow
    BY DEF Database
  <2>2. d.obs[t][p].live /\ (t = s => Cites(p) \cap K = {})
    <3>1. \/ e.obs[t][p] = Cleared(d.obs[t][p])
          \/ /\ e.obs[t][p] = d.obs[t][p]
             /\ t = s /\ d.obs[t][p].live => Cites(p) \cap K = {}
      BY PurgeObs
    <3>2. Cleared(d.obs[t][p]).live = FALSE
      BY <2>1, ClearedAttempts
    <3> HIDE DEF e, K
    <3> QED BY <1>2, <3>1, <3>2
  <2>3. Cites(p) \cap d.tomb[t] = {}
    BY <1>2, <2>2
  <2> HIDE DEF e, K
  <2> QED BY <1>1, <2>2, <2>3
<1> QED BY <1>2 DEF PayloadsClean

\* A statement that leaves clean tables clean.
Keeps(d, e) == /\ RecordsClean(d) => RecordsClean(e)
               /\ PayloadsClean(d) => PayloadsClean(e)

LEMMA LineageKeeps ==
  ASSUME NEW d, NEW e, SameLineage(d, e), FewerPayloads(d, e)
  PROVE  Keeps(d, e)
BY SameLineageClean, FewerPayloadsClean DEF Keeps

LEMMA KeepsTransitive ==
  ASSUME NEW a, NEW b, NEW c, Keeps(a, b), Keeps(b, c)
  PROVE  Keeps(a, c)
BY DEF Keeps

LEMMA PutKeeps ==
  ASSUME NEW d \in Database, NEW r \in RecIds, NEW row \in Row,
         NEW src \in SUBSET Keys, src \cap d.tomb[row.scope] = {},
         row.status # "absent",
         d.rec[r].status = "absent" \/ d.rec[r].scope = row.scope
  PROVE  Keeps(d, Put(d, r, row, src))
<1>1. FewerPayloads(d, Put(d, r, row, src))
  BY DEF FewerPayloads, Put
<1> QED BY <1>1, FewerPayloadsClean, PutClean DEF Keeps

LEMMA PurgeKeeps ==
  ASSUME NEW d \in Database, NEW s \in Scopes, NEW S, NEW I, NEW block \in BOOLEAN
  PROVE  Keeps(d, Purge(d, s, S, I, block))
<1>1. PayloadsClean(d) => PayloadsClean(Purge(d, s, S, I, block))
  <2> SUFFICES ASSUME PayloadsClean(d) PROVE PayloadsClean(Purge(d, s, S, I, block))
    OBVIOUS
  <2>1. \A t \in Scopes, p \in Deliveries :
          d.obs[t][p].live /\ p.class # "invalidated" => Cites(p) \cap d.tomb[t] = {}
    BY DEF PayloadsClean
  <2> QED BY <2>1, PurgePayloadsClean
<1> QED BY <1>1, PurgeRecordsClean DEF Keeps

LEMMA ReconcileKeeps ==
  ASSUME NEW d \in Database, NEW ss, NEW gs, NEW now
  PROVE  Keeps(d, Reconcile(d, ss, gs, now))
BY ReconcileLineage, LineageKeeps

LEMMA BumpKeeps == ASSUME NEW d \in Database PROVE Keeps(d, Bump(d))
BY BumpLineage, LineageKeeps

\* Changing an observation touches no record, and its payload when the new
\* row is retained only if the old one was, or cites nothing blocked.
LEMMA SetObsKeeps ==
  ASSUME NEW d \in Database, NEW s \in Scopes, NEW q \in Deliveries, NEW row
  PROVE  /\ RecordsClean(d) => RecordsClean(SetObs(d, s, q, row))
         /\ (row.live => \/ d.obs[s][q].live
                         \/ q.class = "invalidated"
                         \/ Cites(q) \cap d.tomb[s] = {})
              => Keeps(d, SetObs(d, s, q, row))
<1> DEFINE e == SetObs(d, s, q, row)
<1>1. e.rec = d.rec /\ e.ver = d.ver /\ e.deps = d.deps /\ e.tomb = d.tomb
  BY DEF SetObs, Database
<1>2. \A t \in Scopes, p \in Deliveries :
        e.obs[t][p] = IF t = s /\ p = q THEN row ELSE d.obs[t][p]
  BY SetObsRows
<1> HIDE DEF e
<1>3. RecordsClean(d) => RecordsClean(e)
  <2>1. SameLineage(d, e)
    BY <1>1 DEF SameLineage
  <2> QED BY <2>1, SameLineageClean
<1>4. ASSUME PayloadsClean(d),
             row.live => \/ d.obs[s][q].live
                         \/ q.class = "invalidated"
                         \/ Cites(q) \cap d.tomb[s] = {},
             NEW t \in Scopes, NEW p \in Deliveries,
             e.obs[t][p].live, p.class # "invalidated"
      PROVE  Cites(p) \cap e.tomb[t] = {}
  <2>1. CASE t = s /\ p = q
    BY <1>1, <1>2, <1>4, <2>1 DEF PayloadsClean
  <2>2. CASE ~(t = s /\ p = q)
    <3>1. d.obs[t][p].live
      BY <1>2, <1>4, <2>2
    <3> QED BY <1>1, <1>4, <3>1 DEF PayloadsClean
  <2> QED BY <2>1, <2>2
<1>5. QED
  BY <1>3, <1>4 DEF Keeps, PayloadsClean, e

LEMMA SaveKeeps ==
  ASSUME TypeOK, NEW s \in Scopes, NEW kind \in SaveKinds,
         NEW f \in Facts \cup {NoFact}, NEW src \in SourceSets,
         NEW exp \in SaveExpiries(kind, clock), Save(s, kind, f, src, exp)
  PROVE  Keeps(db, db')
<1>1. PICK r \in RecIds :
        /\ db.rec[r].status = "absent"
        /\ LET saved == Put(db, r, SavedRow(s, kind, f, exp), src)
           IN db' = Bump(IF kind = "fact" THEN Reconcile(saved, {s}, {f.group}, clock)
                                          ELSE saved)
  BY DEF Save
<1> DEFINE row == SavedRow(s, kind, f, exp)
           saved == Put(db, r, row, src)
           settled == IF kind = "fact" THEN Reconcile(saved, {s}, {f.group}, clock)
                                       ELSE saved
<1>2. row \in Row /\ row.scope = s /\ row.status # "absent"
  BY SaveExpiryType, SavedRowType, BoundAssumption DEF SavedRow
<1>3. src \in SUBSET Keys /\ src \cap db.tomb[s] = {} /\ db \in Database
  BY BoundAssumption DEF Save, Blocked, TypeOK
<1> HIDE DEF row
<1>4. saved \in Database /\ Keeps(db, saved)
  BY <1>1, <1>2, <1>3, PutType, PutKeeps
<1>5. db' = Bump(settled)
  BY <1>1 DEF row
<1> HIDE DEF saved
<1>6. settled \in Database /\ Keeps(db, settled)
  BY <1>4, ReconcileType, ReconcileKeeps, KeepsTransitive
<1> HIDE DEF settled
<1> QED BY <1>5, <1>6, BumpKeeps, KeepsTransitive

LEMMA CorrectKeeps ==
  ASSUME TypeOK, NEW s \in Scopes, NEW r \in RecIds, NEW n,
         NEW f \in Facts \cup {NoFact}, NEW src \in SourceSets,
         Correct(s, r, n, f, src)
  PROVE  Keeps(db, db')
<1> DEFINE row == Corrected(db.rec[r], f)
           put == Put(db, r, row, src)
           settled == IF f # NoFact
                        THEN Reconcile(put, {s}, Regrouped(db.rec[r], f), clock)
                        ELSE put
<1>1. db.rec[r] \in Row /\ db.rec[r].scope = s
  BY DEF TypeOK, Database, Correct, Readable
<1>2. row \in Row /\ row.scope = s /\ row.status # "absent"
  <2>1. db.rec[r].rev + 1 \in Nat /\ "active" \in Statuses
    BY <1>1 DEF Row, Statuses, LiveStatus
  <2> QED BY <1>1, <2>1 DEF Corrected, Row
<1>3. src \in SUBSET Keys /\ src \cap db.tomb[s] = {} /\ db \in Database
  BY BoundAssumption DEF Correct, Blocked, TypeOK
<1>5. db' = Bump(settled)
  BY DEF Correct
<1> HIDE DEF row
<1>4. put \in Database /\ Keeps(db, put)
  BY <1>1, <1>2, <1>3, PutType, PutKeeps
<1> HIDE DEF put
<1>6. settled \in Database /\ Keeps(db, settled)
  BY <1>4, ReconcileType, ReconcileKeeps, KeepsTransitive
<1> HIDE DEF settled
<1> QED BY <1>5, <1>6, BumpKeeps, KeepsTransitive

LEMMA ForgetKeeps ==
  ASSUME TypeOK, NEW s \in Scopes, NEW ids, NEW revs, Forget(s, ids, revs)
  PROVE  Keeps(db, db')
<1> DEFINE purged == Purge(db, s, {}, ids, TRUE)
           settled == Reconcile(purged, {s}, Groups, clock)
<1>1. purged \in Database /\ Keeps(db, purged)
  BY PurgeType, PurgeKeeps DEF TypeOK
<1>2. db' = Bump(settled)
  BY DEF Forget
<1> HIDE DEF purged
<1>3. settled \in Database /\ Keeps(db, settled)
  BY <1>1, ReconcileType, ReconcileKeeps, KeepsTransitive
<1> HIDE DEF settled
<1> QED BY <1>2, <1>3, BumpKeeps, KeepsTransitive

\* Superseding an earlier capture drops rows and blocks nothing.
LEMMA SupersededKeeps ==
  ASSUME NEW d \in Database, NEW s \in Scopes, NEW q \in Deliveries
  PROVE  /\ Superseded(d, s, q) \in Database
         /\ Keeps(d, Superseded(d, s, q))
         /\ Superseded(d, s, q).tomb = d.tomb
<1> DEFINE purged == Purge(d, s, {q.key}, Previous(d, s, q), FALSE)
<1>1. purged \in Database /\ Keeps(d, purged)
  BY PurgeType, PurgeKeeps
<1>2. purged.tomb = d.tomb
  BY DEF Purge, Database
<1>3. Superseded(d, s, q) = ClearSource(purged, s, {q.key})
  BY DEF Superseded
<1> HIDE DEF purged
<1> QED BY <1>1, <1>2, <1>3, ClearSourceType, ClearSourceObs, ClearSourceLineage,
           LineageKeeps, KeepsTransitive

LEMMA InvalidatedKeeps ==
  ASSUME NEW d \in Database, NEW s \in Scopes, NEW q \in Deliveries
  PROVE  /\ Invalidated(d, s, q) \in Database
         /\ Keeps(d, Invalidated(d, s, q))
         /\ q.class # "invalidated" => Invalidated(d, s, q) = d
<1> DEFINE purged == Purge(d, s, q.targets, {}, TRUE)
<1>1. purged \in Database /\ Keeps(d, purged)
  BY PurgeType, PurgeKeeps
<1>2. Invalidated(d, s, q) = IF q.class = "invalidated"
                               THEN ClearSource(purged, s, q.targets) ELSE d
  BY DEF Invalidated
<1>3. Keeps(d, d)
  BY DEF Keeps
<1> HIDE DEF purged
<1> QED BY <1>1, <1>2, <1>3, ClearSourceType, ClearSourceLineage, LineageKeeps,
           KeepsTransitive

\* The payload of a new delivery is retained for a moment even when it cites
\* a blocked source; the purge of its own event key then clears it.
LEMMA ObserveKeeps ==
  ASSUME TypeOK, NEW s \in Scopes, NEW q \in Deliveries, Observe(s, q)
  PROVE  Keeps(db, db')
<1> DEFINE superseded == Superseded(db, s, q)
           before == Invalidated(superseded, s, q)
           row == Queued(q, clock)
           fresh == SetObs(before, s, q, row)
           purged == Purge(fresh, s, {q.key}, {}, TRUE)
           stored == IF Refused(db, s, q) THEN purged ELSE fresh
<1>1. /\ superseded \in Database /\ Keeps(db, superseded)
      /\ superseded.tomb = db.tomb
  BY SupersededKeeps DEF TypeOK
<1>2. /\ before \in Database /\ Keeps(db, before)
      /\ q.class # "invalidated" => before.tomb = db.tomb
  <2> HIDE DEF superseded
  <2> QED BY <1>1, InvalidatedKeeps, KeepsTransitive
<1>3. row \in ObsRow
  BY QueuedType, BoundAssumption DEF TypeOK
<1>4. db' = Bump(stored)
  BY DEF Observe, Insert
<1> HIDE DEF before, row
<1>5. /\ fresh \in Database
      /\ RecordsClean(before) => RecordsClean(fresh)
      /\ \A t \in Scopes, p \in Deliveries :
           fresh.obs[t][p] = IF t = s /\ p = q THEN row ELSE before.obs[t][p]
      /\ fresh.tomb = before.tomb
  <2>1. fresh \in Database
    BY <1>2, <1>3, SetObsRowType
  <2>2. RecordsClean(before) => RecordsClean(fresh)
    BY <1>2, SetObsKeeps
  <2>3. \A t \in Scopes, p \in Deliveries :
          fresh.obs[t][p] = IF t = s /\ p = q THEN row ELSE before.obs[t][p]
    BY <1>2, SetObsRows
  <2>4. fresh.tomb = before.tomb
    BY <1>2 DEF SetObs, Database
  <2> QED BY <2>1, <2>2, <2>3, <2>4
<1>6. CASE ~Refused(db, s, q)
  <2>1. q.class = "invalidated" \/ Cites(q) \cap before.tomb[s] = {}
    BY <1>2, <1>6 DEF Refused, Blocked
  <2>2. Keeps(before, fresh)
    BY <1>2, <2>1, SetObsKeeps
  <2>3. stored \in Database /\ Keeps(db, stored)
    BY <1>2, <1>5, <1>6, <2>2, KeepsTransitive
  <2> HIDE DEF stored
  <2> QED BY <1>4, <2>3, BumpKeeps, KeepsTransitive
<1>7. CASE Refused(db, s, q)
  <2> HIDE DEF fresh
  <2>1. purged \in Database
    BY <1>5, PurgeType
  <2>2. RecordsClean(db) => RecordsClean(purged)
    BY <1>2, <1>5, PurgeRecordsClean DEF Keeps
  <2>3. ASSUME PayloadsClean(db)
        PROVE  PayloadsClean(purged)
    <3>1. PayloadsClean(before)
      BY <1>2, <2>3 DEF Keeps
    <3>2. {q.key} \subseteq Reached(fresh, s, {q.key}, {}) /\ q.key \in Cites(q)
      BY DeliveryKeys, ReachedSeeds
    <3>3. ASSUME NEW t \in Scopes, NEW p \in Deliveries,
                 fresh.obs[t][p].live, p.class # "invalidated",
                 t = s => Cites(p) \cap Reached(fresh, s, {q.key}, {}) = {}
          PROVE  Cites(p) \cap fresh.tomb[t] = {}
      <4>1. ~(t = s /\ p = q)
        BY <3>2, <3>3
      <4>2. before.obs[t][p].live
        BY <1>5, <3>3, <4>1
      <4> QED BY <1>5, <3>1, <3>3, <4>2 DEF PayloadsClean
    <3> QED BY <1>5, <3>3, PurgePayloadsClean
  <2>4. stored = purged
    BY <1>7
  <2> HIDE DEF purged, stored
  <2>5. Keeps(db, purged)
    BY <2>2, <2>3 DEF Keeps
  <2> QED BY <1>4, <2>1, <2>4, <2>5, BumpKeeps, KeepsTransitive
<1> QED BY <1>6, <1>7

LEMMA MaintainKeeps ==
  ASSUME TypeInv, Maintain
  PROVE  Keeps(db, db')
<1> DEFINE swept == Sweep(db, clock)
<1>1. /\ swept \in Database /\ Keeps(db, swept) /\ swept.tomb = db.tomb
      /\ \A r \in RecIds : swept.rec[r].status = "absent" <=> db.rec[r].status = "absent"
  BY SweepType, SweepLineage, LineageKeeps DEF TypeInv, TypeOK, SameLineage
<1>2. db \in Database
  BY DEF TypeInv, TypeOK
<1> HIDE DEF swept
<1>3. CASE MaintainSweep
  BY <1>1, <1>3, BumpKeeps, KeepsTransitive DEF MaintainSweep, swept
<1>4. ASSUME NEW s \in Scopes, NEW q \in Deliveries, MaintainJob(s, q)
      PROVE  Keeps(db, db')
  <2>1. PICK r \in RecIds : /\ db.rec[r].status = "absent"
                            /\ db' = Bump(Derive(swept, s, q, r, clock))
    BY <1>4 DEF MaintainJob, swept
  <2> DEFINE row == SavedRow(s, "episode", NoFact, clock + EpisodeTTL)
             put == Put(swept, r, row, Cites(q))
             done == Done(swept.obs[s][q], r)
             stored == SetObs(put, s, q, done)
  <2>2. clock + EpisodeTTL \in Nat
    BY StoreAssumption, BoundAssumption DEF TypeInv, TypeOK
  <2>3. row \in Row /\ row.scope = s /\ row.status # "absent"
    BY <2>2, SavedRowType DEF SavedRow, Kinds
  <2>4. Cites(q) \in SUBSET Keys /\ Cites(q) \cap swept.tomb[s] = {}
    BY <1>1, <1>4, DeliveryKeys DEF MaintainJob, Blocked
  <2>5. put.obs = swept.obs
    BY DEF Put
  <2>6. db' = Bump(stored)
    BY <2>1 DEF Derive
  <2> HIDE DEF row
  <2>7. put \in Database /\ Keeps(swept, put)
    BY <1>1, <2>1, <2>3, <2>4, PutType, PutKeeps
  <2>8. done \in ObsRow /\ (done.live => swept.obs[s][q].live)
    <3>1. swept.obs[s][q] \in ObsRow
      BY <1>1 DEF Database
    <3>2. swept.obs[s][q].attempts < MaxAttempts
      <4>1. db.obs[s][q].job = "accepted"
        BY <1>4 DEF MaintainJob, NextJobs, Due
      <4>2. swept.obs[s][q].attempts = db.obs[s][q].attempts
        BY <1>2, SweepFrame DEF swept
      <4> QED BY <4>1, <4>2 DEF TypeInv, AttemptsLeft
    <3> QED BY <3>1, <3>2, DoneType DEF Done, ObsRow
  <2> HIDE DEF put, done
  <2>9. stored \in Database /\ Keeps(put, stored)
    BY <2>5, <2>7, <2>8, SetObsRowType, SetObsKeeps
  <2> HIDE DEF stored
  <2> QED BY <1>1, <2>6, <2>7, <2>9, BumpKeeps, KeepsTransitive
<1>5. ASSUME NEW s \in Scopes, NEW q \in Deliveries, MaintainCancel(s, q)
      PROVE  Keeps(db, db')
  BY <1>1, <1>5, PurgeKeeps, KeepsTransitive DEF MaintainCancel, swept
<1>6. ASSUME NEW s \in Scopes, NEW q \in Deliveries, MaintainFail(s, q)
      PROVE  Keeps(db, db')
  <2> DEFINE row == Failed(db.obs[s][q], clock)
  <2>1. row.live => db.obs[s][q].live
    BY <1>2 DEF Failed, Database, ObsRow
  <2>2. db' = SetObs(db, s, q, row)
    BY <1>6 DEF MaintainFail
  <2> HIDE DEF row
  <2> QED BY <1>2, <2>1, <2>2, SetObsKeeps
<1> QED BY <1>3, <1>4, <1>5, <1>6 DEF Maintain

LEMMA NextKeeps == TypeInv /\ [Next]_vars => Keeps(db, db')
<1> SUFFICES ASSUME TypeInv, [Next]_vars PROVE Keeps(db, db')
  OBVIOUS
<1>1. CASE Tick \/ UNCHANGED vars
  BY <1>1 DEF Tick, vars, Keeps
<1> QED BY <1>1, SaveKeeps, CorrectKeeps, ForgetKeeps, ObserveKeeps, MaintainKeeps
        DEF Next, TypeInv

LEMMA InitClean == Init => RecordsClean(db) /\ PayloadsClean(db)
BY DEF Init, EmptyDatabase, NoObs, RecordsClean, PayloadsClean

LEMMA CleanRecords ==
  ASSUME TypeOK, RecordsClean(db)
  PROVE  NoTombstonedRecord
<1>1. \A v \in db.ver : v.id \in RecIds /\ v.cites \subseteq db.deps[v.id]
  BY DEF TypeOK, Database, Version, RecordsClean
<1>2. \A r \in RecIds : db.deps[r] \cap db.tomb[db.rec[r].scope] = {}
  BY DEF RecordsClean
<1> QED BY <1>1, <1>2 DEF NoTombstonedRecord

\* Whatever sequence of saves, corrections, observations, invalidations,
\* forgets and maintenance: no record, and no stored revision of one, depends
\* on a source that its scope has tombstoned.
THEOREM NoTombstonedRecordHolds == Spec => []NoTombstonedRecord
<1>1. Init => RecordsClean(db)
  BY InitClean
<1>2. TypeInv /\ RecordsClean(db) /\ [Next]_vars => RecordsClean(db)'
  BY NextKeeps DEF Keeps, RecordsClean
<1>3. TypeInv /\ RecordsClean(db) => NoTombstonedRecord
  BY CleanRecords DEF TypeInv
<1> QED BY <1>1, <1>2, <1>3, InitTypeInv, NextTypeInv, PTL DEF Spec

\* And no retained payload cites one, so a queued job never has to be
\* cancelled: only a database that an earlier version wrote needs that.
THEOREM NoTombstonedPayloadHolds == Spec => []NoTombstonedPayload
<1>1. Init => PayloadsClean(db)
  BY InitClean
<1>2. TypeInv /\ PayloadsClean(db) /\ [Next]_vars => PayloadsClean(db)'
  BY NextKeeps DEF Keeps, PayloadsClean
<1>3. PayloadsClean(db) => NoTombstonedPayload
  BY DEF PayloadsClean, NoTombstonedPayload
<1> QED BY <1>1, <1>2, <1>3, InitTypeInv, NextTypeInv, PTL DEF Spec

LEMMA InitUpgradedInv == InitUpgraded => TypeInv /\ RecordsClean(db)
<1> SUFFICES ASSUME InitUpgraded PROVE TypeInv /\ RecordsClean(db)
  OBVIOUS
<1>1. NoRow \in Row /\ NoRow.status = "absent"
  BY StoreAssumption DEF NoRow, Row, Kinds, Statuses
<1>2. NoObs \in ObsRow /\ NoObs.job # "accepted"
  BY StoreAssumption DEF NoObs, ObsRow, ObsStates, JobStates
<1>3. \A q \in Deliveries : Queued(q, 0) \in ObsRow /\ Queued(q, 0).attempts < MaxAttempts
  BY QueuedType, StoreAssumption DEF Queued
<1>4. /\ db.rec = [r \in RecIds |-> NoRow] /\ db.ver = {} /\ db.idx = {}
      /\ db.deps = [r \in RecIds |-> {}] /\ db.tomb = UpgradeTombs
      /\ db.obs = [s \in Scopes |-> [q \in Deliveries |->
                     IF <<s, q>> \in UpgradeQueue THEN Queued(q, 0) ELSE NoObs]]
      /\ db.gen = FALSE
      /\ db = [rec |-> db.rec, ver |-> db.ver, idx |-> db.idx, deps |-> db.deps,
               tomb |-> db.tomb, obs |-> db.obs, gen |-> db.gen]
  BY DEF InitUpgraded, EmptyDatabase
<1>5. db.obs \in [Scopes -> [Deliveries -> ObsRow]] /\ AttemptsLeft(db)
  BY <1>2, <1>3, <1>4 DEF AttemptsLeft
<1>6. db \in Database
  BY <1>1, <1>4, <1>5, BoundAssumption DEF Database
<1>7. TypeInv
  BY <1>5, <1>6, BoundAssumption DEF TypeInv, TypeOK, InitUpgraded
<1>8. RecordsClean(db)
  BY <1>1, <1>4 DEF RecordsClean
<1> QED BY <1>7, <1>8

\* Also from a database that an earlier version left with blocked sources
\* still queued: the check of maintain() makes up for it.
THEOREM UpgradedRecordHolds == SpecUpgraded => []NoTombstonedRecord
<1>1. TypeInv /\ RecordsClean(db) /\ [Next]_vars => RecordsClean(db)'
  BY NextKeeps DEF Keeps, RecordsClean
<1>2. TypeInv /\ RecordsClean(db) => NoTombstonedRecord
  BY CleanRecords DEF TypeInv
<1> QED BY <1>1, <1>2, InitUpgradedInv, NextTypeInv, PTL DEF SpecUpgraded

=============================================================================
