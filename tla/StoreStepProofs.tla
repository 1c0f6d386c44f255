-------------------------- MODULE StoreStepProofs --------------------------
(***************************************************************************)
(* Theorems about the steps of the memory store: what a transaction may    *)
(* never do to history, to other scopes, to readers and to descendants.    *)
(***************************************************************************)
EXTENDS StoreRowProofs

-----------------------------------------------------------------------------
(* History.                                                                *)

\* What HistoryImmutable says of a step from d to e.
History(d, e) ==
  \A r \in RecIds :
    /\ e.rec[r].status \in LiveStatus =>
         /\ d.rec[r].status \in LiveStatus \cup {"absent"}
         /\ e.rec[r].rev \in {d.rec[r].rev, d.rec[r].rev + 1}
         /\ \A v \in d.ver : v.id = r => v \in e.ver
    /\ d.rec[r].status = "deleted" => e.rec[r].status = "deleted"

LEMMA CutHistory ==
  ASSUME NEW d, NEW e, NEW R, Cut(d, e, R)
  PROVE  History(d, e)
<1> SUFFICES ASSUME NEW r \in RecIds, e.rec[r].status \in LiveStatus
             PROVE  /\ d.rec[r].status \in LiveStatus
                    /\ e.rec[r].rev = d.rec[r].rev
                    /\ \A v \in d.ver : v.id = r => v \in e.ver
  BY DEF Cut, History
<1>1. r \in Live(d) /\ r \notin R
  BY DEF Cut, Live
<1> QED BY <1>1 DEF Cut, Live

LEMMA HistoryThenCut ==
  ASSUME NEW a, NEW b, NEW c, NEW R, History(a, b), Cut(b, c, R)
  PROVE  History(a, c)
<1>1. ASSUME NEW r \in RecIds, c.rec[r].status \in LiveStatus
      PROVE  /\ a.rec[r].status \in LiveStatus \cup {"absent"}
             /\ c.rec[r].rev \in {a.rec[r].rev, a.rec[r].rev + 1}
             /\ \A v \in a.ver : v.id = r => v \in c.ver
  <2>1. r \in Live(b) /\ r \notin R /\ c.rec[r].rev = b.rec[r].rev
    BY <1>1 DEF Cut, Live
  <2>2. b.rec[r].status \in LiveStatus /\ \A v \in b.ver : v.id = r => v \in c.ver
    BY <2>1 DEF Cut, Live
  <2> QED BY <2>1, <2>2 DEF History
<1>2. \A r \in RecIds : a.rec[r].status = "deleted" => c.rec[r].status = "deleted"
  BY DEF History, Cut
<1> QED BY <1>1, <1>2 DEF History

LEMMA CutThenHistory ==
  ASSUME NEW a \in Database, NEW b, NEW c, NEW R, RowsAgree(a), Cut(a, b, R),
         History(b, c)
  PROVE  History(a, c)
<1>1. ASSUME NEW r \in RecIds, c.rec[r].status \in LiveStatus
      PROVE  /\ a.rec[r].status \in LiveStatus \cup {"absent"}
             /\ c.rec[r].rev \in {a.rec[r].rev, a.rec[r].rev + 1}
             /\ \A v \in a.ver : v.id = r => v \in c.ver
  <2>1. /\ b.rec[r].status \in LiveStatus \cup {"absent"}
        /\ c.rec[r].rev \in {b.rec[r].rev, b.rec[r].rev + 1}
        /\ \A v \in b.ver : v.id = r => v \in c.ver
    BY <1>1 DEF History
  <2>2. b.rec[r].rev = a.rec[r].rev
    BY DEF Cut
  <2>3. CASE b.rec[r].status = "absent"
    <3>1. a.rec[r].status = "absent" /\ r \notin Live(a)
      BY <2>3 DEF Cut, Live, LiveStatus
    <3>2. \A v \in a.ver : v.id # r
      BY <3>1 DEF RowsAgree
    <3> QED BY <2>1, <2>2, <3>1, <3>2
  <2>4. CASE b.rec[r].status \in LiveStatus
    <3>1. r \in Live(a) /\ r \notin R
      BY <2>4 DEF Cut, Live
    <3>2. \A v \in a.ver : v.id = r => v \in b.ver
      BY <3>1 DEF Cut
    <3> QED BY <2>1, <2>2, <3>1, <3>2 DEF Live
  <2> QED BY <2>1, <2>3, <2>4
<1>2. \A r \in RecIds : a.rec[r].status = "deleted" => c.rec[r].status = "deleted"
  BY DEF History, Cut
<1> QED BY <1>1, <1>2 DEF History

LEMMA PutHistory ==
  ASSUME NEW d \in Database, RowsAgree(d), NEW r \in RecIds, NEW row, NEW src,
         Continues(d, r, row)
  PROVE  History(d, Put(d, r, row, src))
<1> DEFINE e == Put(d, r, row, src)
<1>0. Stored(d, e, r, row, src)
  BY PutFields
<1> HIDE DEF e
<1>1. /\ \A o \in RecIds : e.rec[o] = IF o = r THEN row ELSE d.rec[o]
      /\ \A v \in d.ver : v.id # r \/ v.revision # row.rev => v \in e.ver
  BY <1>0 DEF Stored
<1>2. \A v \in d.ver : v.id = r => v.revision # row.rev
  <2>1. d.rec[r].rev \in Nat
    BY DEF Database, Row
  <2> QED BY <2>1 DEF RowsAgree, Continues
<1>3. d.rec[r].status \in LiveStatus \cup {"absent"} /\ row.rev = d.rec[r].rev + 1
  BY DEF Continues, Live
<1>4. \A o \in RecIds : d.rec[o].status = "deleted" => e.rec[o].status = "deleted"
  BY <1>1, <1>3 DEF LiveStatus
<1>5. History(d, e)
  BY <1>1, <1>2, <1>3, <1>4 DEF History
<1> QED BY <1>5 DEF e

LEMMA SameRowsHistory ==
  ASSUME NEW a, NEW b, NEW c, History(a, b), c.rec = b.rec, c.ver = b.ver
  PROVE  History(a, c)
BY DEF History

LEMMA SetObsElse ==
  ASSUME NEW d \in Database, NEW s \in Scopes, NEW q \in Deliveries, NEW row, NEW e,
         e = SetObs(d, s, q, row)
  PROVE  /\ e.rec = d.rec /\ e.ver = d.ver /\ e.deps = d.deps
         /\ e.tomb = d.tomb /\ e.gen = d.gen
BY DEF SetObs, Database

LEMMA WritesHistory ==
  ASSUME TypeOK, Consistent(db), NEW s \in Scopes, NEW r \in RecIds, NEW row,
         NEW src, NEW gs, Writes(s, r, row, src, gs)
  PROVE  History(db, db')
<1> DEFINE put == Put(db, r, row, src)
           stored == IF row.kind = "fact" THEN Reconcile(put, {s}, gs, clock) ELSE put
<1>1. /\ db \in Database /\ row \in Row /\ src \in SUBSET Keys /\ Continues(db, r, row)
      /\ db' = Bump(stored)
  BY DEF Writes, TypeOK
<1>2. put \in Database /\ History(db, put)
  BY <1>1, PutType, PutHistory DEF Consistent
<1> HIDE DEF put
<1>3. stored \in Database /\ History(db, stored)
  BY <1>2, ReconcileType, ReconcileCut, HistoryThenCut
<1> HIDE DEF stored
<1> QED BY <1>1, <1>3, BumpCut, HistoryThenCut

LEMMA ForgetHistory ==
  ASSUME TypeOK, Consistent(db), NEW s \in Scopes, NEW ids, NEW revs,
         Forget(s, ids, revs)
  PROVE  History(db, db')
<1> DEFINE purged == Purge(db, s, {}, ids, TRUE)
           settled == Reconcile(purged, {s}, Groups, clock)
<1>1. purged \in Database /\ History(db, purged)
  BY PurgeType, PurgeCut, CutHistory DEF TypeOK, Consistent
<1>2. db' = Bump(settled)
  BY DEF Forget
<1> HIDE DEF purged
<1>3. settled \in Database /\ History(db, settled)
  BY <1>1, ReconcileType, ReconcileCut, HistoryThenCut
<1> HIDE DEF settled
<1> QED BY <1>2, <1>3, BumpCut, HistoryThenCut

\* The tables that observe() has just before and after it inserts q.
LEMMA ObserveParts ==
  ASSUME TypeOK, Consistent(db), NEW s \in Scopes, NEW q \in Deliveries, Observe(s, q)
  PROVE  \E before, fresh, stored \in Database :
           /\ before = Invalidated(Superseded(db, s, q), s, q)
           /\ Dropped(db, before, s, {q.key})
           /\ fresh = SetObs(before, s, q, Queued(q, clock)) /\ Consistent(fresh)
           /\ stored = IF Refused(db, s, q) THEN Purge(fresh, s, {q.key}, {}, TRUE)
                                            ELSE fresh
           /\ \E R : Cut(fresh, stored, R)
           /\ db' = Bump(stored)
<1> DEFINE before == Invalidated(Superseded(db, s, q), s, q)
           row == Queued(q, clock)
           fresh == SetObs(before, s, q, row)
           stored == IF Refused(db, s, q) THEN Purge(fresh, s, {q.key}, {}, TRUE) ELSE fresh
<1>1. Dropped(db, before, s, {q.key}) /\ before \in Database
  BY ObserveDrops DEF TypeOK, Dropped
<1>2. db' = Bump(stored)
  BY DEF Observe, Insert
<1>3. row \in ObsRow /\ JobAgrees(q, row) /\ row.record = NoRec
  <2>1. row \in ObsRow
    BY QueuedType, BoundAssumption DEF TypeOK
  <2>2. JobAgrees(q, row) /\ row.record = NoRec
    BY StoreAssumption DEF JobAgrees, Queued
  <2> QED BY <2>1, <2>2
<1>4. row = Queued(q, clock) /\ before = Invalidated(Superseded(db, s, q), s, q)
  OBVIOUS
<1> HIDE DEF before, row
<1>5. fresh \in Database /\ Consistent(fresh)
  BY <1>1, <1>3, SetObsRowType, SetObsConsistent DEF Dropped
<1>6. fresh = SetObs(before, s, q, row)
  OBVIOUS
<1> HIDE DEF fresh
<1>7. stored \in Database /\ \E R : Cut(fresh, stored, R)
  <2>1. CASE Refused(db, s, q)
    <3>1. stored = Purge(fresh, s, {q.key}, {}, TRUE)
      BY <2>1
    <3> QED BY <1>5, <3>1, PurgeType, PurgeCut DEF Consistent
  <2>2. CASE ~Refused(db, s, q)
    <3>1. stored = fresh
      BY <2>2
    <3>2. Cut(fresh, fresh, {})
      BY DEF Cut
    <3> QED BY <1>5, <3>1, <3>2
  <2> QED BY <2>1, <2>2
<1>8. /\ before = Invalidated(Superseded(db, s, q), s, q)
      /\ Dropped(db, before, s, {q.key})
      /\ fresh = SetObs(before, s, q, Queued(q, clock)) /\ Consistent(fresh)
      /\ stored = IF Refused(db, s, q) THEN Purge(fresh, s, {q.key}, {}, TRUE) ELSE fresh
      /\ \E R : Cut(fresh, stored, R)
      /\ db' = Bump(stored)
  BY <1>1, <1>2, <1>4, <1>5, <1>6, <1>7
<1> HIDE DEF stored
<1> QED BY <1>1, <1>5, <1>7, <1>8

LEMMA ObserveHistory ==
  ASSUME TypeOK, Consistent(db), NEW s \in Scopes, NEW q \in Deliveries, Observe(s, q)
  PROVE  History(db, db')
<1>1. PICK before \in Database, fresh \in Database, stored \in Database :
        /\ Dropped(db, before, s, {q.key})
        /\ fresh = SetObs(before, s, q, Queued(q, clock))
        /\ \E R : Cut(fresh, stored, R)
        /\ db' = Bump(stored)
  BY ObserveParts
<1>2. History(db, before)
  BY <1>1, CutHistory DEF Dropped
<1>3. fresh.rec = before.rec /\ fresh.ver = before.ver
  BY <1>1, SetObsElse
<1>4. History(db, fresh)
  BY <1>2, <1>3, SameRowsHistory
<1>5. History(db, stored)
  BY <1>1, <1>4, HistoryThenCut
<1> QED BY <1>1, <1>5, BumpCut, HistoryThenCut

\* A derived episode over the swept tables d, and the record it makes.
LEMMA DeriveParts ==
  ASSUME NEW d \in Database, Consistent(d), NEW s \in Scopes, NEW q \in Deliveries,
         NEW r \in RecIds, d.rec[r].status = "absent", NEW now \in Nat,
         d.obs[s][q].job = "accepted", d.obs[s][q].attempts < MaxAttempts
  PROVE  \E put \in Database, row \in Row, done \in ObsRow :
           /\ Continues(d, r, row) /\ row.scope = s
           /\ row.status = "active" /\ row.kind # "fact"
           /\ put = Put(d, r, row, Cites(q)) /\ Stored(d, put, r, row, Cites(q))
           /\ Derive(d, s, q, r, now) = SetObs(put, s, q, done)
           /\ Derive(d, s, q, r, now) \in Database
<1> DEFINE row == SavedRow(s, "episode", NoFact, now + EpisodeTTL)
           put == Put(d, r, row, Cites(q))
           done == Done(d.obs[s][q], r)
<1>1. row.scope = s /\ row.status = "active" /\ row.kind # "fact"
  BY DEF SavedRow
<1>2. row \in Row
  <2>1. now + EpisodeTTL \in Nat
    BY StoreAssumption
  <2> QED BY <2>1, SavedRowType DEF Kinds
<1>3. Continues(d, r, row)
  BY DerivedRow DEF Consistent
<1>4. Derive(d, s, q, r, now) = SetObs(put, s, q, done) /\ done \in ObsRow
  BY DoneType DEF Derive, Database
<1>5. Derive(d, s, q, r, now) \in Database
  BY DeriveConsistent
<1> HIDE DEF row, done
<1>6. put \in Database /\ Stored(d, put, r, row, Cites(q))
  BY <1>2, DeliveryKeys, PutType, PutFields
<1>7. put = Put(d, r, row, Cites(q))
  OBVIOUS
<1> HIDE DEF put
<1> QED BY <1>1, <1>2, <1>3, <1>4, <1>5, <1>6, <1>7

LEMMA MaintainHistory ==
  ASSUME TypeInv, Consistent(db), Maintain
  PROVE  History(db, db')
<1> DEFINE swept == Sweep(db, clock)
           X == Lapsed(db, clock)
<1>1. /\ swept \in Database /\ Consistent(swept) /\ Cut(db, swept, X)
      /\ db \in Database /\ RowsAgree(db) /\ clock \in Nat
  BY SweepType, SweepConsistent, SweepCut, BoundAssumption DEF TypeInv, TypeOK, Consistent
<1>2. History(db, swept)
  BY <1>1, CutHistory
<1> HIDE DEF swept, X
<1>3. CASE MaintainSweep
  BY <1>1, <1>2, <1>3, BumpCut, HistoryThenCut DEF MaintainSweep, swept
<1>4. ASSUME NEW s \in Scopes, NEW q \in Deliveries, MaintainJob(s, q)
      PROVE  History(db, db')
  <2>1. PICK r \in RecIds : /\ db.rec[r].status = "absent"
                            /\ db' = Bump(Derive(swept, s, q, r, clock))
    BY <1>4 DEF MaintainJob, swept
  <2>2. /\ swept.rec[r].status = "absent"
        /\ swept.obs[s][q].job = "accepted" /\ swept.obs[s][q].attempts < MaxAttempts
    BY <1>1, <1>4, <2>1, JobOfQueue DEF MaintainJob, swept, Cut
  <2> DEFINE derived == Derive(swept, s, q, r, clock)
  <2>3. PICK put \in Database, row \in Row, done \in ObsRow :
          /\ Continues(swept, r, row)
          /\ put = Put(swept, r, row, Cites(q))
          /\ derived = SetObs(put, s, q, done) /\ derived \in Database
    BY <1>1, <2>2, DeriveParts
  <2> HIDE DEF derived
  <2>4. History(swept, put)
    BY <1>1, <2>3, PutHistory DEF Consistent
  <2>5. derived.rec = put.rec /\ derived.ver = put.ver
    BY <2>3, SetObsElse
  <2>6. History(db, derived)
    BY <1>1, <2>4, <2>5, CutThenHistory, SameRowsHistory
  <2> QED BY <2>1, <2>3, <2>6, BumpCut, HistoryThenCut DEF derived
<1>5. ASSUME NEW s \in Scopes, NEW q \in Deliveries, MaintainCancel(s, q)
      PROVE  History(db, db')
  <2>1. db' = Purge(swept, s, {q.key}, {}, TRUE)
    BY <1>5 DEF MaintainCancel, swept
  <2>2. ProductsAgree(swept)
    BY <1>1 DEF Consistent
  <2>3. \A S, I : Cut(swept, Purge(swept, s, S, I, TRUE), ErasedBy(swept, s, S, I))
    BY <1>1, <2>2, PurgeCut
  <2>4. Cut(swept, db', ErasedBy(swept, s, {q.key}, {}))
    BY <2>1, <2>3
  <2> QED BY <1>2, <2>4, HistoryThenCut
<1>6. ASSUME NEW s \in Scopes, NEW q \in Deliveries, MaintainFail(s, q)
      PROVE  History(db, db')
  <2>1. db'.rec = db.rec /\ db'.ver = db.ver
    BY <1>1, <1>6, SetObsElse DEF MaintainFail
  <2> QED BY <2>1 DEF History, LiveStatus
<1> QED BY <1>3, <1>4, <1>5, <1>6 DEF Maintain

\* Any step of the store but save and correct, whose common part is Writes.
LEMMA StepCases ==
  ASSUME TypeInv, Consistent(db), [Next]_vars
  PROVE  \/ \E s \in Scopes, r \in RecIds : \E row, src, gs : Writes(s, r, row, src, gs)
         \/ \E s \in Scopes, ids \in SUBSET RecIds : \E revs : Forget(s, ids, revs)
         \/ \E s \in Scopes, q \in Deliveries : Observe(s, q)
         \/ Maintain
         \/ UNCHANGED db
<1>0. TypeOK /\ RowsAgree(db)
  BY DEF TypeInv, Consistent
<1>1. CASE Tick \/ UNCHANGED vars
  BY <1>1 DEF Tick, vars
<1>2. ASSUME NEW s \in Scopes, NEW kind \in SaveKinds, NEW f \in Facts \cup {NoFact},
             NEW src \in SourceSets, NEW exp \in SaveExpiries(kind, clock),
             Save(s, kind, f, src, exp)
      PROVE  \E r \in RecIds : \E row, gs : Writes(s, r, row, src, gs)
  BY <1>0, <1>2, SaveWrites
<1>3. ASSUME NEW s \in Scopes, NEW r \in RecIds, NEW n \in 1..MaxRevision,
             NEW f \in Facts \cup {NoFact}, NEW src \in SourceSets,
             Correct(s, r, n, f, src)
      PROVE  \E row, gs : Writes(s, r, row, src, gs)
  BY <1>0, <1>3, CorrectWrites
<1> QED BY <1>1, <1>2, <1>3 DEF Next

\* A stored version never changes while its record is live, revisions grow
\* one at a time, and neither an expired nor a deleted record comes back.
THEOREM HistoryImmutableHolds == Spec \/ SpecUpgraded => HistoryImmutable
<1>1. TypeInv /\ Consistent(db) /\ [Next]_vars => History(db, db')
  <2> SUFFICES ASSUME TypeInv, Consistent(db), [Next]_vars PROVE History(db, db')
    OBVIOUS
  <2>1. CASE UNCHANGED db
    BY <2>1 DEF History, LiveStatus
  <2> QED BY <2>1, StepCases, WritesHistory, ForgetHistory, ObserveHistory,
             MaintainHistory DEF TypeInv
<1>2. History(db, db') =>
        [\A r \in RecIds :
           /\ db'.rec[r].status \in LiveStatus =>
                /\ db.rec[r].status \in LiveStatus \cup {"absent"}
                /\ db'.rec[r].rev \in {db.rec[r].rev, db.rec[r].rev + 1}
                /\ \A v \in db.ver : v.id = r => v \in db'.ver
           /\ db.rec[r].status = "deleted" => db'.rec[r].status = "deleted"]_vars
  BY DEF History
<1>3. Spec => HistoryImmutable
  BY <1>1, <1>2, InitInvariant, NextInvariant, PTL DEF Spec, HistoryImmutable
<1>4. SpecUpgraded => HistoryImmutable
  BY <1>1, <1>2, InitInvariant, NextInvariant, PTL DEF SpecUpgraded, HistoryImmutable
<1> QED BY <1>3, <1>4

-----------------------------------------------------------------------------
(* Scopes and generations.                                                 *)

\* e is d with rows, keys and payloads lost in the scope s alone.
Confined(d, e, s) ==
  /\ e.gen = d.gen
  /\ \A t \in Scopes : t # s =>
       e.tomb[t] = d.tomb[t] /\ \A q \in Deliveries : e.obs[t][q] = d.obs[t][q]
  /\ \A r \in RecIds :
       /\ e.rec[r].scope = d.rec[r].scope
       /\ e.rec[r].status = "deleted" => d.rec[r].status = "deleted" \/ d.rec[r].scope = s

LEMMA ConfinedTransitive ==
  ASSUME NEW a, NEW b, NEW c, NEW s, Confined(a, b, s), Confined(b, c, s)
  PROVE  Confined(a, c, s)
BY DEF Confined

LEMMA PurgeConfined ==
  ASSUME NEW d \in Database, NEW s \in Scopes, NEW S, NEW I, NEW block \in BOOLEAN
  PROVE  Confined(d, Purge(d, s, S, I, block), s)
<1> DEFINE e == Purge(d, s, S, I, block)
           R == ErasedBy(d, s, S, I)
           K == Reached(d, s, S, I)
<1>1. Purged(d, e, s, K, R, block)
  BY PurgeFields
<1>2. \A r \in R : d.rec[r].scope = s
  BY DEF ErasedBy, Present
<1> HIDE DEF e, R, K
<1>3. /\ e.gen = d.gen
      /\ \A t \in Scopes : t # s =>
           e.tomb[t] = d.tomb[t] /\ \A q \in Deliveries : e.obs[t][q] = d.obs[t][q]
  <2>1. e.gen = d.gen
    BY <1>1 DEF Purged
  <2>2. ASSUME NEW t \in Scopes, t # s
        PROVE  e.tomb[t] = d.tomb[t] /\ \A q \in Deliveries : e.obs[t][q] = d.obs[t][q]
    BY <1>1, <2>2 DEF Purged
  <2> QED BY <2>1, <2>2
<1>4. ASSUME NEW r \in RecIds
      PROVE  /\ e.rec[r].scope = d.rec[r].scope
             /\ e.rec[r].status = "deleted" =>
                  d.rec[r].status = "deleted" \/ d.rec[r].scope = s
  <2>1. d.rec[r] \in Row
    BY DEF Database
  <2>2. e.rec[r] = IF r \in R THEN [d.rec[r] EXCEPT !.status = "deleted", !.fact = NoFact]
                              ELSE d.rec[r]
    BY <1>1 DEF Purged
  <2> QED BY <1>2, <2>1, <2>2 DEF Row
<1>5. Confined(d, e, s)
  BY <1>3, <1>4 DEF Confined
<1> QED BY <1>5 DEF e

LEMMA ClearSourceConfined ==
  ASSUME NEW d \in Database, NEW s \in Scopes, NEW keys
  PROVE  Confined(d, ClearSource(d, s, keys), s)
<1> DEFINE e == ClearSource(d, s, keys)
<1>1. /\ e.rec = d.rec /\ e.tomb = d.tomb /\ e.gen = d.gen
      /\ \A t \in Scopes : t # s => e.obs[t] = d.obs[t]
  BY DEF ClearSource, Database
<1> HIDE DEF e
<1>2. Confined(d, e, s)
  BY <1>1 DEF Confined
<1> QED BY <1>2 DEF e

LEMMA SetObsConfined ==
  ASSUME NEW d \in Database, NEW s \in Scopes, NEW q \in Deliveries, NEW row
  PROVE  Confined(d, SetObs(d, s, q, row), s)
<1> DEFINE e == SetObs(d, s, q, row)
<1>1. e.rec = d.rec /\ e.tomb = d.tomb /\ e.gen = d.gen
  BY SetObsElse
<1>2. \A t \in Scopes, p \in Deliveries : t # s => e.obs[t][p] = d.obs[t][p]
  BY SetObsRows
<1> HIDE DEF e
<1>3. Confined(d, e, s)
  BY <1>1, <1>2 DEF Confined
<1> QED BY <1>3 DEF e

LEMMA ReconcileRec ==
  ASSUME NEW d \in Database, NEW ss, NEW gs, NEW now, NEW r \in RecIds
  PROVE  /\ Reconcile(d, ss, gs, now).gen = d.gen
         /\ Reconcile(d, ss, gs, now).rec[r].scope = d.rec[r].scope
         /\ Reconcile(d, ss, gs, now).rec[r].status = "deleted" =>
              d.rec[r].status = "deleted"
<1> DEFINE e == Reconcile(d, ss, gs, now)
<1>1. e.gen = d.gen
  BY DEF Reconcile, Database
<1>2. d.rec[r] \in Row
  BY DEF Database
<1>3. \/ e.rec[r] = d.rec[r]
      \/ \E st \in LiveStatus : e.rec[r] = [d.rec[r] EXCEPT !.status = st]
  BY DEF Reconcile, Database, LiveStatus
<1> HIDE DEF e
<1>4. /\ e.rec[r].scope = d.rec[r].scope
      /\ e.rec[r].status = "deleted" => d.rec[r].status = "deleted"
  BY <1>2, <1>3 DEF Row, LiveStatus
<1> QED BY <1>1, <1>4 DEF e

LEMMA ReconcileConfined ==
  ASSUME NEW d \in Database, NEW s \in Scopes, NEW ss, NEW gs, NEW now
  PROVE  Confined(d, Reconcile(d, ss, gs, now), s)
<1> DEFINE e == Reconcile(d, ss, gs, now)
<1>1. e.tomb = d.tomb /\ e.obs = d.obs
  BY ReconcileFrame
<1>2. e.gen = d.gen
  BY DEF Reconcile, Database
<1>3. \A r \in RecIds : /\ e.rec[r].scope = d.rec[r].scope
                        /\ e.rec[r].status = "deleted" => d.rec[r].status = "deleted"
  BY ReconcileRec
<1> HIDE DEF e
<1>4. Confined(d, e, s)
  BY <1>1, <1>2, <1>3 DEF Confined
<1> QED BY <1>4 DEF e

\* A forget, but for its bump(), stays in its scope; so does an observe.
LEMMA ForgetConfined ==
  ASSUME TypeOK, NEW s \in Scopes, NEW ids, NEW revs, Forget(s, ids, revs)
  PROVE  \E e \in Database : Confined(db, e, s) /\ db' = Bump(e)
<1> DEFINE purged == Purge(db, s, {}, ids, TRUE)
           e == Reconcile(purged, {s}, Groups, clock)
<1>1. purged \in Database /\ Confined(db, purged, s)
  BY PurgeType, PurgeConfined DEF TypeOK
<1>2. db' = Bump(e)
  BY DEF Forget
<1> HIDE DEF purged
<1>3. e \in Database /\ Confined(db, e, s)
  BY <1>1, ReconcileType, ReconcileConfined, ConfinedTransitive
<1> QED BY <1>2, <1>3

LEMMA ObserveConfined ==
  ASSUME TypeOK, Consistent(db), NEW s \in Scopes, NEW q \in Deliveries, Observe(s, q)
  PROVE  \E e \in Database : Confined(db, e, s) /\ db' = Bump(e)
<1>1. PICK before \in Database, fresh \in Database, stored \in Database :
        /\ before = Invalidated(Superseded(db, s, q), s, q)
        /\ fresh = SetObs(before, s, q, Queued(q, clock))
        /\ stored = IF Refused(db, s, q) THEN Purge(fresh, s, {q.key}, {}, TRUE) ELSE fresh
        /\ db' = Bump(stored)
  BY ObserveParts
<1> DEFINE superseded == Superseded(db, s, q)
           purged == Purge(db, s, {q.key}, Previous(db, s, q), FALSE)
<1>2. purged \in Database /\ Confined(db, purged, s)
  BY PurgeType, PurgeConfined DEF TypeOK
<1>3. superseded = ClearSource(purged, s, {q.key})
  BY DEF Superseded
<1> HIDE DEF purged, superseded
<1>4. superseded \in Database /\ Confined(db, superseded, s)
  BY <1>2, <1>3, ClearSourceType, ClearSourceConfined, ConfinedTransitive
<1>5. Confined(db, before, s)
  <2>1. CASE q.class = "invalidated"
    <3> DEFINE cut == Purge(superseded, s, q.targets, {}, TRUE)
    <3>1. cut \in Database /\ Confined(db, cut, s)
      BY <1>4, PurgeType, PurgeConfined, ConfinedTransitive
    <3>2. before = ClearSource(cut, s, q.targets)
      BY <1>1, <2>1 DEF Invalidated, superseded
    <3> HIDE DEF cut
    <3> QED BY <3>1, <3>2, ClearSourceConfined, ConfinedTransitive
  <2>2. CASE q.class # "invalidated"
    BY <1>1, <1>4, <2>2 DEF Invalidated, superseded
  <2> QED BY <2>1, <2>2
<1>6. Confined(db, fresh, s)
  BY <1>1, <1>5, SetObsConfined, ConfinedTransitive
<1>7. Confined(db, stored, s)
  <2>1. CASE Refused(db, s, q)
    BY <1>1, <1>6, <2>1, PurgeConfined, ConfinedTransitive
  <2>2. CASE ~Refused(db, s, q)
    BY <1>1, <1>6, <2>2
  <2> QED BY <2>1, <2>2
<1> QED BY <1>1, <1>7

LEMMA BumpElse ==
  ASSUME NEW d \in Database, NEW e, e = Bump(d)
  PROVE  /\ e.rec = d.rec /\ e.tomb = d.tomb /\ e.obs = d.obs
         /\ e.gen # d.gen
BY DEF Bump, Database

\* Nothing is erased between d and e, and the generation has not moved yet.
NoneErased(d, e) ==
  /\ e.gen = d.gen
  /\ \A r \in RecIds : e.rec[r].status = "deleted" => d.rec[r].status = "deleted"

LEMMA PutErases ==
  ASSUME NEW d \in Database, NEW r \in RecIds, NEW row, NEW src, NEW e,
         Stored(d, e, r, row, src), row.status \in LiveStatus
  PROVE  NoneErased(d, e)
BY DEF Stored, NoneErased, LiveStatus

LEMMA WritesErase ==
  ASSUME TypeOK, NEW s \in Scopes, NEW r \in RecIds, NEW row, NEW src, NEW gs,
         Writes(s, r, row, src, gs)
  PROVE  \E e \in Database : NoneErased(db, e) /\ db' = Bump(e)
<1> DEFINE put == Put(db, r, row, src)
           e == IF row.kind = "fact" THEN Reconcile(put, {s}, gs, clock) ELSE put
<1>1. put \in Database /\ Stored(db, put, r, row, src) /\ row.status \in LiveStatus
  BY PutType, PutFields DEF Writes, TypeOK, Continues
<1>2. db' = Bump(e)
  BY DEF Writes
<1> HIDE DEF put
<1>3. NoneErased(db, put)
  BY <1>1, PutErases DEF TypeOK
<1>4. e \in Database /\ NoneErased(db, e)
  BY <1>1, <1>3, ReconcileType, ReconcileRec DEF NoneErased
<1> QED BY <1>2, <1>4

\* A sweep marks rows and observations expired and touches nothing else that
\* counts here.
Expires(d, e) ==
  /\ NoneErased(d, e) /\ e.tomb = d.tomb
  /\ \A r \in RecIds : e.rec[r].scope = d.rec[r].scope
  /\ \A s \in Scopes, q \in Deliveries :
       \/ e.obs[s][q] = d.obs[s][q]
       \/ ~e.obs[s][q].live /\ e.obs[s][q].state = "expired"

LEMMA SweepExpires ==
  ASSUME NEW d \in Database, NEW now
  PROVE  Expires(d, Sweep(d, now))
<1> DEFINE X == Lapsed(d, now)
           e == Expire(d, X)
           f == Sweep(d, now)
<1>1. e \in Database
  BY ExpireType
<1>2. /\ e.gen = d.gen /\ e.tomb = d.tomb
      /\ \A r \in RecIds :
           e.rec[r] = IF r \in X THEN [d.rec[r] EXCEPT !.status = "expired", !.fact = NoFact]
                                 ELSE d.rec[r]
      /\ \A s \in Scopes, q \in Deliveries :
           e.obs[s][q] = IF d.obs[s][q].record \in X
                           THEN [d.obs[s][q] EXCEPT !.live = FALSE, !.state = "expired"]
                           ELSE d.obs[s][q]
  BY DEF Expire
<1>3. f = Reconcile(e, {d.rec[r].scope : r \in X}, Groups, now)
  BY DEF Sweep
<1> HIDE DEF e, f, X
<1>4. /\ f.gen = e.gen /\ f.tomb = e.tomb /\ f.obs = e.obs
      /\ \A r \in RecIds : /\ f.rec[r].scope = e.rec[r].scope
                           /\ f.rec[r].status = "deleted" => e.rec[r].status = "deleted"
  <2>1. f.gen = e.gen
    BY <1>1, <1>3 DEF Reconcile, Database
  <2>2. f.tomb = e.tomb /\ f.obs = e.obs
    BY <1>1, <1>3, ReconcileFrame
  <2> QED BY <1>1, <1>3, <2>1, <2>2, ReconcileRec
<1>5. ASSUME NEW r \in RecIds
      PROVE  /\ e.rec[r].scope = d.rec[r].scope
             /\ e.rec[r].status = "deleted" => d.rec[r].status = "deleted"
  <2>1. d.rec[r] \in Row
    BY DEF Database
  <2> QED BY <1>2, <2>1 DEF Row
<1>6. ASSUME NEW s \in Scopes, NEW q \in Deliveries
      PROVE  \/ f.obs[s][q] = d.obs[s][q]
             \/ ~f.obs[s][q].live /\ f.obs[s][q].state = "expired"
  <2>1. d.obs[s][q] \in ObsRow
    BY DEF Database
  <2>2. f.obs[s][q] = IF d.obs[s][q].record \in X
                        THEN [d.obs[s][q] EXCEPT !.live = FALSE, !.state = "expired"]
                        ELSE d.obs[s][q]
    BY <1>2, <1>4
  <2>3. CASE d.obs[s][q].record \in X
    <3>1. f.obs[s][q] = [d.obs[s][q] EXCEPT !.live = FALSE, !.state = "expired"]
      BY <2>2, <2>3
    <3> QED BY <2>1, <3>1 DEF ObsRow
  <2>4. CASE d.obs[s][q].record \notin X
    BY <2>2, <2>4
  <2> QED BY <2>3, <2>4
<1>7. Expires(d, f)
  BY <1>2, <1>4, <1>5, <1>6 DEF Expires, NoneErased
<1> QED BY <1>7 DEF f

\* A round of maintenance that neither fails nor cancels its job.
LEMMA MaintainErases ==
  ASSUME TypeInv, Consistent(db),
         MaintainSweep \/ \E s \in Scopes, q \in Deliveries : MaintainJob(s, q)
  PROVE  \E e \in Database : NoneErased(db, e) /\ db' = Bump(e)
<1> DEFINE swept == Sweep(db, clock)
<1>1. /\ swept \in Database /\ Consistent(swept) /\ Cut(db, swept, Lapsed(db, clock))
      /\ NoneErased(db, swept) /\ clock \in Nat
  BY SweepType, SweepConsistent, SweepCut, SweepExpires, BoundAssumption
     DEF TypeInv, TypeOK, Expires
<1> HIDE DEF swept
<1>2. CASE MaintainSweep
  BY <1>1, <1>2 DEF MaintainSweep, swept
<1>3. ASSUME NEW s \in Scopes, NEW q \in Deliveries, MaintainJob(s, q)
      PROVE  \E e \in Database : NoneErased(db, e) /\ db' = Bump(e)
  <2>1. PICK r \in RecIds : /\ db.rec[r].status = "absent"
                            /\ db' = Bump(Derive(swept, s, q, r, clock))
    BY <1>3 DEF MaintainJob, swept
  <2>2. /\ swept.rec[r].status = "absent"
        /\ swept.obs[s][q].job = "accepted" /\ swept.obs[s][q].attempts < MaxAttempts
    BY <1>1, <1>3, <2>1, JobOfQueue DEF MaintainJob, swept, Cut
  <2> DEFINE derived == Derive(swept, s, q, r, clock)
  <2>3. PICK put \in Database, row \in Row, done \in ObsRow :
          /\ Continues(swept, r, row)
          /\ Stored(swept, put, r, row, Cites(q))
          /\ derived = SetObs(put, s, q, done) /\ derived \in Database
    BY <1>1, <2>2, DeriveParts
  <2> HIDE DEF derived
  <2>4. NoneErased(swept, put)
    BY <1>1, <2>3, PutErases DEF Continues
  <2>5. derived.rec = put.rec /\ derived.gen = put.gen
    BY <2>3, SetObsElse
  <2>6. NoneErased(db, derived)
    BY <1>1, <2>4, <2>5 DEF NoneErased
  <2> QED BY <2>1, <2>3, <2>6 DEF derived
<1> QED BY <1>2, <1>3

LEMMA CancelParts ==
  ASSUME TypeInv, Consistent(db), NEW s \in Scopes, NEW q \in Deliveries,
         MaintainCancel(s, q)
  PROVE  \E swept \in Database : /\ Expires(db, swept) /\ Confined(swept, db', s)
<1>1. Sweep(db, clock) \in Database /\ Expires(db, Sweep(db, clock))
  BY SweepType, SweepExpires DEF TypeInv, TypeOK
<1>2. db' = Purge(Sweep(db, clock), s, {q.key}, {}, TRUE)
  BY DEF MaintainCancel
<1> QED BY <1>1, <1>2, PurgeConfined

LEMMA FailChanges ==
  ASSUME TypeInv, NEW s \in Scopes, NEW q \in Deliveries, MaintainFail(s, q)
  PROVE  db'.rec = db.rec /\ db'.gen = db.gen
BY SetObsElse DEF MaintainFail, TypeInv, TypeOK

Clean(d) == RecordsClean(d) /\ PayloadsClean(d)

LEMMA NextClean == TypeInv /\ Clean(db) /\ [Next]_vars => Clean(db)'
BY NextKeeps DEF Clean, Keeps, RecordsClean, PayloadsClean

\* No cancellation where no retained payload cites a blocked source.
LEMMA NoCancel ==
  ASSUME TypeInv, Consistent(db), PayloadsClean(db), NEW s \in Scopes,
         NEW q \in Deliveries
  PROVE  ~MaintainCancel(s, q)
<1> SUFFICES ASSUME MaintainCancel(s, q) PROVE FALSE
  OBVIOUS
<1>1. db.obs[s][q].live /\ q.class = "material"
  BY JobOfQueue DEF MaintainCancel
<1>2. Cites(q) \cap db.tomb[s] = {}
  BY <1>1 DEF PayloadsClean
<1> QED BY <1>2 DEF MaintainCancel, Blocked

\* Every transaction that changes what a reader can see moves the generation
\* that page cursors are bound to. (The early return of a cancelled job skips
\* bump(), but in a new database no job is ever cancelled.)
THEOREM GenerationMovesHolds == Spec => GenerationMoves
<1>1. TypeInv /\ Consistent(db) /\ Clean(db) /\ [Next]_vars =>
        (Visible(db)' # Visible(db) => db'.gen # db.gen)
  <2> SUFFICES ASSUME TypeInv, Consistent(db), Clean(db), [Next]_vars,
                      Visible(db)' # Visible(db)
               PROVE  db'.gen # db.gen
    OBVIOUS
  <2>0. TypeOK /\ db \in Database /\ PayloadsClean(db)
    BY DEF TypeInv, TypeOK, Clean
  <2>1. db'.rec # db.rec
    BY DEF Visible, Live
  <2>2. CASE \E e \in Database : e.gen = db.gen /\ db' = Bump(e)
    BY <2>2, BumpElse
  <2>3. ASSUME NEW s \in Scopes, NEW ids, NEW revs, Forget(s, ids, revs)
        PROVE  db'.gen # db.gen
    BY <2>0, <2>2, <2>3, ForgetConfined DEF Confined
  <2>4. ASSUME NEW s \in Scopes, NEW q \in Deliveries, Observe(s, q)
        PROVE  db'.gen # db.gen
    BY <2>0, <2>2, <2>4, ObserveConfined DEF Confined
  <2>5. ASSUME NEW s \in Scopes, NEW r \in RecIds, NEW row, NEW src, NEW gs,
               Writes(s, r, row, src, gs)
        PROVE  db'.gen # db.gen
    BY <2>0, <2>2, <2>5, WritesErase DEF NoneErased
  <2>6. ASSUME Maintain
        PROVE  db'.gen # db.gen
    <3>1. CASE MaintainSweep \/ \E s \in Scopes, q \in Deliveries : MaintainJob(s, q)
      BY <2>2, <3>1, MaintainErases DEF NoneErased
    <3>2. \A s \in Scopes, q \in Deliveries : ~MaintainCancel(s, q) /\ ~MaintainFail(s, q)
      BY <2>0, <2>1, NoCancel, FailChanges
    <3> QED BY <2>6, <3>1, <3>2 DEF Maintain
  <2> QED BY <2>1, <2>3, <2>4, <2>5, <2>6, StepCases
<1>2. Init => Clean(db)
  BY InitClean DEF Clean
<1> QED BY <1>1, <1>2, InitInvariant, NextInvariant, NextClean, PTL
        DEF Spec, GenerationMoves

\* What EraseStaysInScope says of a step in which r is erased.
ErasedAlone(d, e, r, t) ==
  /\ e.tomb[t] = d.tomb[t]
  /\ \A q \in Deliveries :
       d.obs[t][q].live => e.obs[t][q].live \/ e.obs[t][q].state = "expired"
  /\ \A o \in RecIds : d.rec[o].scope = t /\ e.rec[o].status = "deleted"
                         => d.rec[o].status = "deleted"

LEMMA ConfinedAlone ==
  ASSUME NEW d, NEW e, NEW s \in Scopes, Confined(d, e, s), NEW r \in RecIds,
         NEW t \in Scopes,
         e.rec[r].status = "deleted", d.rec[r].status # "deleted", t # d.rec[r].scope
  PROVE  ErasedAlone(d, e, r, t)
BY DEF Confined, ErasedAlone

\* One transaction erases records, clears payloads and blocks keys in one
\* scope only, although several scopes may share the keys that it follows.
\* (A round of maintenance may also expire rows and payloads of others.)
THEOREM EraseStaysInScopeHolds == Spec \/ SpecUpgraded => EraseStaysInScope
<1>1. ASSUME TypeInv, Consistent(db), [Next]_vars,
             NEW r \in RecIds, NEW t \in Scopes,
             db'.rec[r].status = "deleted", db.rec[r].status # "deleted",
             t # db.rec[r].scope
      PROVE  ErasedAlone(db, db', r, t)
  <2>0. TypeOK
    BY <1>1 DEF TypeInv
  <2>1. ASSUME NEW e \in Database, NEW s \in Scopes, Confined(db, e, s), db' = Bump(e)
        PROVE  ErasedAlone(db, db', r, t)
    <3>1. e.rec = db'.rec /\ e.tomb = db'.tomb /\ e.obs = db'.obs
      BY <2>1, BumpElse
    <3>2. ErasedAlone(db, e, r, t)
      BY <1>1, <2>1, <3>1, ConfinedAlone
    <3> QED BY <3>1, <3>2 DEF ErasedAlone
  <2>2. ~ \E e \in Database : NoneErased(db, e) /\ db' = Bump(e)
    BY <1>1, BumpElse DEF NoneErased
  <2>3. db'.rec # db.rec
    BY <1>1
  <2>4. ASSUME NEW s \in Scopes, NEW q \in Deliveries, MaintainCancel(s, q)
        PROVE  ErasedAlone(db, db', r, t)
    <3>1. PICK swept \in Database : Expires(db, swept) /\ Confined(swept, db', s)
      BY <1>1, <2>4, CancelParts
    <3>2. /\ swept.rec[r].status # "deleted" /\ t # swept.rec[r].scope
          /\ swept.tomb = db.tomb
      BY <1>1, <3>1 DEF Expires, NoneErased
    <3>3. ErasedAlone(swept, db', r, t)
      BY <1>1, <3>1, <3>2, ConfinedAlone
    <3>4. t # s
      BY <1>1, <3>1, <3>2 DEF Confined
    <3>5. \A q1 \in Deliveries : db'.obs[t][q1] = swept.obs[t][q1]
      BY <3>1, <3>4 DEF Confined
    <3>6. \A q1 \in Deliveries : db.obs[t][q1].live =>
            db'.obs[t][q1].live \/ db'.obs[t][q1].state = "expired"
      BY <3>1, <3>5 DEF Expires
    <3>7. \A o \in RecIds : db.rec[o].scope = t /\ db'.rec[o].status = "deleted"
                              => db.rec[o].status = "deleted"
      BY <3>1, <3>3 DEF Expires, NoneErased, ErasedAlone
    <3> QED BY <3>2, <3>3, <3>6, <3>7 DEF ErasedAlone
  <2>5. CASE Maintain
    <3>1. ~MaintainSweep /\ ~ \E s \in Scopes, q \in Deliveries : MaintainJob(s, q)
      BY <1>1, <2>2, MaintainErases
    <3>2. ~ \E s \in Scopes, q \in Deliveries : MaintainFail(s, q)
      BY <1>1, <2>3, FailChanges
    <3> QED BY <2>4, <2>5, <3>1, <3>2 DEF Maintain
  <2>6. ASSUME NEW s \in Scopes, NEW ids, NEW revs, Forget(s, ids, revs)
        PROVE  ErasedAlone(db, db', r, t)
    BY <2>0, <2>1, <2>6, ForgetConfined
  <2>7. ASSUME NEW s \in Scopes, NEW q \in Deliveries, Observe(s, q)
        PROVE  ErasedAlone(db, db', r, t)
    BY <1>1, <2>0, <2>1, <2>7, ObserveConfined
  <2> QED BY <1>1, <2>0, <2>2, <2>3, <2>5, <2>6, <2>7, StepCases, WritesErase
<1>2. TypeInv /\ Consistent(db) /\ [Next]_vars =>
        [\A r \in RecIds, t \in Scopes :
           /\ db'.rec[r].status = "deleted" /\ db.rec[r].status # "deleted"
           /\ t # db.rec[r].scope
           => /\ db'.tomb[t] = db.tomb[t]
              /\ \A q \in Deliveries :
                   db.obs[t][q].live =>
                     db'.obs[t][q].live \/ db'.obs[t][q].state = "expired"
              /\ \A o \in RecIds : db.rec[o].scope = t /\ db'.rec[o].status = "deleted"
                                     => db.rec[o].status = "deleted"]_vars
  BY <1>1 DEF ErasedAlone
<1>3. Spec => EraseStaysInScope
  BY <1>2, InitInvariant, NextInvariant, PTL DEF Spec, EraseStaysInScope
<1>4. SpecUpgraded => EraseStaysInScope
  BY <1>2, InitInvariant, NextInvariant, PTL DEF SpecUpgraded, EraseStaysInScope
<1> QED BY <1>3, <1>4

-----------------------------------------------------------------------------
(* Facts and their marks.                                                  *)

\* The rows that reconcile_keys compares, and those it finds in conflict.
InPool(d, ss, gs, now, r) ==
  /\ r \in Live(d) /\ d.rec[r].scope \in ss /\ ~PastTTL(d, r, now)
  /\ d.rec[r].kind = "fact" /\ d.rec[r].fact.group \in gs

InConflict(d, ss, gs, now, r) ==
  \E o \in RecIds : /\ InPool(d, ss, gs, now, o) /\ o # r
                    /\ d.rec[o].scope = d.rec[r].scope
                    /\ Disputes(d.rec[r].fact, d.rec[o].fact)

\* e is d with the marks of the facts of the scopes ss and groups gs made anew.
Marked(d, e, ss, gs, now) ==
  /\ Live(e) = Live(d)
  /\ \A r \in RecIds :
       /\ e.rec[r].scope = d.rec[r].scope /\ e.rec[r].kind = d.rec[r].kind
       /\ e.rec[r].rev = d.rec[r].rev /\ e.rec[r].expires = d.rec[r].expires
       /\ e.rec[r].fact = d.rec[r].fact
       /\ InPool(d, ss, gs, now, r) =>
            e.rec[r].status = IF InConflict(d, ss, gs, now, r) THEN "contested" ELSE "active"
       /\ ~InPool(d, ss, gs, now, r) => e.rec[r].status = d.rec[r].status

LEMMA ReconcileMarked ==
  ASSUME NEW d \in Database, NEW ss \in SUBSET Scopes, NEW gs, NEW now
  PROVE  Marked(d, Reconcile(d, ss, gs, now), ss, gs, now)
<1> DEFINE e == Reconcile(d, ss, gs, now)
           pool == {r \in UNION {Readable(d, s, now) : s \in ss} :
                      d.rec[r].kind = "fact" /\ d.rec[r].fact.group \in gs}
           conflict(r) == \E o \in pool \ {r} :
                            /\ d.rec[o].scope = d.rec[r].scope
                            /\ Disputes(d.rec[r].fact, d.rec[o].fact)
<1>1. \A r \in RecIds :
        e.rec[r] = IF r \in pool
                     THEN [d.rec[r] EXCEPT !.status =
                             IF conflict(r) THEN "contested" ELSE "active"]
                     ELSE d.rec[r]
  BY DEF Reconcile, Database
<1>2. /\ pool \subseteq RecIds
      /\ \A r \in RecIds : r \in pool <=> InPool(d, ss, gs, now, r)
  BY DEF Readable, InPool, Live, Database
<1>3. Cut(d, e, {})
  BY ReconcileCut
<1> HIDE DEF e, pool
<1>4. \A r \in RecIds : conflict(r) <=> InConflict(d, ss, gs, now, r)
  BY <1>2 DEF InConflict
<1> HIDE DEF conflict
<1>5. ASSUME NEW r \in RecIds
      PROVE  /\ r \in pool => e.rec[r].status = IF conflict(r) THEN "contested" ELSE "active"
             /\ r \notin pool => e.rec[r].status = d.rec[r].status
  <2>1. d.rec[r] \in Row
    BY DEF Database
  <2> QED BY <1>1, <2>1 DEF Row
<1>6. Marked(d, e, ss, gs, now)
  BY <1>2, <1>3, <1>4, <1>5 DEF Marked, Cut
<1> QED BY <1>6 DEF e

LEMMA MarkedFactRows ==
  ASSUME NEW d, NEW e, NEW ss, NEW gs, NEW now, Marked(d, e, ss, gs, now), NEW s
  PROVE  /\ FactRows(e, s, now) = FactRows(d, s, now)
         /\ FactRows(d, s, now) \subseteq RecIds
         /\ s \in ss => \A r \in FactRows(d, s, now) :
                          d.rec[r].fact.group \in gs => InPool(d, ss, gs, now, r)
BY DEF Marked, FactRows, Readable, PastTTL, InPool, Live

\* The marks of the groups that were compared are exact.
LEMMA MarkedSettled ==
  ASSUME NEW d, NEW e, NEW ss, NEW gs, NEW now, Marked(d, e, ss, gs, now),
         NEW s \in ss, NEW g \in gs
  PROVE  Settled(e, s, g, now)
<1> DEFINE rows == {r \in FactRows(e, s, now) : e.rec[r].fact.group = g}
<1>1. \A r \in rows : r \in RecIds /\ InPool(d, ss, gs, now, r) /\ d.rec[r].scope = s
                      /\ e.rec[r].fact = d.rec[r].fact
  BY MarkedFactRows DEF Marked, FactRows, Readable
<1>2. ASSUME NEW r \in rows
      PROVE  InConflict(d, ss, gs, now, r) <=>
               \E o \in rows : Disputes(e.rec[r].fact, e.rec[o].fact)
  <2>1. ASSUME InConflict(d, ss, gs, now, r)
        PROVE  \E o \in rows : Disputes(e.rec[r].fact, e.rec[o].fact)
    <3>1. PICK o \in RecIds : /\ InPool(d, ss, gs, now, o)
                              /\ d.rec[o].scope = s
                              /\ Disputes(d.rec[r].fact, d.rec[o].fact)
      BY <1>1, <2>1 DEF InConflict
    <3>2. e.rec[o].fact = d.rec[o].fact /\ e.rec[r].fact = d.rec[r].fact
      BY <1>1, <3>1 DEF Marked
    <3>3. o \in FactRows(d, s, now)
      BY <3>1 DEF InPool, FactRows, Readable
    <3>4. o \in rows
      BY <3>1, <3>2, <3>3, MarkedFactRows DEF Disputes
    <3> QED BY <3>1, <3>2, <3>4
  <2>2. ASSUME NEW o \in rows, Disputes(e.rec[r].fact, e.rec[o].fact)
        PROVE  InConflict(d, ss, gs, now, r)
    <3>1. o # r
      BY <2>2 DEF Disputes
    <3> HIDE DEF rows
    <3> QED BY <1>1, <2>2, <3>1 DEF InConflict
  <2> QED BY <2>1, <2>2
<1>3. \A r \in rows : e.rec[r].status =
                        IF InConflict(d, ss, gs, now, r) THEN "contested" ELSE "active"
  BY <1>1 DEF Marked
<1>4. \A r \in rows : (e.rec[r].status = "contested") <=>
                        \E o \in rows : Disputes(e.rec[r].fact, e.rec[o].fact)
  BY <1>2, <1>3
<1> QED BY <1>4 DEF Settled

\* ConflictsMarked, but for the facts of the scopes ss and the groups gs.
MarksBut(d, now, ss, gs) ==
  \A s \in Scopes : \A a, b \in FactRows(d, s, now) :
    Disputes(d.rec[a].fact, d.rec[b].fact) =>
      d.rec[a].status = "contested" \/ (s \in ss /\ d.rec[a].fact.group \in gs)

LEMMA MarkedMarks ==
  ASSUME NEW d, NEW e, NEW ss, NEW gs, NEW now, Marked(d, e, ss, gs, now),
         MarksBut(d, now, ss, gs)
  PROVE  MarksBut(e, now, {}, {})
<1> SUFFICES ASSUME NEW s \in Scopes, NEW a \in FactRows(e, s, now),
                    NEW b \in FactRows(e, s, now),
                    Disputes(e.rec[a].fact, e.rec[b].fact)
             PROVE  e.rec[a].status = "contested"
  BY DEF MarksBut
<1>1. a \in RecIds /\ b \in RecIds /\ a \in FactRows(d, s, now) /\ b \in FactRows(d, s, now)
  BY MarkedFactRows
<1>2. /\ e.rec[a].fact = d.rec[a].fact /\ e.rec[b].fact = d.rec[b].fact
      /\ d.rec[a].scope = s /\ d.rec[b].scope = s
  BY <1>1 DEF Marked, FactRows, Readable
<1>3. a # b /\ d.rec[a].fact.group = d.rec[b].fact.group
  BY <1>2 DEF Disputes
<1>4. CASE InPool(d, ss, gs, now, a)
  <2>1. InPool(d, ss, gs, now, b)
    BY <1>1, <1>2, <1>3, <1>4, MarkedFactRows DEF InPool
  <2>2. InConflict(d, ss, gs, now, a)
    BY <1>1, <1>2, <1>3, <2>1 DEF InConflict
  <2> QED BY <1>1, <1>4, <2>2 DEF Marked
<1>5. CASE ~InPool(d, ss, gs, now, a)
  <2>1. d.rec[a].status = "contested"
    BY <1>1, <1>2, <1>5, MarkedFactRows DEF MarksBut
  <2> QED BY <1>1, <1>5, <2>1 DEF Marked
<1> QED BY <1>4, <1>5

\* Every row of e that is live is the row of d.
RowsLost(d, e) == \A r \in Live(e) : e.rec[r] = d.rec[r]

\* The rows of scopes other than ss are the same.
SameOutside(d, e, ss) ==
  \A r \in RecIds : d.rec[r].scope \notin ss => e.rec[r] = d.rec[r]

LEMMA LostMarks ==
  ASSUME NEW d, NEW e, NEW now, NEW ss, NEW gs, RowsLost(d, e), MarksBut(d, now, ss, gs)
  PROVE  MarksBut(e, now, ss, gs)
<1>1. \A s : FactRows(e, s, now) \subseteq FactRows(d, s, now)
  BY DEF FactRows, Readable, RowsLost, Live, PastTTL
<1>2. \A s : \A r \in FactRows(e, s, now) : e.rec[r] = d.rec[r]
  BY DEF FactRows, Readable, RowsLost
<1> QED BY <1>1, <1>2 DEF MarksBut

LEMMA PurgeLost ==
  ASSUME NEW d \in Database, NEW s \in Scopes, NEW S, NEW I, NEW block \in BOOLEAN
  PROVE  /\ RowsLost(d, Purge(d, s, S, I, block))
         /\ SameOutside(d, Purge(d, s, S, I, block), {s})
<1> DEFINE e == Purge(d, s, S, I, block)
           R == ErasedBy(d, s, S, I)
           K == Reached(d, s, S, I)
<1>1. Purged(d, e, s, K, R, block)
  BY PurgeFields
<1>2. \A r \in R : d.rec[r].scope = s
  BY DEF ErasedBy, Present
<1> HIDE DEF e, R, K
<1>3. \A r \in RecIds : e.rec[r] = IF r \in R
                          THEN [d.rec[r] EXCEPT !.status = "deleted", !.fact = NoFact]
                          ELSE d.rec[r]
  BY <1>1 DEF Purged
<1>4. ASSUME NEW r \in RecIds, e.rec[r].status \in LiveStatus
      PROVE  e.rec[r] = d.rec[r]
  <2>1. d.rec[r] \in Row
    BY DEF Database
  <2>2. r \notin R
    BY <1>3, <1>4, <2>1 DEF Row, LiveStatus
  <2> QED BY <1>3, <2>2
<1>5. RowsLost(d, e) /\ SameOutside(d, e, {s})
  BY <1>2, <1>3, <1>4 DEF RowsLost, SameOutside, Live
<1> QED BY <1>5 DEF e

LEMMA ExpireLost ==
  ASSUME NEW d \in Database, NEW X
  PROVE  /\ RowsLost(d, Expire(d, X))
         /\ \A r \in RecIds \ X : Expire(d, X).rec[r] = d.rec[r]
<1> DEFINE e == Expire(d, X)
<1>1. \A r \in RecIds : e.rec[r] = IF r \in X
                          THEN [d.rec[r] EXCEPT !.status = "expired", !.fact = NoFact]
                          ELSE d.rec[r]
  BY DEF Expire
<1> HIDE DEF e
<1>2. ASSUME NEW r \in RecIds, e.rec[r].status \in LiveStatus
      PROVE  e.rec[r] = d.rec[r]
  <2>1. d.rec[r] \in Row
    BY DEF Database
  <2>2. r \notin X
    BY <1>1, <1>2, <2>1 DEF Row, LiveStatus
  <2> QED BY <1>1, <2>2
<1>3. RowsLost(d, e) /\ \A r \in RecIds \ X : e.rec[r] = d.rec[r]
  BY <1>1, <1>2 DEF RowsLost, Live
<1> QED BY <1>3 DEF e

Marks(d, now) == MarksBut(d, now, {}, {})

LEMMA SameRecMarks ==
  ASSUME NEW d, NEW e, e.rec = d.rec, NEW now, NEW ss, NEW gs, MarksBut(d, now, ss, gs)
  PROVE  MarksBut(e, now, ss, gs)
BY LostMarks DEF RowsLost

LEMMA ReconcileMarks ==
  ASSUME NEW d \in Database, NEW ss \in SUBSET Scopes, NEW gs, NEW now,
         MarksBut(d, now, ss, gs)
  PROVE  Marks(Reconcile(d, ss, gs, now), now)
BY ReconcileMarked, MarkedMarks DEF Marks

LEMMA MarksWeaken ==
  ASSUME NEW d, NEW now, Marks(d, now), NEW ss, NEW gs
  PROVE  MarksBut(d, now, ss, gs)
BY DEF Marks, MarksBut

\* The facts of d and of e are the same rows.
SameFacts(d, e) ==
  \A r \in RecIds :
    \/ r \in Live(d) /\ d.rec[r].kind = "fact"
    \/ r \in Live(e) /\ e.rec[r].kind = "fact"
    => e.rec[r] = d.rec[r]

LEMMA SameFactRows ==
  ASSUME NEW d, NEW e, SameFacts(d, e), NEW s, NEW now
  PROVE  /\ FactRows(e, s, now) = FactRows(d, s, now)
         /\ \A r \in FactRows(d, s, now) : e.rec[r] = d.rec[r]
         /\ \A g : /\ GroupRows(e, s, g) = GroupRows(d, s, g)
                   /\ Settled(d, s, g, now) => Settled(e, s, g, now)
<1>1. \A r \in RecIds : (r \in FactRows(d, s, now) \/ r \in FactRows(e, s, now)) =>
        e.rec[r] = d.rec[r]
  BY DEF SameFacts, FactRows, Readable
<1>2. FactRows(e, s, now) = FactRows(d, s, now)
  BY <1>1 DEF FactRows, Readable, Live, PastTTL
<1>3. \A r \in FactRows(d, s, now) : e.rec[r] = d.rec[r]
  BY <1>1 DEF FactRows, Readable, Live
<1>4. ASSUME NEW g
      PROVE  GroupRows(e, s, g) = GroupRows(d, s, g)
  <2> DEFINE G(x) == {r \in Live(x) : /\ x.rec[r].scope = s /\ x.rec[r].kind = "fact"
                                      /\ x.rec[r].fact.group = g}
  <2>1. G(e) = G(d) /\ \A r \in G(d) : e.rec[r] = d.rec[r]
    BY DEF SameFacts, Live
  <2>2. GroupRows(e, s, g) = {<<r, e.rec[r].rev>> : r \in G(e)}
    BY DEF GroupRows
  <2>3. GroupRows(d, s, g) = {<<r, d.rec[r].rev>> : r \in G(d)}
    BY DEF GroupRows
  <2> HIDE DEF G
  <2> QED BY <2>1, <2>2, <2>3
<1>5. ASSUME NEW g, Settled(d, s, g, now)
      PROVE  Settled(e, s, g, now)
  BY <1>2, <1>3, <1>5 DEF Settled
<1> QED BY <1>2, <1>3, <1>4, <1>5

\* Storing a record that is no fact, in the place of none.
LEMMA PutSameFacts ==
  ASSUME NEW d, NEW e, NEW r \in RecIds, NEW row, NEW src, Stored(d, e, r, row, src),
         row.kind # "fact", r \in Live(d) => d.rec[r].kind # "fact"
  PROVE  SameFacts(d, e)
BY DEF Stored, SameFacts, Live

LEMMA PutFactMarks ==
  ASSUME NEW d, NEW e, NEW r \in RecIds, NEW row, NEW src, Stored(d, e, r, row, src),
         NEW now, Marks(d, now), NEW gs, row.fact.group \in gs
  PROVE  MarksBut(e, now, {row.scope}, gs)
<1> SUFFICES ASSUME NEW s \in Scopes, NEW a \in FactRows(e, s, now),
                    NEW b \in FactRows(e, s, now),
                    Disputes(e.rec[a].fact, e.rec[b].fact)
             PROVE  \/ e.rec[a].status = "contested"
                    \/ s = row.scope /\ e.rec[a].fact.group \in gs
  BY DEF MarksBut
<1>1. \A o \in RecIds : e.rec[o] = IF o = r THEN row ELSE d.rec[o]
  BY DEF Stored
<1>2. /\ a \in RecIds /\ b \in RecIds /\ e.rec[a].scope = s /\ e.rec[b].scope = s
      /\ e.rec[a].fact.group = e.rec[b].fact.group
  BY DEF FactRows, Readable, Live, Disputes
<1>3. CASE a = r \/ b = r
  BY <1>1, <1>2, <1>3
<1>4. CASE a # r /\ b # r
  <2>1. a \in FactRows(d, s, now) /\ b \in FactRows(d, s, now)
        /\ e.rec[a] = d.rec[a] /\ e.rec[b] = d.rec[b]
    BY <1>1, <1>2, <1>4 DEF FactRows, Readable, Live, PastTTL
  <2> QED BY <2>1 DEF Marks, MarksBut
<1> QED BY <1>3, <1>4

\* What ConflictsMarked and GroupsSettled say of the tables d that become e.
Settles(d, e, now) ==
  /\ Marks(d, now) => Marks(e, now)
  /\ \A s \in Scopes, g \in Groups :
       GroupRows(d, s, g) # GroupRows(e, s, g) => Settled(e, s, g, now)

LEMMA SameFactMarks ==
  ASSUME NEW d, NEW e, SameFacts(d, e), NEW now, Marks(d, now)
  PROVE  Marks(e, now)
<1> SUFFICES ASSUME NEW s \in Scopes, NEW a \in FactRows(e, s, now),
                    NEW b \in FactRows(e, s, now),
                    Disputes(e.rec[a].fact, e.rec[b].fact)
             PROVE  e.rec[a].status = "contested"
  BY DEF Marks, MarksBut
<1>1. /\ a \in FactRows(d, s, now) /\ b \in FactRows(d, s, now)
      /\ e.rec[a] = d.rec[a] /\ e.rec[b] = d.rec[b]
  BY SameFactRows
<1> QED BY <1>1 DEF Marks, MarksBut

LEMMA SettlesSame ==
  ASSUME NEW d, NEW e, NEW f, NEW now, Settles(d, e, now), SameFacts(e, f)
  PROVE  Settles(d, f, now)
<1>1. Marks(d, now) => Marks(f, now)
  BY SameFactMarks DEF Settles
<1>2. ASSUME NEW s \in Scopes, NEW g \in Groups, GroupRows(d, s, g) # GroupRows(f, s, g)
      PROVE  Settled(f, s, g, now)
  <2>1. GroupRows(f, s, g) = GroupRows(e, s, g)
    BY SameFactRows
  <2>2. Settled(e, s, g, now)
    BY <1>2, <2>1 DEF Settles
  <2> QED BY <2>2, SameFactRows
<1> QED BY <1>1, <1>2 DEF Settles

LEMMA SameRecSettles ==
  ASSUME NEW d, NEW e, NEW f, NEW now, Settles(d, e, now), f.rec = e.rec
  PROVE  Settles(d, f, now)
BY SettlesSame DEF SameFacts

LEMMA SettlesNothing == ASSUME NEW d, NEW now PROVE Settles(d, d, now)
BY DEF Settles

LEMMA GroupRowsKept ==
  ASSUME NEW d, NEW e, NEW s, NEW g,
         \A r \in RecIds :
           \/ r \in Live(d) /\ d.rec[r].scope = s /\ d.rec[r].kind = "fact"
                /\ d.rec[r].fact.group = g
           \/ r \in Live(e) /\ e.rec[r].scope = s /\ e.rec[r].kind = "fact"
                /\ e.rec[r].fact.group = g
           => /\ r \in Live(d) <=> r \in Live(e)
              /\ e.rec[r].scope = d.rec[r].scope /\ e.rec[r].kind = d.rec[r].kind
              /\ e.rec[r].fact = d.rec[r].fact /\ e.rec[r].rev = d.rec[r].rev
  PROVE  GroupRows(e, s, g) = GroupRows(d, s, g)
<1> DEFINE G(x) == {r \in Live(x) : /\ x.rec[r].scope = s /\ x.rec[r].kind = "fact"
                                    /\ x.rec[r].fact.group = g}
<1>1. G(e) = G(d) /\ \A r \in G(d) : e.rec[r].rev = d.rec[r].rev
  BY DEF Live
<1>2. GroupRows(e, s, g) = {<<r, e.rec[r].rev>> : r \in G(e)}
  BY DEF GroupRows
<1>3. GroupRows(d, s, g) = {<<r, d.rec[r].rev>> : r \in G(d)}
  BY DEF GroupRows
<1> HIDE DEF G
<1> QED BY <1>1, <1>2, <1>3

LEMMA MarkedGroupRows ==
  ASSUME NEW d, NEW e, NEW ss, NEW gs, NEW now, Marked(d, e, ss, gs, now), NEW s, NEW g
  PROVE  GroupRows(e, s, g) = GroupRows(d, s, g)
BY GroupRowsKept DEF Marked

\* Losing rows of the scopes ss, and then marking all the facts of ss anew.
LEMMA LostSettles ==
  ASSUME NEW d, NEW e \in Database, NEW now, RowsLost(d, e),
         NEW ss \in SUBSET Scopes, SameOutside(d, e, ss)
  PROVE  Settles(d, Reconcile(e, ss, Groups, now), now)
<1> DEFINE f == Reconcile(e, ss, Groups, now)
<1>1. Marked(e, f, ss, Groups, now)
  BY ReconcileMarked
<1>2. Marks(d, now) => Marks(f, now)
  BY LostMarks, MarksWeaken, ReconcileMarks DEF Marks
<1> HIDE DEF f
<1>3. ASSUME NEW s \in Scopes, NEW g \in Groups, s \notin ss
      PROVE  GroupRows(f, s, g) = GroupRows(d, s, g)
  <2>1. GroupRows(e, s, g) = GroupRows(d, s, g)
    BY <1>3, GroupRowsKept DEF RowsLost, SameOutside, Live
  <2> QED BY <1>1, <2>1, MarkedGroupRows
<1>4. Settles(d, f, now)
  BY <1>1, <1>2, <1>3, MarkedSettled DEF Settles
<1> QED BY <1>4 DEF f

LEMMA WritesSettles ==
  ASSUME TypeOK, NEW s \in Scopes, NEW r \in RecIds, NEW row, NEW src, NEW gs,
         Writes(s, r, row, src, gs)
  PROVE  Settles(db, db', clock)
<1> DEFINE put == Put(db, r, row, src)
           stored == IF row.kind = "fact" THEN Reconcile(put, {s}, gs, clock) ELSE put
<1>1. /\ put \in Database /\ Stored(db, put, r, row, src)
      /\ row.scope = s /\ row.status \in LiveStatus
      /\ row.kind = "fact" => row.fact.group \in gs
      /\ r \in Live(db) => /\ db.rec[r].scope = s /\ db.rec[r].kind = row.kind
                           /\ row.kind = "fact" => db.rec[r].fact.group \in gs
  BY PutType, PutFields DEF Writes, TypeOK, Continues, Readable
<1>2. db' = Bump(stored)
  BY DEF Writes
<1> HIDE DEF put
<1>3. db'.rec = stored.rec
  <2>1. stored \in Database
    BY <1>1, ReconcileType
  <2> HIDE DEF stored
  <2> QED BY <1>2, <2>1, BumpElse
<1>4. CASE row.kind = "fact"
  <2>1. stored = Reconcile(put, {s}, gs, clock)
    BY <1>4
  <2>2. Marked(put, stored, {s}, gs, clock)
    BY <1>1, <2>1, ReconcileMarked
  <2>3. Marks(db, clock) => Marks(stored, clock)
    BY <1>1, <1>4, <2>1, PutFactMarks, ReconcileMarks
  <2>4. ASSUME NEW t \in Scopes, NEW g \in Groups, t # s \/ g \notin gs
        PROVE  GroupRows(stored, t, g) = GroupRows(db, t, g)
    <3>1. \A o \in RecIds : put.rec[o] = IF o = r THEN row ELSE db.rec[o]
      BY <1>1 DEF Stored
    <3>2. GroupRows(put, t, g) = GroupRows(db, t, g)
      BY <1>1, <1>4, <2>4, <3>1, GroupRowsKept DEF Live
    <3> QED BY <2>2, <3>2, MarkedGroupRows
  <2> HIDE DEF stored
  <2>5. Settles(db, stored, clock)
    BY <2>2, <2>3, <2>4, MarkedSettled DEF Settles
  <2> QED BY <2>5, SameRecSettles, <1>3
<1>5. CASE row.kind # "fact"
  <2>1. stored = put /\ SameFacts(db, put)
    BY <1>1, <1>5, PutSameFacts
  <2>2. Settles(db, stored, clock)
    BY <2>1, SettlesNothing, SettlesSame
  <2> HIDE DEF stored
  <2> QED BY <2>2, SameRecSettles, <1>3
<1> QED BY <1>4, <1>5

LEMMA ForgetSettles ==
  ASSUME TypeOK, NEW s \in Scopes, NEW ids, NEW revs, Forget(s, ids, revs)
  PROVE  Settles(db, db', clock)
<1> DEFINE purged == Purge(db, s, {}, ids, TRUE)
           settled == Reconcile(purged, {s}, Groups, clock)
<1>1. purged \in Database /\ RowsLost(db, purged) /\ SameOutside(db, purged, {s})
  BY PurgeType, PurgeLost DEF TypeOK
<1>2. db' = Bump(settled)
  BY DEF Forget
<1> HIDE DEF purged
<1>3. settled \in Database /\ Settles(db, settled, clock)
  BY <1>1, ReconcileType, LostSettles
<1> HIDE DEF settled
<1> QED BY <1>2, <1>3, BumpElse, SameRecSettles

LEMMA SweepSettles ==
  ASSUME NEW d \in Database, NEW now
  PROVE  Settles(d, Sweep(d, now), now)
<1> DEFINE X == Lapsed(d, now)
           e == Expire(d, X)
           ss == {d.rec[r].scope : r \in X}
<1>1. e \in Database /\ RowsLost(d, e) /\ \A r \in RecIds \ X : e.rec[r] = d.rec[r]
  BY ExpireType, ExpireLost
<1>2. X \subseteq RecIds
  BY DEF Lapsed, Live
<1>3. Sweep(d, now) = Reconcile(e, ss, Groups, now)
  BY DEF Sweep
<1> HIDE DEF X, e
<1>4. ss \in SUBSET Scopes /\ SameOutside(d, e, ss)
  BY <1>1, <1>2 DEF SameOutside, Database, Row
<1> HIDE DEF ss
<1> QED BY <1>1, <1>3, <1>4, LostSettles

LEMMA MaintainSettles ==
  ASSUME TypeInv, Consistent(db), Maintain
  PROVE  \/ Settles(db, db', clock)
         \/ /\ Marks(db, clock) => Marks(db', clock)
            /\ \E s \in Scopes, q \in Deliveries : MaintainCancel(s, q)
<1> DEFINE swept == Sweep(db, clock)
<1>1. /\ swept \in Database /\ Consistent(swept) /\ Cut(db, swept, Lapsed(db, clock))
      /\ Settles(db, swept, clock) /\ clock \in Nat /\ db \in Database
  BY SweepType, SweepConsistent, SweepCut, SweepSettles, BoundAssumption
     DEF TypeInv, TypeOK
<1> HIDE DEF swept
<1>2. CASE MaintainSweep
  <2>1. db' = Bump(swept)
    BY <1>2 DEF MaintainSweep, swept
  <2> QED BY <1>1, <2>1, BumpElse, SameRecSettles
<1>3. ASSUME NEW s \in Scopes, NEW q \in Deliveries, MaintainJob(s, q)
      PROVE  Settles(db, db', clock)
  <2>1. PICK r \in RecIds : /\ db.rec[r].status = "absent"
                            /\ db' = Bump(Derive(swept, s, q, r, clock))
    BY <1>3 DEF MaintainJob, swept
  <2>2. /\ swept.rec[r].status = "absent"
        /\ swept.obs[s][q].job = "accepted" /\ swept.obs[s][q].attempts < MaxAttempts
    BY <1>1, <1>3, <2>1, JobOfQueue DEF MaintainJob, swept, Cut
  <2> DEFINE derived == Derive(swept, s, q, r, clock)
  <2>3. PICK put \in Database, row \in Row, done \in ObsRow :
          /\ row.kind # "fact" /\ Stored(swept, put, r, row, Cites(q))
          /\ derived = SetObs(put, s, q, done) /\ derived \in Database
    BY <1>1, <2>2, DeriveParts
  <2>4. db' = Bump(derived)
    BY <2>1
  <2> HIDE DEF derived
  <2>5. r \notin Live(swept)
    BY <2>2 DEF Live, LiveStatus
  <2>6. Settles(db, put, clock)
    BY <1>1, <2>3, <2>5, PutSameFacts, SettlesSame
  <2>7. db'.rec = put.rec
    BY <2>3, <2>4, SetObsElse, BumpElse
  <2> QED BY <2>6, <2>7, SameRecSettles
<1>4. ASSUME NEW s \in Scopes, NEW q \in Deliveries, MaintainCancel(s, q)
      PROVE  Marks(db, clock) => Marks(db', clock)
  <2>1. db' = Purge(swept, s, {q.key}, {}, TRUE)
    BY <1>4 DEF MaintainCancel, swept
  <2>2. RowsLost(swept, db')
    BY <1>1, <2>1, PurgeLost
  <2> QED BY <1>1, <2>2, LostMarks DEF Settles, Marks
<1>5. ASSUME NEW s \in Scopes, NEW q \in Deliveries, MaintainFail(s, q)
      PROVE  Settles(db, db', clock)
  BY <1>5, FailChanges, SettlesNothing, SameRecSettles
<1> QED BY <1>2, <1>3, <1>4, <1>5 DEF Maintain

\* observe() only erases facts; a row that was rightly contested may stay so.
LEMMA ObserveMarks ==
  ASSUME TypeOK, Consistent(db), NEW s \in Scopes, NEW q \in Deliveries,
         Observe(s, q), Marks(db, clock)
  PROVE  Marks(db', clock)
<1>1. PICK before \in Database, fresh \in Database, stored \in Database :
        /\ Dropped(db, before, s, {q.key})
        /\ before = Invalidated(Superseded(db, s, q), s, q)
        /\ fresh = SetObs(before, s, q, Queued(q, clock))
        /\ stored = IF Refused(db, s, q) THEN Purge(fresh, s, {q.key}, {}, TRUE)
                                         ELSE fresh
        /\ db' = Bump(stored)
  BY ObserveParts
<1>2. q.key \in Keys /\ q.targets \in SUBSET Keys /\ db \in Database
  BY StoreAssumption DEF Delivery, TypeOK
<1>3. ASSUME NEW d \in Database, Marks(d, clock), NEW S \in SUBSET Keys, NEW I,
             NEW block \in BOOLEAN
      PROVE  /\ ClearSource(Purge(d, s, S, I, block), s, S) \in Database
             /\ Marks(ClearSource(Purge(d, s, S, I, block), s, S), clock)
  <2> DEFINE p == Purge(d, s, S, I, block)
             e == ClearSource(p, s, S)
  <2>1. p \in Database /\ RowsLost(d, p)
    BY <1>3, PurgeType, PurgeLost
  <2> HIDE DEF p
  <2>2. e \in Database /\ e.rec = p.rec
    <3>1. e.rec = p.rec
      BY <2>1 DEF ClearSource, Database
    <3> QED BY <2>1, <3>1, ClearSourceType
  <2> HIDE DEF e
  <2>3. Marks(e, clock)
    BY <1>3, <2>1, <2>2, LostMarks, SameRecMarks DEF Marks
  <2> QED BY <2>2, <2>3 DEF e, p
<1>4. Superseded(db, s, q) \in Database /\ Marks(Superseded(db, s, q), clock)
  BY <1>2, <1>3 DEF Superseded
<1>5. Marks(before, clock)
  BY <1>1, <1>2, <1>3, <1>4 DEF Invalidated
<1>6. Marks(fresh, clock)
  BY <1>1, <1>5, SetObsElse, SameRecMarks DEF Marks
<1>7. Marks(stored, clock)
  <2>1. CASE Refused(db, s, q)
    <3>1. RowsLost(fresh, stored)
      BY <1>1, <1>2, <2>1, PurgeLost
    <3> QED BY <1>6, <3>1, LostMarks DEF Marks
  <2>2. CASE ~Refused(db, s, q)
    BY <1>1, <1>6, <2>2
  <2> QED BY <2>1, <2>2
<1>8. db'.rec = stored.rec
  <2>1. stored \in Database /\ db' = Bump(stored)
    BY <1>1
  <2> QED BY <2>1, BumpElse
<1> QED BY <1>7, <1>8, SameRecMarks DEF Marks

\* Marks outlive the passing of time, which can only end conflicts.
LEMMA LaterMarks ==
  ASSUME NEW d \in Database, NEW now \in Nat, NEW later \in Nat, now <= later,
         Marks(d, now)
  PROVE  Marks(d, later)
<1>1. \A r \in RecIds : PastTTL(d, r, now) => PastTTL(d, r, later)
  <2> SUFFICES ASSUME NEW r \in RecIds, d.rec[r].expires # Never,
                      d.rec[r].expires <= now
               PROVE  d.rec[r].expires <= later
    BY DEF PastTTL
  <2>1. d.rec[r].expires \in Nat
    BY DEF Database, Row
  <2> QED BY <2>1
<1>2. \A s : FactRows(d, s, later) \subseteq FactRows(d, s, now)
  BY <1>1 DEF FactRows, Readable, Live
<1> QED BY <1>2 DEF Marks, MarksBut

LEMMA NextMarks ==
  TypeInv /\ Consistent(db) /\ Marks(db, clock) /\ [Next]_vars => Marks(db, clock)'
<1> SUFFICES ASSUME TypeInv, Consistent(db), Marks(db, clock), [Next]_vars
             PROVE  Marks(db', clock')
  BY DEF Marks, MarksBut
<1>1. TypeOK /\ TypeOK'
  BY NextTypeInv DEF TypeInv
<1>2. Marks(db', clock)
  <2>1. \A s \in Scopes, r \in RecIds : \A row, src, gs :
          Writes(s, r, row, src, gs) => Marks(db', clock)
    BY <1>1, WritesSettles DEF Settles
  <2>2. \A s \in Scopes : \A ids, revs : Forget(s, ids, revs) => Marks(db', clock)
    BY <1>1, ForgetSettles DEF Settles
  <2>3. Maintain => Marks(db', clock)
    BY MaintainSettles DEF Settles
  <2>4. \A s \in Scopes, q \in Deliveries : Observe(s, q) => Marks(db', clock)
    BY <1>1, ObserveMarks
  <2>5. UNCHANGED db => Marks(db', clock)
    OBVIOUS
  <2> QED BY <2>1, <2>2, <2>3, <2>4, <2>5, StepCases
<1>3. clock' \in {clock, clock + 1}
  <2>1. CASE \E s \in Scopes, kind \in SaveKinds, f \in Facts \cup {NoFact}, src \in SourceSets :
               \E exp \in SaveExpiries(kind, clock) : Save(s, kind, f, src, exp)
    BY <2>1 DEF Save
  <2>2. CASE \E s \in Scopes, r \in RecIds, n \in 1..MaxRevision,
                f \in Facts \cup {NoFact}, src \in SourceSets : Correct(s, r, n, f, src)
    BY <2>2 DEF Correct
  <2>3. CASE \E s \in Scopes, ids \in SUBSET RecIds : \E revs : Forget(s, ids, revs)
    BY <2>3 DEF Forget
  <2>4. CASE \E s \in Scopes, q \in Deliveries : Observe(s, q)
    BY <2>4 DEF Observe
  <2>5. CASE Maintain
    BY <2>5 DEF Maintain, MaintainSweep, MaintainJob, MaintainCancel, MaintainFail
  <2>6. CASE Tick \/ UNCHANGED vars
    BY <2>6 DEF Tick, vars
  <2> QED BY <2>1, <2>2, <2>3, <2>4, <2>5, <2>6 DEF Next
<1>4. clock \in Nat /\ clock' \in Nat /\ db' \in Database
  BY <1>1, BoundAssumption DEF TypeOK
<1> QED BY <1>2, <1>3, <1>4, LaterMarks

LEMMA InitMarks == Init \/ InitUpgraded => Marks(db, clock)
<1> SUFFICES ASSUME Init \/ InitUpgraded PROVE Marks(db, clock)
  OBVIOUS
<1>1. db.rec = [r \in RecIds |-> NoRow]
  <2>1. CASE Init
    BY <2>1 DEF Init, EmptyDatabase
  <2>2. CASE InitUpgraded
    BY <2>2 DEF InitUpgraded, EmptyDatabase
  <2> QED BY <2>1, <2>2
<1>2. \A s : FactRows(db, s, clock) = {}
  BY <1>1 DEF FactRows, Readable, Live, NoRow, LiveStatus
<1> QED BY <1>2 DEF Marks, MarksBut

LEMMA MarksMarked == Marks(db, clock) => ConflictsMarked
BY DEF Marks, MarksBut, ConflictsMarked

\* Of two unexpired facts of a scope that give one group different values
\* over overlapping intervals, both rows are marked contested, whatever
\* saved, corrected, forgot, superseded or expired facts before.
THEOREM ConflictsMarkedHolds == Spec \/ SpecUpgraded => []ConflictsMarked
<1>1. Spec => []ConflictsMarked
  BY InitInvariant, NextInvariant, InitMarks, NextMarks, MarksMarked, PTL DEF Spec
<1>2. SpecUpgraded => []ConflictsMarked
  BY InitInvariant, NextInvariant, InitMarks, NextMarks, MarksMarked, PTL
     DEF SpecUpgraded
<1> QED BY <1>1, <1>2

LEMMA MarksRead ==
  ASSUME TypeInv, Consistent(db), Marks(db, clock)
  PROVE  ReadAgreesWithMark
<1> SUFFICES ASSUME NEW s \in Scopes, NEW r \in FactRows(db, s, clock),
                    CurrentStatus(db, r, clock) = "contested"
             PROVE  db.rec[r].status = "contested"
  BY DEF ReadAgreesWithMark
<1>1. r \in RecIds /\ r \in Live(db) /\ db.rec[r].kind = "fact" /\ db.rec[r].scope = s
  BY DEF FactRows, Readable, Live
<1>2. /\ Valid(db.rec[r].fact, clock)
      /\ \E o \in Readable(db, s, clock) :
           /\ db.rec[o].kind = "fact" /\ db.rec[o].fact.group = db.rec[r].fact.group
           /\ db.rec[o].fact.value # db.rec[r].fact.value
           /\ Valid(db.rec[o].fact, clock)
  BY <1>1 DEF CurrentStatus
<1>3. PICK o \in FactRows(db, s, clock) :
        /\ db.rec[o].fact.group = db.rec[r].fact.group
        /\ db.rec[o].fact.value # db.rec[r].fact.value
        /\ Valid(db.rec[o].fact, clock)
  BY <1>2 DEF FactRows
<1>4. \A x \in FactRows(db, s, clock) : db.rec[x].fact \in Fact
  <2>1. \A x \in RecIds : db.rec[x].fact \in Facts \cup {NoFact}
    BY DEF TypeInv, TypeOK, Database, Row
  <2>2. \A x \in FactRows(db, s, clock) : x \in RecIds /\ db.rec[x].fact # NoFact
    BY DEF FactRows, Readable, Live, Consistent, RowsAgree
  <2> QED BY <2>1, <2>2, StoreAssumption
<1>5. Overlap(db.rec[r].fact, db.rec[o].fact)
  <2>1. /\ db.rec[r].fact.from \in Nat /\ db.rec[r].fact.to \in Nat
        /\ db.rec[o].fact.from \in Nat /\ db.rec[o].fact.to \in Nat
    BY <1>4 DEF Fact
  <2>2. clock \in Nat
    BY BoundAssumption DEF TypeInv, TypeOK
  <2> QED BY <1>2, <1>3, <2>1, <2>2 DEF Overlap, Valid
<1>6. Disputes(db.rec[r].fact, db.rec[o].fact)
  BY <1>3, <1>5 DEF Disputes
<1> QED BY <1>6 DEF Marks, MarksBut

\* What get and search compute for a fact at read time never says contested
\* of a row whose stored mark says that it is settled.
THEOREM ReadAgreesWithMarkHolds == Spec \/ SpecUpgraded => []ReadAgreesWithMark
<1>1. TypeInv /\ Consistent(db) /\ Marks(db, clock) => ReadAgreesWithMark
  BY MarksRead
<1>2. Spec => []ReadAgreesWithMark
  BY <1>1, InitInvariant, NextInvariant, InitMarks, NextMarks, PTL DEF Spec
<1>3. SpecUpgraded => []ReadAgreesWithMark
  BY <1>1, InitInvariant, NextInvariant, InitMarks, NextMarks, PTL DEF SpecUpgraded
<1> QED BY <1>2, <1>3

LEMMA ObserveAppears ==
  ASSUME TypeOK, Consistent(db), NEW s \in Scopes, NEW q \in Deliveries, Observe(s, q)
  PROVE  db.obs[s][q].state = "absent" /\ db'.obs[s][q].state # "absent"
<1>1. PICK before \in Database, fresh \in Database, stored \in Database :
        /\ fresh = SetObs(before, s, q, Queued(q, clock))
        /\ stored = IF Refused(db, s, q) THEN Purge(fresh, s, {q.key}, {}, TRUE)
                                         ELSE fresh
        /\ db' = Bump(stored)
  BY ObserveParts
<1>2. fresh.obs[s][q].state # "absent"
  <2>1. fresh.obs[s][q] = Queued(q, clock)
    BY <1>1 DEF SetObs, Database
  <2> QED BY <2>1 DEF Queued
<1>3. stored.obs[s][q].state # "absent"
  <2>1. CASE Refused(db, s, q)
    <3>1. Purged(fresh, stored, s, Reached(fresh, s, {q.key}, {}),
                 ErasedBy(fresh, s, {q.key}, {}), TRUE)
      BY <1>1, <2>1, PurgeFields
    <3>2. stored.obs[s][q] \in {fresh.obs[s][q], Cleared(fresh.obs[s][q])}
      BY <3>1 DEF Purged
    <3>3. fresh.obs[s][q] \in ObsRow
      BY <1>1 DEF Database
    <3> QED BY <1>2, <3>2, <3>3 DEF Cleared, ObsRow
  <2>2. CASE ~Refused(db, s, q)
    BY <1>1, <1>2, <2>2
  <2> QED BY <2>1, <2>2
<1>4. stored \in Database /\ db' = Bump(stored)
  BY <1>1
<1>5. db'.obs = stored.obs
  BY <1>4, BumpElse
<1> QED BY <1>3, <1>5 DEF Observe

LEMMA ObserveArrives ==
  ASSUME TypeOK, Consistent(db), NEW s \in Scopes, NEW q \in Deliveries, Observe(s, q)
  PROVE  Arrives
BY ObserveAppears DEF Arrives

\* Saving, correcting, forgetting or expiring a fact leaves the marks of
\* every group it left or joined exact: contested if and only if another
\* live fact of the group disputes it.
THEOREM GroupsSettledHolds == Spec => GroupsSettled
<1>1. TypeInv /\ Consistent(db) /\ Clean(db) /\ [Next]_vars =>
        (~Arrives => \A s \in Scopes, g \in Groups :
           GroupRows(db, s, g) # GroupRows(db', s, g) => Settled(db', s, g, clock))
  <2> SUFFICES ASSUME TypeInv, Consistent(db), Clean(db), [Next]_vars, ~Arrives
               PROVE  Settles(db, db', clock)
    BY DEF Settles
  <2>0. TypeOK /\ PayloadsClean(db)
    BY DEF TypeInv, Clean
  <2>1. \A s \in Scopes, r \in RecIds : \A row, src, gs :
          Writes(s, r, row, src, gs) => Settles(db, db', clock)
    BY <2>0, WritesSettles
  <2>2. \A s \in Scopes : \A ids, revs : Forget(s, ids, revs) => Settles(db, db', clock)
    BY <2>0, ForgetSettles
  <2>3. Maintain => Settles(db, db', clock)
    BY <2>0, MaintainSettles, NoCancel
  <2>4. \A s \in Scopes, q \in Deliveries : ~Observe(s, q)
    BY <2>0, ObserveArrives
  <2>5. UNCHANGED db => Settles(db, db', clock)
    BY SettlesNothing
  <2> QED BY <2>1, <2>2, <2>3, <2>4, <2>5, StepCases
<1>2. Init => Clean(db)
  BY InitClean DEF Clean
<1> QED BY <1>1, <1>2, InitInvariant, NextInvariant, NextClean, PTL
        DEF Spec, GroupsSettled

-----------------------------------------------------------------------------
(* Descendants.                                                            *)

\* The worklists stop at a set of keys that they would not add to.
LEMMA ReachedClosed ==
  ASSUME NEW d \in Database, NEW s \in Scopes, NEW S, NEW I
  PROVE  Closed(d, s, Reached(d, s, S, I))
<1> DEFINE T == S \cup UNION {OwnKeys(d, s, r) : r \in I \cap Present(d, s)}
           Above(C) == T \subseteq C /\ Closed(d, s, C)
           K == Reached(d, s, S, I)
<1>1. K = {k \in Keys : \A C \in SUBSET Keys : Above(C) => k \in C}
  BY DEF Reached, Closure
<1>2. \A C : Above(C) => Closed(d, s, C)
  OBVIOUS
<1> HIDE DEF Above, K
<1>3. \A C \in SUBSET Keys : Above(C) => K \subseteq C
  BY <1>1
<1>4. ASSUME NEW q \in Deliveries, d.obs[s][q].live, Cites(q) \cap K # {}
      PROVE  Names(q) \subseteq K
  <2>1. \A C \in SUBSET Keys : Above(C) => Names(q) \subseteq C
    BY <1>2, <1>3, <1>4 DEF Closed
  <2> QED BY <1>1, <2>1, DeliveryKeys
<1>5. ASSUME NEW r \in Present(d, s), d.deps[r] \cap K # {}
      PROVE  OwnKeys(d, s, r) \subseteq K
  <2>1. \A C \in SUBSET Keys : Above(C) => OwnKeys(d, s, r) \subseteq C
    BY <1>2, <1>3, <1>5 DEF Closed
  <2>2. OwnKeys(d, s, r) \subseteq Keys
    <3>1. d.deps[r] \subseteq Keys
      BY DEF Database, Present
    <3>2. \A q \in Deliveries : q.key \in Keys
      BY StoreAssumption DEF Delivery
    <3> QED BY <3>1, <3>2 DEF OwnKeys
  <2> QED BY <1>1, <2>1, <2>2
<1>6. Closed(d, s, K)
  BY <1>4, <1>5 DEF Closed
<1> QED BY <1>6 DEF K

\* Erasing a record visits the event that produced it.
LEMMA ErasedProducer ==
  ASSUME NEW d \in Database, NEW s \in Scopes, NEW S \in SUBSET Keys, NEW I,
         NEW r \in ErasedBy(d, s, S, I), NEW q \in Deliveries, d.obs[s][q].record = r
  PROVE  q.key \in Reached(d, s, S, I)
<1>1. r \in Present(d, s) /\ (r \in I \/ d.deps[r] \cap Reached(d, s, S, I) # {})
  BY DEF ErasedBy
<1>2. q.key \in OwnKeys(d, s, r)
  BY DEF OwnKeys
<1>3. q.key \in Keys
  BY StoreAssumption DEF Delivery
<1>4. CASE r \in I
  BY <1>1, <1>2, <1>3, <1>4 DEF Reached, Closure
<1>5. CASE d.deps[r] \cap Reached(d, s, S, I) # {}
  BY <1>1, <1>2, <1>5, ReachedClosed DEF Closed
<1> QED BY <1>1, <1>4, <1>5

\* ... and all the names of a retained event that produced it.
LEMMA ErasedNames ==
  ASSUME NEW d \in Database, NEW s \in Scopes, NEW S \in SUBSET Keys, NEW I,
         NEW r \in ErasedBy(d, s, S, I), NEW q \in Deliveries, d.obs[s][q].record = r,
         d.obs[s][q].live
  PROVE  Names(q) \subseteq Reached(d, s, S, I)
<1>1. q.key \in Reached(d, s, S, I) /\ q.key \in Cites(q)
  BY ErasedProducer, DeliveryKeys
<1> QED BY <1>1, ReachedClosed DEF Closed

LEMMA PurgeBlocks ==
  ASSUME NEW d \in Database, NEW s \in Scopes, NEW S, NEW I
  PROVE  Purge(d, s, S, I, TRUE).tomb[s] = d.tomb[s] \cup Reached(d, s, S, I)
<1> DEFINE K == Reached(d, s, S, I)
           e == Purge(d, s, S, I, TRUE)
<1>1. Purged(d, e, s, K, ErasedBy(d, s, S, I), TRUE)
  BY PurgeFields
<1> HIDE DEF K, e
<1>2. e.tomb[s] = d.tomb[s] \cup K
  BY <1>1 DEF Purged
<1> QED BY <1>2 DEF K, e

LEMMA PurgedErases ==
  ASSUME NEW d, NEW e, NEW s, NEW K, NEW R, NEW block, Purged(d, e, s, K, R, block),
         NEW r \in Live(d), r \notin Live(e)
  PROVE  r \in R
BY DEF Purged, Live

\* Only what a purge erases dies.
LEMMA PurgeErases ==
  ASSUME NEW d \in Database, NEW s \in Scopes, NEW S, NEW I, NEW block \in BOOLEAN,
         NEW r \in Live(d), r \notin Live(Purge(d, s, S, I, block))
  PROVE  r \in ErasedBy(d, s, S, I)
<1> DEFINE R == ErasedBy(d, s, S, I)
           e == Purge(d, s, S, I, block)
<1>1. Purged(d, e, s, Reached(d, s, S, I), R, block)
  BY PurgeFields
<1> HIDE DEF R
<1>2. r \in R
  BY <1>1, PurgedErases DEF e
<1> QED BY <1>2 DEF R

\* Blocking what is reached blocks the names of every retained observation
\* of which it blocks a source.
LEMMA ReachedTaints ==
  ASSUME NEW d \in Database, NEW s \in Scopes, NEW S, NEW I, NEW q \in Deliveries,
         d.obs[s][q].live, NEW T, Cites(q) \cap T = {},
         Cites(q) \cap (T \cup Reached(d, s, S, I)) # {}
  PROVE  Names(q) \subseteq T \cup Reached(d, s, S, I)
<1> DEFINE K == Reached(d, s, S, I)
<1>1. Closed(d, s, K)
  BY ReachedClosed
<1> HIDE DEF K
<1>2. Cites(q) \cap K # {}
  BY DEF K
<1>3. Names(q) \subseteq T \cup K
  BY <1>1, <1>2 DEF Closed
<1> QED BY <1>3 DEF K

LEMMA PurgedKeeps ==
  ASSUME NEW d, NEW e, NEW s \in Scopes, NEW K, NEW R, NEW block,
         Purged(d, e, s, K, R, block), NEW q \in Deliveries,
         Cites(q) \cap K = {}, d.obs[s][q].record \notin R
  PROVE  e.obs[s][q] = d.obs[s][q]
BY DEF Purged

\* An observation that cites nothing of what is dropped stays as it is ...
LEMMA PurgeSpares ==
  ASSUME NEW d \in Database, NEW s \in Scopes, NEW S \in SUBSET Keys, NEW I,
         NEW block \in BOOLEAN,
         NEW q \in Deliveries, d.obs[s][q].live, Cites(q) \cap Reached(d, s, S, I) = {}
  PROVE  Purge(d, s, S, I, block).obs[s][q] = d.obs[s][q]
<1> DEFINE K == Reached(d, s, S, I)
           R == ErasedBy(d, s, S, I)
           e == Purge(d, s, S, I, block)
<1>1. Purged(d, e, s, K, R, block)
  BY PurgeFields
<1>2. q.key \in Cites(q) /\ Cites(q) \cap K = {}
  BY DeliveryKeys
<1>3. d.obs[s][q].record \notin R
  BY <1>2, ErasedProducer
<1> HIDE DEF K, R, e
<1>4. e.obs[s][q] = d.obs[s][q]
  BY <1>1, <1>2, <1>3, PurgedKeeps
<1> QED BY <1>4 DEF e

\* ... and is of no event whose replay is dropped.
LEMMA SparedKey ==
  ASSUME NEW d \in Database, NEW s \in Scopes, NEW S \in SUBSET Keys, NEW I,
         NEW q \in Deliveries, Cites(q) \cap Reached(d, s, S, I) = {}
  PROVE  q.key \notin S
BY DeliveryKeys, ReachedSeeds

LEMMA SupersededParts ==
  ASSUME NEW d \in Database, Consistent(d), NEW s \in Scopes, NEW p \in Deliveries
  PROVE  /\ Superseded(d, s, p) \in Database /\ Consistent(Superseded(d, s, p))
         /\ Superseded(d, s, p).tomb = d.tomb
         /\ \E R : Cut(d, Superseded(d, s, p), R)
<1>1. Superseded(d, s, p).tomb = d.tomb
  BY SupersededKeeps
<1>2. {p.key} \in SUBSET Keys
  BY StoreAssumption DEF Delivery
<1>3. Dropped(d, Superseded(d, s, p), s, {p.key})
  BY <1>2, DropConsistent DEF Superseded
<1> QED BY <1>1, <1>3 DEF Dropped

LEMMA SupersededSpares ==
  ASSUME NEW d \in Database, Consistent(d), NEW s \in Scopes, NEW p \in Deliveries,
         NEW q \in Deliveries, d.obs[s][q].live,
         Cites(q) \cap Reached(d, s, {p.key}, Previous(d, s, p)) = {}
  PROVE  Superseded(d, s, p).obs[s][q].live
<1> DEFINE cut == Purge(d, s, {p.key}, Previous(d, s, p), FALSE)
<1>1. {p.key} \in SUBSET Keys
  BY StoreAssumption DEF Delivery
<1>2. cut \in Database /\ cut.obs[s][q] = d.obs[s][q] /\ q.key \notin {p.key}
  <2> DEFINE own == {p.key}
  <2>1. cut \in Database /\ cut = Purge(d, s, own, Previous(d, s, p), FALSE)
    BY <1>1, PurgeType
  <2>2. own \in SUBSET Keys /\ Cites(q) \cap Reached(d, s, own, Previous(d, s, p)) = {}
    BY <1>1
  <2> HIDE DEF own
  <2>3. \A b \in BOOLEAN :
          Purge(d, s, own, Previous(d, s, p), b).obs[s][q] = d.obs[s][q]
    BY <2>2, PurgeSpares
  <2>4. cut.obs[s][q] = d.obs[s][q]
    BY <2>1, <2>3
  <2>5. q.key \notin own
    BY <2>2, SparedKey
  <2> QED BY <2>1, <2>4, <2>5 DEF own
<1>3. Superseded(d, s, p) = ClearSource(cut, s, {p.key})
  BY DEF Superseded
<1> HIDE DEF cut
<1>4. ClearSource(cut, s, {p.key}).obs[s][q] = cut.obs[s][q]
  BY <1>2 DEF ClearSource, Database
<1> QED BY <1>2, <1>3, <1>4

\* What a source_invalidated drops and blocks.
LEMMA InvalidatedParts ==
  ASSUME NEW d \in Database, Consistent(d), NEW s \in Scopes, NEW p \in Deliveries,
         NEW e, e = Invalidated(d, s, p)
  PROVE  /\ \E R : Cut(d, e, R)
         /\ p.class # "invalidated" => e = d
         /\ p.class = "invalidated" =>
              /\ e.tomb[s] = d.tomb[s] \cup Reached(d, s, p.targets, {})
              /\ \A r \in Live(d) \ Live(e) : r \in ErasedBy(d, s, p.targets, {})
<1>1. p.targets \in SUBSET Keys
  BY StoreAssumption DEF Delivery
<1>2. CASE p.class = "invalidated"
  <2> DEFINE cut == Purge(d, s, p.targets, {}, TRUE)
  <2>1. e = ClearSource(cut, s, p.targets)
    BY <1>2 DEF Invalidated
  <2>2. Dropped(d, e, s, p.targets)
    BY <1>1, <2>1, DropConsistent
  <2>3. cut \in Database /\ cut.tomb[s] = d.tomb[s] \cup Reached(d, s, p.targets, {})
    BY PurgeType, PurgeBlocks
  <2>4. \A r \in Live(d) \ Live(cut) : r \in ErasedBy(d, s, p.targets, {})
    BY PurgeErases
  <2> HIDE DEF cut
  <2>5. e.tomb = cut.tomb /\ e.rec = cut.rec
    BY <2>1, <2>3, ClearSourceObs
  <2> QED BY <1>2, <2>2, <2>3, <2>4, <2>5 DEF Dropped, Live
<1>3. CASE p.class # "invalidated"
  <2>1. e = d /\ Cut(d, d, {})
    BY <1>3 DEF Invalidated, Cut
  <2> QED BY <1>3, <2>1
<1> QED BY <1>2, <1>3

\* An observation appears by arriving, and only then.
LEMMA ObserveArrivals ==
  ASSUME TypeOK, Consistent(db), NEW s \in Scopes, NEW p \in Deliveries, Observe(s, p),
         NEW t \in Scopes, NEW q \in Deliveries, ~(t = s /\ q = p),
         db.obs[t][q].state = "absent"
  PROVE  db'.obs[t][q].state = "absent"
<1>1. PICK before \in Database, fresh \in Database, stored \in Database :
        /\ Dropped(db, before, s, {p.key})
        /\ fresh = SetObs(before, s, p, Queued(p, clock)) /\ Consistent(fresh)
        /\ \E R : Cut(fresh, stored, R)
        /\ db' = Bump(stored)
  BY ObserveParts
<1>2. before.obs[t][q].state = "absent"
  BY <1>1 DEF Dropped, Cut, Consistent, JobsAgree
<1>3. fresh.obs[t][q] = before.obs[t][q]
  BY <1>1, SetObsRows
<1>4. stored.obs[t][q].state = "absent"
  BY <1>1, <1>2, <1>3 DEF Cut, Consistent, JobsAgree
<1>5. stored \in Database /\ db' = Bump(stored)
  BY <1>1
<1>6. db'.obs = stored.obs
  BY <1>5, BumpElse
<1> QED BY <1>4, <1>6

\* TaintSpreads, of an observe of p and one observation q of its scope.
LEMMA ObserveTaints ==
  ASSUME TypeOK, Consistent(db), PayloadsClean(db), NEW s \in Scopes,
         NEW p \in Deliveries, Observe(s, p), NEW q \in Deliveries,
         q.class # "invalidated",
         \/ q = p
         \/ /\ db.obs[s][q].live
            /\ Cites(q) \cap Reached(db, s, {p.key}, Previous(db, s, p)) = {},
         Cites(q) \cap db'.tomb[s] # {}
  PROVE  Names(q) \subseteq db'.tomb[s]
<1> DEFINE superseded == Superseded(db, s, p)
<1>1. PICK before \in Database, fresh \in Database, stored \in Database :
        /\ before = Invalidated(superseded, s, p)
        /\ fresh = SetObs(before, s, p, Queued(p, clock))
        /\ stored = IF Refused(db, s, p) THEN Purge(fresh, s, {p.key}, {}, TRUE) ELSE fresh
        /\ db' = Bump(stored)
  BY ObserveParts
<1>2. superseded \in Database /\ Consistent(superseded) /\ superseded.tomb = db.tomb
  BY SupersededParts DEF TypeOK
<1>3. q # p => superseded.obs[s][q].live /\ Cites(q) \cap db.tomb[s] = {}
  BY SupersededSpares DEF TypeOK, PayloadsClean
<1> HIDE DEF superseded
<1>4. fresh.tomb = before.tomb
  BY <1>1, SetObsElse
<1>5. db'.tomb = stored.tomb
  <2>1. stored \in Database /\ db' = Bump(stored)
    BY <1>1
  <2> QED BY <2>1, BumpElse
<1>6. CASE p.class = "invalidated"
  <2>1. q # p /\ ~Refused(db, s, p)
    BY <1>6 DEF Refused
  <2>2. before.tomb[s] = db.tomb[s] \cup Reached(superseded, s, p.targets, {})
    BY <1>1, <1>2, <1>6, InvalidatedParts
  <2>3. db'.tomb = before.tomb
    BY <1>1, <1>4, <1>5, <2>1
  <2> QED BY <1>2, <1>3, <2>1, <2>2, <2>3, ReachedTaints
<1>7. CASE p.class # "invalidated"
  <2>1. before = superseded /\ fresh.tomb = db.tomb
    BY <1>1, <1>2, <1>4, <1>7, InvalidatedParts
  <2>2. \A o \in Deliveries : fresh.obs[s][o] = IF o = p THEN Queued(p, clock)
                                                         ELSE superseded.obs[s][o]
    BY <1>1, <2>1, SetObsRows
  <2>3. fresh.obs[s][q].live
    BY <1>3, <2>2 DEF Queued
  <2>4. Refused(db, s, p)
    <3> SUFFICES ASSUME ~Refused(db, s, p) PROVE FALSE
      OBVIOUS
    <3>1. db'.tomb = db.tomb
      BY <1>1, <1>5, <2>1
    <3> QED BY <1>3, <1>7, <3>1 DEF Refused, Blocked
  <2>5. stored = Purge(fresh, s, {p.key}, {}, TRUE)
    BY <1>1, <2>4
  <2>6. db'.tomb[s] = db.tomb[s] \cup Reached(fresh, s, {p.key}, {})
    <3>1. fresh \in Database
      BY <1>1
    <3>2. \A S, I : Purge(fresh, s, S, I, TRUE).tomb[s] = fresh.tomb[s] \cup Reached(fresh, s, S, I)
      BY <3>1, PurgeBlocks
    <3>3. stored.tomb[s] = fresh.tomb[s] \cup Reached(fresh, s, {p.key}, {})
      BY <2>5, <3>2
    <3> QED BY <1>5, <2>1, <3>3
  <2>7. CASE q # p
    BY <1>1, <1>3, <2>3, <2>7, <2>6, ReachedTaints
  <2>8. CASE q = p
    <3> DEFINE K == Reached(fresh, s, {p.key}, {})
    <3>1. p.key \in Keys
      BY StoreAssumption DEF Delivery
    <3>2. p.key \in K /\ p.key \in Cites(p) /\ Closed(fresh, s, K)
      BY <1>1, <3>1, ReachedSeeds, ReachedClosed, DeliveryKeys
    <3>3. db'.tomb[s] = db.tomb[s] \cup K
      BY <2>6
    <3> HIDE DEF K
    <3> QED BY <2>3, <2>8, <3>2, <3>3 DEF Closed
  <2> QED BY <2>7, <2>8
<1> QED BY <1>6, <1>7


\* e blocks nothing that d does not, and no observation appears in it.
Quiet(d, e) ==
  /\ e.tomb = d.tomb
  /\ \A s \in Scopes, q \in Deliveries :
       d.obs[s][q].state = "absent" => e.obs[s][q].state = "absent"

LEMMA WritesQuiet ==
  ASSUME TypeOK, NEW s \in Scopes, NEW r \in RecIds, NEW row, NEW src, NEW gs,
         Writes(s, r, row, src, gs)
  PROVE  Quiet(db, db')
<1> DEFINE put == Put(db, r, row, src)
           marked == Reconcile(put, {s}, gs, clock)
<1>1. put \in Database /\ put.tomb = db.tomb
  <2>1. db \in Database /\ row \in Row /\ src \in SUBSET Keys
    BY DEF TypeOK, Writes
  <2>2. put \in Database /\ Stored(db, put, r, row, src)
    BY <2>1, PutType, PutFields
  <2> HIDE DEF put
  <2> QED BY <2>2 DEF Stored
<1>2. marked \in Database /\ marked.tomb = put.tomb
  BY <1>1, ReconcileType, ReconcileFrame
<1>3. db' = Bump(marked) \/ db' = Bump(put)
  BY DEF Writes
<1> HIDE DEF put, marked
<1>4. db'.tomb = db.tomb
  BY <1>1, <1>2, <1>3, BumpElse
<1> QED BY <1>4, WritesObs DEF Quiet

LEMMA SweepQuiet ==
  ASSUME NEW d \in Database, Consistent(d), NEW now
  PROVE  Quiet(d, Sweep(d, now))
<1> DEFINE e == Sweep(d, now)
<1>1. e.tomb = d.tomb /\ \E R : Cut(d, e, R)
  BY SweepExpires, SweepCut DEF Expires
<1> HIDE DEF e
<1>2. Quiet(d, e)
  BY <1>1 DEF Quiet, Cut, Consistent, JobsAgree
<1> QED BY <1>2 DEF e

LEMMA MaintainQuiet ==
  ASSUME TypeInv, Consistent(db), PayloadsClean(db), Maintain
  PROVE  Quiet(db, db')
<1> DEFINE swept == Sweep(db, clock)
<1>1. /\ db \in Database /\ clock \in Nat /\ swept \in Database
      /\ Consistent(swept) /\ Quiet(db, swept)
  BY SweepType, SweepQuiet, SweepConsistent, BoundAssumption DEF TypeInv, TypeOK
<1>2. CASE MaintainSweep
  <2>1. swept \in Database /\ db' = Bump(swept)
    BY <1>1, <1>2 DEF MaintainSweep
  <2> HIDE DEF swept
  <2> QED BY <1>1, <2>1, BumpElse DEF Quiet
<1>3. ASSUME NEW s \in Scopes, NEW q \in Deliveries, MaintainJob(s, q)
      PROVE  Quiet(db, db')
  <2>1. /\ db.obs[s][q].state # "absent"
        /\ swept.obs[s][q].job = "accepted" /\ swept.obs[s][q].attempts < MaxAttempts
    BY <1>3, JobOfQueue DEF MaintainJob, Consistent, JobsAgree, JobAgrees
  <2>2. PICK r \in RecIds : db.rec[r].status = "absent"
                            /\ db' = Bump(Derive(swept, s, q, r, clock))
    BY <1>3 DEF MaintainJob
  <2>3. swept.rec[r].status = "absent"
    BY <1>1, <2>2, SweepCut DEF Cut
  <2> HIDE DEF swept
  <2>4. PICK put \in Database, row \in Row, done \in ObsRow :
          /\ Stored(swept, put, r, row, Cites(q))
          /\ Derive(swept, s, q, r, clock) = SetObs(put, s, q, done)
          /\ Derive(swept, s, q, r, clock) \in Database
    BY <1>1, <2>1, <2>3, DeriveParts
  <2>5. put.tomb = swept.tomb /\ put.obs = swept.obs
    BY <2>4 DEF Stored
  <2> DEFINE derived == Derive(swept, s, q, r, clock)
  <2>6. derived \in Database /\ db' = Bump(derived) /\ derived = SetObs(put, s, q, done)
    BY <2>2, <2>4
  <2> HIDE DEF derived
  <2>7. derived.tomb = swept.tomb
    BY <2>4, <2>5, <2>6, SetObsElse
  <2>8. \A t \in Scopes, p \in Deliveries :
          (t = s /\ p = q) \/ derived.obs[t][p] = swept.obs[t][p]
    BY <2>4, <2>5, <2>6, SetObsRows
  <2>9. db'.tomb = derived.tomb /\ db'.obs = derived.obs
    BY <2>6, BumpElse
  <2> QED BY <1>1, <2>1, <2>7, <2>8, <2>9 DEF Quiet
<1>4. ASSUME NEW s \in Scopes, NEW q \in Deliveries, MaintainFail(s, q)
      PROVE  Quiet(db, db')
  <2>1. db.obs[s][q].state # "absent"
    BY <1>4, JobOfQueue DEF MaintainFail, Consistent, JobsAgree, JobAgrees
  <2>2. PICK row : db' = SetObs(db, s, q, row)
    BY <1>4 DEF MaintainFail
  <2>3. db'.tomb = db.tomb
    BY <1>1, <2>2, SetObsElse
  <2>4. \A t \in Scopes, p \in Deliveries :
          (t = s /\ p = q) \/ db'.obs[t][p] = db.obs[t][p]
    BY <1>1, <2>2, SetObsRows
  <2> QED BY <2>1, <2>3, <2>4 DEF Quiet
<1> QED BY <1>2, <1>3, <1>4, NoCancel DEF Maintain

\* q should have its names blocked by this step.
Exposed(s, q) ==
  /\ q.class # "invalidated"
  /\ db.obs[s][q].live \/ db.obs[s][q].state = "absent"
  /\ db'.obs[s][q].state # "absent"
  /\ Cites(q) \cap db'.tomb[s] # {}
  /\ ~Obsolete(s, q)

LEMMA QuietExposes ==
  ASSUME PayloadsClean(db), Quiet(db, db'), NEW s \in Scopes, NEW q \in Deliveries
  PROVE  ~Exposed(s, q)
BY DEF PayloadsClean, Quiet, Exposed

LEMMA ForgetParts ==
  ASSUME TypeOK, Consistent(db), NEW s \in Scopes, NEW ids, NEW revs,
         Forget(s, ids, revs)
  PROVE  \E cut \in Database :
           /\ cut = Purge(db, s, {}, ids, TRUE)
           /\ \E R : Cut(db, cut, R)
           /\ db'.tomb = cut.tomb /\ db'.obs = cut.obs /\ Live(db') = Live(cut)
<1> DEFINE cut == Purge(db, s, {}, ids, TRUE)
           marked == Reconcile(cut, {s}, Groups, clock)
<1>1. cut \in Database /\ \E R : Cut(db, cut, R)
  BY PurgeType, PurgeCut DEF TypeOK, Consistent
<1>2. /\ marked \in Database /\ marked.tomb = cut.tomb /\ marked.obs = cut.obs
      /\ Live(marked) = Live(cut)
  <2> HIDE DEF cut
  <2>1. /\ marked \in Database /\ marked.tomb = cut.tomb /\ marked.obs = cut.obs
        /\ Cut(cut, marked, {})
    BY <1>1, ReconcileType, ReconcileFrame, ReconcileCut
  <2> HIDE DEF marked
  <2> QED BY <2>1 DEF Cut
<1>3. db' = Bump(marked)
  BY DEF Forget
<1> HIDE DEF marked
<1>4. db'.tomb = marked.tomb /\ db'.obs = marked.obs /\ db'.rec = marked.rec
  BY <1>2, <1>3, BumpElse
<1>5. db'.tomb = cut.tomb /\ db'.obs = cut.obs /\ Live(db') = Live(cut)
  BY <1>2, <1>4 DEF Live
<1> QED BY <1>1, <1>5

LEMMA ForgetTaints ==
  ASSUME TypeOK, Consistent(db), PayloadsClean(db), NEW s \in Scopes, NEW ids,
         NEW revs, Forget(s, ids, revs), NEW t \in Scopes, NEW q \in Deliveries,
         Exposed(t, q)
  PROVE  Names(q) \subseteq db'.tomb[t]
<1>1. PICK cut \in Database :
        /\ cut = Purge(db, s, {}, ids, TRUE) /\ \E R : Cut(db, cut, R)
        /\ db'.tomb = cut.tomb /\ db'.obs = cut.obs
  BY ForgetParts
<1>2. db.obs[t][q].live /\ Cites(q) \cap db.tomb[t] = {}
  <2>1. db.obs[t][q].state = "absent" => cut.obs[t][q].state = "absent"
    BY <1>1 DEF Cut, Consistent, JobsAgree
  <2> QED BY <1>1, <2>1 DEF Exposed, PayloadsClean
<1>3. t = s
  BY <1>2, ForgetConfined, BumpElse DEF Confined, Exposed
<1>4. db'.tomb[s] = db.tomb[s] \cup Reached(db, s, {}, ids)
  <2>1. db \in Database
    BY DEF TypeOK
  <2>2. Purge(db, s, {}, ids, TRUE).tomb[s] = db.tomb[s] \cup Reached(db, s, {}, ids)
    BY <2>1, PurgeBlocks
  <2> QED BY <1>1, <2>2
<1>5. db \in Database /\ Cites(q) \cap db'.tomb[t] # {}
  BY DEF TypeOK, Exposed
<1> QED BY <1>2, <1>3, <1>4, <1>5, ReachedTaints

LEMMA ObserveExposes ==
  ASSUME TypeOK, Consistent(db), PayloadsClean(db), NEW s \in Scopes,
         NEW p \in Deliveries, Observe(s, p), NEW t \in Scopes, NEW q \in Deliveries,
         Exposed(t, q)
  PROVE  Names(q) \subseteq db'.tomb[t]
<1>1. \/ t = s /\ q = p
      \/ db.obs[t][q].live /\ Cites(q) \cap db.tomb[t] = {}
  BY ObserveArrivals DEF Exposed, PayloadsClean
<1>2. t = s
  BY <1>1, ObserveConfined, BumpElse DEF Confined, Exposed
<1>3. \/ q = p
      \/ Cites(q) \cap Reached(db, s, {p.key}, Previous(db, s, p)) = {}
  BY <1>2, ObserveAppears DEF Exposed, Obsolete
<1>4. q.class # "invalidated" /\ Cites(q) \cap db'.tomb[s] # {}
  BY <1>2 DEF Exposed
<1> QED BY <1>1, <1>2, <1>3, <1>4, ObserveTaints

\* What is blocked is blocked together with the events and aliases of
\* everything retained, or just arriving, that derives from it.
THEOREM TaintSpreadsHolds == Spec => TaintSpreads
<1>1. TypeInv /\ Consistent(db) /\ Clean(db) /\ [Next]_vars =>
        \A s \in Scopes, q \in Deliveries :
          Exposed(s, q) => Names(q) \subseteq db'.tomb[s]
  <2> SUFFICES ASSUME TypeInv, Consistent(db), Clean(db), [Next]_vars,
                      NEW t \in Scopes, NEW q \in Deliveries, Exposed(t, q)
               PROVE  Names(q) \subseteq db'.tomb[t]
    OBVIOUS
  <2>0. TypeOK /\ PayloadsClean(db)
    BY DEF TypeInv, Clean
  <2>1. \A s \in Scopes, r \in RecIds : \A row, src, gs : ~Writes(s, r, row, src, gs)
    BY <2>0, WritesQuiet, QuietExposes
  <2>2. \A s \in Scopes : \A ids, revs :
          Forget(s, ids, revs) => Names(q) \subseteq db'.tomb[t]
    BY <2>0, ForgetTaints
  <2>3. ~Maintain
    BY <2>0, MaintainQuiet, QuietExposes
  <2>4. \A s \in Scopes, p \in Deliveries :
          Observe(s, p) => Names(q) \subseteq db'.tomb[t]
    BY <2>0, ObserveExposes
  <2>5. ~UNCHANGED db
    BY <2>0, QuietExposes DEF Quiet
  <2> QED BY <2>1, <2>2, <2>3, <2>4, <2>5, StepCases
<1>2. Init => Clean(db)
  BY InitClean DEF Clean
<1>3. TypeInv /\ Consistent(db) /\ Clean(db) /\ [Next]_vars =>
        \A s \in Scopes, q \in Deliveries :
          /\ q.class # "invalidated"
          /\ db.obs[s][q].live \/ db.obs[s][q].state = "absent"
          /\ db'.obs[s][q].state # "absent"
          /\ Cites(q) \cap db'.tomb[s] # {}
          /\ ~Obsolete(s, q)
          => Names(q) \subseteq db'.tomb[s]
  BY <1>1 DEF Exposed
<1> QED BY <1>2, <1>3, InitInvariant, NextInvariant, NextClean, PTL
        DEF Spec, TaintSpreads


\* Nothing live in scope s of d depends on K, the payloads P aside.
NoneLeft(d, s, K, P) ==
  /\ \A o \in Live(d) : d.rec[o].scope = s => d.deps[o] \cap K = {}
  /\ \A o \in Deliveries \ P :
       d.obs[s][o].live /\ o.class # "invalidated" => Cites(o) \cap K = {}


LEMMA PurgeLeaves ==
  ASSUME NEW d \in Database, ProductsAgree(d), NEW s \in Scopes, NEW S, NEW I,
         NEW block \in BOOLEAN
  PROVE  NoneLeft(Purge(d, s, S, I, block), s, Reached(d, s, S, I), {})
<1> DEFINE K == Reached(d, s, S, I)
           R == ErasedBy(d, s, S, I)
           e == Purge(d, s, S, I, block)
<1>1. Cut(d, e, R)
  BY PurgeCut
<1>2. \A o \in Present(d, s) : d.deps[o] \cap K # {} => o \in R
  BY DEF ErasedBy
<1>3. \A o \in Deliveries : \/ e.obs[s][o] = Cleared(d.obs[s][o])
                            \/ /\ e.obs[s][o] = d.obs[s][o]
                               /\ d.obs[s][o].live => Cites(o) \cap K = {}
  BY PurgeObs
<1> HIDE DEF K, R, e
<1>4. ASSUME NEW o \in Live(e), e.rec[o].scope = s
      PROVE  e.deps[o] \cap K = {}
  <2>1. o \in RecIds /\ o \in Live(d) /\ o \notin R
    BY <1>1, <1>4 DEF Cut, Live
  <2>2. e.deps[o] = d.deps[o] /\ d.rec[o].scope = s
    BY <1>1, <1>4, <2>1 DEF Cut
  <2>3. o \in Present(d, s)
    BY <2>1, <2>2 DEF Present, Live, LiveStatus
  <2> QED BY <1>2, <2>1, <2>2, <2>3
<1>5. ASSUME NEW o \in Deliveries, e.obs[s][o].live
      PROVE  Cites(o) \cap K = {}
  <2>1. d.obs[s][o] \in ObsRow
    BY DEF Database
  <2> QED BY <1>3, <1>5, <2>1, ClearedAttempts
<1>6. NoneLeft(e, s, K, {})
  BY <1>4, <1>5 DEF NoneLeft
<1> QED BY <1>6 DEF K, e

LEMMA CutLeaves ==
  ASSUME NEW d, NEW e, NEW R, Cut(d, e, R), NEW s \in Scopes, NEW K, NEW P,
         NoneLeft(d, s, K, P)
  PROVE  NoneLeft(e, s, K, P)
<1>1. ASSUME NEW o \in Live(e), e.rec[o].scope = s
      PROVE  e.deps[o] \cap K = {}
  <2>1. o \in RecIds /\ o \in Live(d) /\ o \notin R
    BY <1>1 DEF Cut, Live
  <2>2. e.deps[o] = d.deps[o] /\ d.rec[o].scope = s
    BY <1>1, <2>1 DEF Cut
  <2> QED BY <2>1, <2>2 DEF NoneLeft
<1>2. \A o \in Deliveries : e.obs[s][o].live => d.obs[s][o].live
  BY DEF Cut
<1> QED BY <1>1, <1>2 DEF NoneLeft

LEMMA SetObsLeaves ==
  ASSUME NEW d \in Database, NEW s \in Scopes, NEW p \in Deliveries, NEW row, NEW e,
         e = SetObs(d, s, p, row), NEW K, NoneLeft(d, s, K, {})
  PROVE  NoneLeft(e, s, K, {p})
<1>1. e.rec = d.rec /\ e.deps = d.deps
  BY SetObsElse
<1>2. \A o \in Deliveries \ {p} : e.obs[s][o] = d.obs[s][o]
  BY SetObsRows
<1> QED BY <1>1, <1>2 DEF NoneLeft, Live

LEMMA LeavesNothing ==
  ASSUME NEW s \in Scopes, NEW K, NoneLeft(db', s, K, {}), NEW N, N \subseteq K
  PROVE  NothingDependsOn(s, N)
BY DEF NoneLeft, NothingDependsOn, Live

LEMMA CleanNothing ==
  ASSUME Clean(db)', NEW s \in Scopes, NEW N, N \subseteq db'.tomb[s]
  PROVE  NothingDependsOn(s, N)
BY DEF Clean, RecordsClean, PayloadsClean, NothingDependsOn, Live

\* Erasing a record visits every name of the retained event that produced it.
LEMMA PurgeNames ==
  ASSUME NEW d \in Database, NEW s \in Scopes, NEW S \in SUBSET Keys, NEW I,
         NEW block \in BOOLEAN, NEW q \in Deliveries, d.obs[s][q].live,
         d.obs[s][q].record \in Live(d),
         d.obs[s][q].record \notin Live(Purge(d, s, S, I, block))
  PROVE  Names(q) \subseteq Reached(d, s, S, I)
BY PurgeErases, ErasedNames

LEMMA ForgetAliases ==
  ASSUME TypeOK, Consistent(db), Clean(db)', NEW s \in Scopes, NEW ids, NEW revs,
         Forget(s, ids, revs), NEW t \in Scopes, NEW q \in Deliveries, NEW r \in Live(db),
         ForgetsProduct(t, q, r)
  PROVE  NothingDependsOn(t, Names(q))
<1>1. PICK cut \in Database :
        /\ cut = Purge(db, s, {}, ids, TRUE)
        /\ db'.tomb = cut.tomb /\ Live(db') = Live(cut)
  BY ForgetParts
<1>2. db \in Database /\ r \in RecIds /\ r # NoRec /\ db.obs[t][q].record = r
  BY StoreAssumption DEF TypeOK, Live, ForgetsProduct
<1>3. t = s
  BY <1>2, ForgetConfined, BumpElse DEF Confined, ForgetsProduct, Present
<1>4. db.obs[s][q].live
  BY <1>2, <1>3 DEF Consistent, ProductsAgree, ProductOf
<1>5. r \notin Live(Purge(db, s, {}, ids, TRUE))
  BY <1>1 DEF ForgetsProduct, Live, LiveStatus
<1>6. Names(q) \subseteq Reached(db, s, {}, ids)
  <2>1. {} \in SUBSET Keys
    OBVIOUS
  <2> QED BY <1>2, <1>3, <1>4, <1>5, <2>1, PurgeNames
<1>7. Purge(db, s, {}, ids, TRUE).tomb[s] = db.tomb[s] \cup Reached(db, s, {}, ids)
  <2>1. db \in Database
    BY <1>2
  <2> QED BY <2>1, PurgeBlocks
<1>8. Names(q) \subseteq db'.tomb[s]
  BY <1>1, <1>6, <1>7
<1> QED BY <1>3, <1>8, CleanNothing


\* What an observe of p drops as obsolete leaves nothing that depends on it.
LEMMA SupersededLeaves ==
  ASSUME NEW d \in Database, Consistent(d), NEW s \in Scopes, NEW p \in Deliveries
  PROVE  NoneLeft(Superseded(d, s, p), s, Reached(d, s, {p.key}, Previous(d, s, p)), {})
<1> DEFINE cut == Purge(d, s, {p.key}, Previous(d, s, p), FALSE)
           K == Reached(d, s, {p.key}, Previous(d, s, p))
           e == Superseded(d, s, p)
<1>1. cut \in Database /\ NoneLeft(cut, s, K, {})
  BY PurgeType, PurgeLeaves DEF Consistent
<1>2. {p.key} \in SUBSET Keys
  BY StoreAssumption DEF Delivery
<1>3. \A o \in Deliveries : o.key \in {p.key} => ~cut.obs[s][o].live
  BY <1>2, PurgeClears
<1>4. e = ClearSource(cut, s, {p.key})
  BY DEF Superseded
<1> HIDE DEF cut, K, e
<1>5. Cut(cut, e, {})
  BY <1>1, <1>3, <1>4, ClearSourceCut
<1>6. NoneLeft(e, s, K, {})
  BY <1>1, <1>5, CutLeaves
<1> QED BY <1>6 DEF K, e

\* ... and drops a record with all the names of the event that produced it.
LEMMA SupersededNames ==
  ASSUME NEW d \in Database, Consistent(d), NEW s \in Scopes, NEW p \in Deliveries,
         NEW q \in Deliveries, d.obs[s][q].live, d.obs[s][q].record \in Live(d),
         d.obs[s][q].record \notin Live(Superseded(d, s, p))
  PROVE  Names(q) \subseteq Reached(d, s, {p.key}, Previous(d, s, p))
<1> DEFINE own == {p.key}
           cut == Purge(d, s, own, Previous(d, s, p), FALSE)
<1>1. own \in SUBSET Keys
  BY StoreAssumption DEF Delivery
<1>2. cut \in Database
  BY PurgeType
<1>3. Superseded(d, s, p) = ClearSource(cut, s, own)
  BY DEF Superseded
<1> HIDE DEF own, cut
<1>4. Live(ClearSource(cut, s, own)) = Live(cut)
  BY <1>2, ClearSourceObs DEF Live
<1>5. \A b \in BOOLEAN : d.obs[s][q].record \notin Live(Purge(d, s, own, Previous(d, s, p), b))
                           => Names(q) \subseteq Reached(d, s, own, Previous(d, s, p))
  BY <1>1, PurgeNames
<1>6. d.obs[s][q].record \notin Live(Purge(d, s, own, Previous(d, s, p), FALSE))
  BY <1>3, <1>4 DEF cut
<1>7. Names(q) \subseteq Reached(d, s, own, Previous(d, s, p))
  BY <1>5, <1>6
<1> QED BY <1>7 DEF own

LEMMA ObserveAliases ==
  ASSUME TypeOK, Consistent(db), Clean(db), Clean(db)', NEW s \in Scopes,
         NEW p \in Deliveries, Observe(s, p), NEW t \in Scopes, NEW q \in Deliveries,
         NEW r \in Live(db), ForgetsProduct(t, q, r)
  PROVE  NothingDependsOn(t, Names(q))
<1> DEFINE superseded == Superseded(db, s, p)
           K == Reached(db, s, {p.key}, Previous(db, s, p))
<1>1. PICK before \in Database, fresh \in Database, stored \in Database :
        /\ before = Invalidated(superseded, s, p)
        /\ fresh = SetObs(before, s, p, Queued(p, clock)) /\ Consistent(fresh)
        /\ stored = IF Refused(db, s, p) THEN Purge(fresh, s, {p.key}, {}, TRUE) ELSE fresh
        /\ \E R : Cut(fresh, stored, R)
        /\ db' = Bump(stored)
  BY ObserveParts
<1>2. /\ superseded \in Database /\ Consistent(superseded) /\ superseded.tomb = db.tomb
      /\ \E R : Cut(db, superseded, R)
  BY SupersededParts DEF TypeOK
<1>3. db \in Database /\ r \in RecIds /\ r # NoRec /\ db.obs[t][q].record = r
  BY StoreAssumption DEF TypeOK, Live, ForgetsProduct
<1>4. t = s
  BY <1>3, ObserveConfined, BumpElse DEF Confined, ForgetsProduct, Present
<1>5. db.obs[s][q].live /\ db.obs[s][q].record = r /\ Cites(q) \subseteq db.deps[r]
      /\ db.rec[r].scope = s
  BY <1>3, <1>4 DEF Consistent, ProductsAgree, ProductOf
<1>6. NoneLeft(superseded, s, K, {})
  BY <1>3, SupersededLeaves
<1>7. r \notin Live(superseded) => Names(q) \subseteq K
  BY <1>3, <1>5, SupersededNames
<1>8. \E R : Cut(superseded, before, R)
  BY <1>1, <1>2, InvalidatedParts
<1> HIDE DEF superseded, K
<1>9. superseded.obs[s][q].record = r
  BY <1>2, <1>5 DEF Cut
<1>10. r \in Live(superseded) => superseded.obs[s][q].live
  BY <1>2, <1>3, <1>9 DEF Consistent, ProductsAgree, ProductOf
<1>11. fresh.rec = before.rec /\ fresh.tomb = before.tomb
  BY <1>1, SetObsElse
<1>12. db'.rec = stored.rec /\ db'.tomb = stored.tomb /\ db'.obs = stored.obs
       /\ db'.deps = stored.deps
  <2>1. stored \in Database /\ db' = Bump(stored)
    BY <1>1
  <2>2. Cut(stored, Bump(stored), {})
    BY <2>1, BumpCut
  <2>3. db'.deps = stored.deps
    BY <2>1 DEF Bump
  <2> QED BY <2>1, <2>3, BumpElse
<1>13. r \notin Live(stored)
  BY <1>12 DEF ForgetsProduct, Live, LiveStatus
<1>14. NoneLeft(fresh, s, K, {p})
  <2>1. NoneLeft(before, s, K, {})
    BY <1>6, <1>8, CutLeaves
  <2> QED BY <1>1, <2>1, SetObsLeaves
<1>15. NoneLeft(stored, s, K, {p})
  <2>1. PICK R : Cut(fresh, stored, R)
    BY <1>1
  <2>2. \A P : NoneLeft(fresh, s, K, P) => NoneLeft(stored, s, K, P)
    BY <2>1, CutLeaves
  <2> QED BY <1>14, <2>2
<1>16. ASSUME r \notin Live(superseded),
              p.class = "invalidated" \/ ~stored.obs[s][p].live
       PROVE  NothingDependsOn(t, Names(q))
  <2>1. NoneLeft(stored, s, K, {})
    BY <1>15, <1>16 DEF NoneLeft
  <2>2. NoneLeft(db', s, K, {})
    BY <1>12, <2>1 DEF NoneLeft, Live
  <2> QED BY <1>4, <1>7, <1>16, <2>2, LeavesNothing
<1>17. CASE p.class = "invalidated"
  <2>1. stored = fresh
    BY <1>1, <1>17 DEF Refused
  <2>2. CASE r \in Live(superseded)
    <3>1. r \notin Live(before)
      BY <1>11, <1>13, <2>1 DEF Live
    <3>2. r \in ErasedBy(superseded, s, p.targets, {})
      BY <1>1, <1>2, <1>17, <2>2, <3>1, InvalidatedParts
    <3>3. before.tomb[s] = superseded.tomb[s] \cup Reached(superseded, s, p.targets, {})
      BY <1>1, <1>2, <1>17, InvalidatedParts
    <3>4. p.targets \in SUBSET Keys
      BY StoreAssumption DEF Delivery
    <3>5. Names(q) \subseteq Reached(superseded, s, p.targets, {})
      BY <1>2, <1>9, <1>10, <2>2, <3>2, <3>4, ErasedNames
    <3>6. Names(q) \subseteq db'.tomb[s]
      BY <1>11, <1>12, <2>1, <3>3, <3>5
    <3> QED BY <1>4, <3>6, CleanNothing
  <2> QED BY <1>16, <1>17, <2>2
<1>18. CASE p.class # "invalidated"
  <2>1. before = superseded
    BY <1>1, <1>2, <1>18, InvalidatedParts
  <2>2. Refused(db, s, p)
    <3> SUFFICES ASSUME ~Refused(db, s, p) PROVE FALSE
      OBVIOUS
    <3>1. db'.tomb = db.tomb
      BY <1>1, <1>2, <1>11, <1>12, <2>1
    <3>2. Names(q) \cap db.tomb[s] # {}
      BY <1>4, <3>1 DEF ForgetsProduct
    <3>3. db.deps[r] \cap db.tomb[s] = {}
      BY <1>3, <1>5 DEF Clean, RecordsClean
    <3> QED BY <1>5, <3>2, <3>3, DeliveryKeys
  <2>3. stored = Purge(fresh, s, {p.key}, {}, TRUE) /\ fresh \in Database
    BY <1>1, <2>2
  <2> DEFINE own == {p.key}
  <2>4. own \in SUBSET Keys /\ p.key \in own /\ stored = Purge(fresh, s, own, {}, TRUE)
    BY <2>3, StoreAssumption DEF Delivery
  <2> HIDE DEF own
  <2>5. CASE r \in Live(superseded)
    <3>1. q # p
      <4>1. db.obs[s][p].state = "absent"
        BY DEF Observe
      <4> QED BY <1>3, <1>5, <4>1 DEF Consistent, JobsAgree, JobAgrees
    <3>2. fresh.obs[s][q] = superseded.obs[s][q]
      BY <1>1, <2>1, <3>1, SetObsRows
    <3>3. r \in Live(fresh)
      BY <1>11, <2>1, <2>5 DEF Live
    <3>4. fresh.obs[s][q].live /\ fresh.obs[s][q].record = r
      BY <1>9, <1>10, <2>5, <3>2
    <3>5. r \notin Live(Purge(fresh, s, own, {}, TRUE))
      BY <1>13, <2>4
    <3>6. Names(q) \subseteq Reached(fresh, s, own, {})
      <4>1. \A b \in BOOLEAN : r \notin Live(Purge(fresh, s, own, {}, b))
                                 => Names(q) \subseteq Reached(fresh, s, own, {})
        BY <2>3, <2>4, <3>3, <3>4, PurgeNames
      <4> QED BY <3>5, <4>1
    <3>7. Purge(fresh, s, own, {}, TRUE).tomb[s] = fresh.tomb[s] \cup Reached(fresh, s, own, {})
      <4>1. \A S, I : Purge(fresh, s, S, I, TRUE).tomb[s]
                       = fresh.tomb[s] \cup Reached(fresh, s, S, I)
        BY PurgeBlocks
      <4> QED BY <4>1
    <3>8. Names(q) \subseteq db'.tomb[s]
      BY <1>12, <2>4, <3>6, <3>7
    <3> QED BY <1>4, <3>8, CleanNothing
  <2>6. CASE r \notin Live(superseded)
    <3>1. \A b \in BOOLEAN : ~Purge(fresh, s, own, {}, b).obs[s][p].live
      BY <2>3, <2>4, PurgeClears
    <3>2. ~Purge(fresh, s, own, {}, TRUE).obs[s][p].live
      BY <3>1
    <3>3. ~stored.obs[s][p].live
      BY <2>4, <3>2
    <3> QED BY <1>16, <2>6, <3>3
  <2> QED BY <2>5, <2>6
<1> QED BY <1>17, <1>18

\* Forgetting or invalidating a live derived record leaves nothing retained
\* that depends on the event it came from or on the alias of that event.
THEOREM ForgetReachesAliasHolds == Spec => ForgetReachesAlias
<1>1. TypeInv /\ Consistent(db) /\ Clean(db) /\ Clean(db)' /\ [Next]_vars =>
        \A s \in Scopes, q \in Deliveries, r \in RecIds :
          ForgetsProduct(s, q, r) /\ db.rec[r].status \in LiveStatus
            => NothingDependsOn(s, Names(q))
  <2> SUFFICES ASSUME TypeInv, Consistent(db), Clean(db), Clean(db)', [Next]_vars,
                      NEW t \in Scopes, NEW q \in Deliveries, NEW r \in RecIds,
                      ForgetsProduct(t, q, r), db.rec[r].status \in LiveStatus
               PROVE  NothingDependsOn(t, Names(q))
    OBVIOUS
  <2>0. TypeOK /\ PayloadsClean(db) /\ r \in Live(db)
    BY DEF TypeInv, Clean, Live
  <2>1. \A s \in Scopes, o \in RecIds : \A row, src, gs : ~Writes(s, o, row, src, gs)
    BY <2>0, WritesErase, BumpElse DEF NoneErased, ForgetsProduct
  <2>2. \A s \in Scopes : \A ids, revs :
          Forget(s, ids, revs) => NothingDependsOn(t, Names(q))
    BY <2>0, ForgetAliases
  <2>3. ~MaintainSweep /\ \A s \in Scopes, p \in Deliveries : ~MaintainJob(s, p)
    BY <2>0, MaintainErases, BumpElse DEF NoneErased, ForgetsProduct
  <2>4. \A s \in Scopes, p \in Deliveries : ~MaintainCancel(s, p) /\ ~MaintainFail(s, p)
    BY <2>0, NoCancel, FailChanges DEF ForgetsProduct
  <2>5. \A s \in Scopes, p \in Deliveries :
          Observe(s, p) => NothingDependsOn(t, Names(q))
    BY <2>0, ObserveAliases
  <2>6. ~UNCHANGED db
    BY DEF ForgetsProduct
  <2> QED BY <2>1, <2>2, <2>3, <2>4, <2>5, <2>6, StepCases DEF Maintain
<1>2. Init => Clean(db)
  BY InitClean DEF Clean
<1> QED BY <1>1, <1>2, InitInvariant, NextInvariant, NextClean, PTL
        DEF Spec, ForgetReachesAlias

=============================================================================
