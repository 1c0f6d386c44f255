--------------------------- MODULE StoreRowProofs ---------------------------
(***************************************************************************)
(* More theorems about the memory store: rows, versions and the index, the *)
(* queue and its products, history, generations and scopes.                *)
(***************************************************************************)
EXTENDS StoreProofs

-----------------------------------------------------------------------------
(* The inductive invariant. NoResidue needs that a record not yet drawn has *)
(* no revision and no observation, or it would come to life with a past;   *)
(* QueueAgrees needs that what has produced a record is never queued again, *)
(* or an expired record would take a pending job along; ProducerRetained   *)
(* needs both, and that a record is in the scope of what produced it.      *)

\* Versions, index entries and facts, record by record.
RowsAgree(d) ==
  /\ d.idx = Live(d)
  /\ \A v \in d.ver : v.id \in Live(d) /\ v.revision \in 1..d.rec[v.id].rev
  /\ \A r \in Live(d) : \A n \in 1..d.rec[r].rev :
       \E v \in d.ver : v.id = r /\ v.revision = n
  /\ \A r \in RecIds : d.rec[r].status = "absent" => d.rec[r].rev = 0
  /\ \A r \in Live(d) : (d.rec[r].kind = "fact") <=> (d.rec[r].fact # NoFact)

\* The state of one observation and its job.
JobAgrees(q, o) ==
  /\ o.job = "accepted" => /\ o.live /\ o.state = "accepted" /\ q.class = "material"
                           /\ o.attempts < MaxAttempts
  /\ o.job = "failed" => o.live /\ o.state = "accepted" /\ o.attempts = MaxAttempts
  /\ o.state = "accepted" => o.job \in {"accepted", "failed"} /\ o.record = NoRec
  /\ o.state = "absent" => o.record = NoRec
  /\ o.live <=> o.state \in {"accepted", "completed"}

JobsAgree(d) == \A s \in Scopes, q \in Deliveries : JobAgrees(q, d.obs[s][q])

\* Observations and the records they produced.
ProductOf(d, s, q) ==
  LET r == d.obs[s][q].record IN
  /\ d.rec[r].status # "absent" /\ d.rec[r].scope = s
  /\ d.obs[s][q].live <=> r \in Live(d)
  /\ r \in Live(d) => Cites(q) \subseteq d.deps[r]
  /\ \A t \in Scopes, p \in Deliveries : d.obs[t][p].record = r => t = s /\ p = q

ProductsAgree(d) ==
  \A s \in Scopes, q \in Deliveries : d.obs[s][q].record # NoRec => ProductOf(d, s, q)

\* A source event has one retained capture.
OneCapture(d) ==
  \A s \in Scopes, q, p \in Deliveries :
    d.obs[s][q].live /\ d.obs[s][p].live /\ p.key = q.key => p = q

Consistent(d) == RowsAgree(d) /\ JobsAgree(d) /\ ProductsAgree(d)

-----------------------------------------------------------------------------
(* Statements that lose rows and payloads: Purge, Expire, Reconcile.       *)

\* e is d without the records of R, which keep a row that is not live, and
\* perhaps without some payloads, but none that produced another live record.
Cut(d, e, R) ==
  /\ \A r \in RecIds :
       /\ e.rec[r].scope = d.rec[r].scope /\ e.rec[r].rev = d.rec[r].rev
       /\ e.rec[r].kind = d.rec[r].kind /\ e.rec[r].expires = d.rec[r].expires
       /\ r \notin R => e.rec[r].fact = d.rec[r].fact
       /\ e.rec[r].status = "absent" <=> d.rec[r].status = "absent"
       /\ d.rec[r].status = "deleted" => e.rec[r].status = "deleted"
       /\ r \notin R => e.deps[r] = d.deps[r]
  /\ Live(e) = Live(d) \ R
  /\ e.ver = {v \in d.ver : v.id \notin R}
  /\ e.idx = d.idx \ R
  /\ \A s \in Scopes, q \in Deliveries :
       LET o == d.obs[s][q]  n == e.obs[s][q] IN
       /\ n.record = o.record
       /\ n.live => o.live /\ o.record \notin R
       /\ o.live /\ ~n.live => o.record \notin Live(d) \ R
       /\ JobAgrees(q, o) => JobAgrees(q, n)
       /\ JobAgrees(q, o) /\ o.state = "absent" => n.state = "absent"

LEMMA CutRowsAgree ==
  ASSUME NEW d, NEW e, NEW R, Cut(d, e, R), RowsAgree(d)
  PROVE  RowsAgree(e)
<1>1. Live(e) = Live(d) \ R /\ e.idx = Live(e)
  BY DEF Cut, RowsAgree
<1>2. \A r \in RecIds : e.rec[r].rev = d.rec[r].rev
  BY DEF Cut
<1>3. Live(d) \subseteq RecIds
  BY DEF Live
<1>4. \A v \in e.ver : v.id \in Live(e) /\ v.revision \in 1..e.rec[v.id].rev
  BY <1>1, <1>2, <1>3 DEF Cut, RowsAgree
<1>5. ASSUME NEW r \in Live(e), NEW n \in 1..e.rec[r].rev
      PROVE  \E v \in e.ver : v.id = r /\ v.revision = n
  <2>1. r \in Live(d) /\ r \notin R /\ n \in 1..d.rec[r].rev
    BY <1>1, <1>2, <1>3
  <2>2. PICK v \in d.ver : v.id = r /\ v.revision = n
    BY <2>1 DEF RowsAgree
  <2> QED BY <2>1, <2>2 DEF Cut
<1>6. \A r \in RecIds : e.rec[r].status = "absent" => e.rec[r].rev = 0
  BY DEF Cut, RowsAgree
<1>7. \A r \in Live(e) : (e.rec[r].kind = "fact") <=> (e.rec[r].fact # NoFact)
  BY <1>1, <1>3 DEF Cut, RowsAgree
<1> QED BY <1>1, <1>4, <1>5, <1>6, <1>7 DEF RowsAgree

LEMMA CutProducts ==
  ASSUME NEW d \in Database, NEW e, NEW R, Cut(d, e, R), ProductsAgree(d)
  PROVE  ProductsAgree(e)
<1> SUFFICES ASSUME NEW s \in Scopes, NEW q \in Deliveries, e.obs[s][q].record # NoRec
             PROVE  ProductOf(e, s, q)
  BY DEF ProductsAgree
<1> DEFINE r == d.obs[s][q].record
<1>1. e.obs[s][q].record = r /\ r \in RecIds /\ ProductOf(d, s, q)
  BY DEF Cut, ProductsAgree, Database, ObsRow
<1>2. /\ e.rec[r].scope = d.rec[r].scope
      /\ e.rec[r].status = "absent" <=> d.rec[r].status = "absent"
      /\ r \notin R => e.deps[r] = d.deps[r]
      /\ r \in Live(e) <=> r \in Live(d) /\ r \notin R
  BY <1>1 DEF Cut
<1>3. \A t \in Scopes, p \in Deliveries : e.obs[t][p].record = d.obs[t][p].record
  BY DEF Cut
<1>4. /\ e.obs[s][q].live => d.obs[s][q].live /\ r \notin R
      /\ d.obs[s][q].live /\ ~e.obs[s][q].live => ~(r \in Live(d) /\ r \notin R)
  BY DEF Cut
<1> HIDE DEF r
<1>5. d.obs[s][q].record = r
  BY DEF r
<1>6. /\ e.rec[r].status # "absent" /\ e.rec[r].scope = s
      /\ r \in Live(e) => Cites(q) \subseteq e.deps[r]
  BY <1>1, <1>2, <1>5 DEF ProductOf
<1>7. d.obs[s][q].live <=> r \in Live(d)
  BY <1>1, <1>5 DEF ProductOf
<1>8. e.obs[s][q].live <=> r \in Live(e)
  BY <1>2, <1>4, <1>7
<1>9. \A t \in Scopes, p \in Deliveries : d.obs[t][p].record = r => t = s /\ p = q
  BY <1>1, <1>5 DEF ProductOf
<1> QED BY <1>1, <1>3, <1>6, <1>8, <1>9 DEF ProductOf

LEMMA CutConsistent ==
  ASSUME NEW d \in Database, NEW e, NEW R, Cut(d, e, R), Consistent(d)
  PROVE  Consistent(e)
<1>1. JobsAgree(e)
  BY DEF Cut, Consistent, JobsAgree
<1> QED BY <1>1, CutRowsAgree, CutProducts DEF Consistent

LEMMA CutTransitive ==
  ASSUME NEW a, NEW b, NEW c, NEW R, NEW Q, Cut(a, b, R), Cut(b, c, Q)
  PROVE  Cut(a, c, R \cup Q)
<1>1. ASSUME NEW r \in RecIds
      PROVE  /\ c.rec[r].scope = a.rec[r].scope /\ c.rec[r].rev = a.rec[r].rev
             /\ c.rec[r].kind = a.rec[r].kind /\ c.rec[r].expires = a.rec[r].expires
             /\ r \notin R \cup Q => c.rec[r].fact = a.rec[r].fact
             /\ c.rec[r].status = "absent" <=> a.rec[r].status = "absent"
             /\ a.rec[r].status = "deleted" => c.rec[r].status = "deleted"
             /\ r \notin R \cup Q => c.deps[r] = a.deps[r]
  <2>1. /\ b.rec[r].scope = a.rec[r].scope /\ b.rec[r].rev = a.rec[r].rev
        /\ b.rec[r].kind = a.rec[r].kind /\ b.rec[r].expires = a.rec[r].expires
        /\ r \notin R => b.rec[r].fact = a.rec[r].fact
        /\ b.rec[r].status = "absent" <=> a.rec[r].status = "absent"
        /\ a.rec[r].status = "deleted" => b.rec[r].status = "deleted"
        /\ r \notin R => b.deps[r] = a.deps[r]
    BY DEF Cut
  <2>2. /\ c.rec[r].scope = b.rec[r].scope /\ c.rec[r].rev = b.rec[r].rev
        /\ c.rec[r].kind = b.rec[r].kind /\ c.rec[r].expires = b.rec[r].expires
        /\ r \notin Q => c.rec[r].fact = b.rec[r].fact
        /\ c.rec[r].status = "absent" <=> b.rec[r].status = "absent"
        /\ b.rec[r].status = "deleted" => c.rec[r].status = "deleted"
        /\ r \notin Q => c.deps[r] = b.deps[r]
    BY DEF Cut
  <2> QED BY <2>1, <2>2
<1>2. /\ Live(c) = Live(a) \ (R \cup Q)
      /\ c.ver = {v \in a.ver : v.id \notin R \cup Q}
      /\ c.idx = a.idx \ (R \cup Q)
  <2>1. Live(b) = Live(a) \ R /\ b.ver = {v \in a.ver : v.id \notin R} /\ b.idx = a.idx \ R
    BY DEF Cut
  <2>2. Live(c) = Live(b) \ Q /\ c.ver = {v \in b.ver : v.id \notin Q} /\ c.idx = b.idx \ Q
    BY DEF Cut
  <2> QED BY <2>1, <2>2
<1>3. ASSUME NEW s \in Scopes, NEW q \in Deliveries
      PROVE  LET o == a.obs[s][q]  n == c.obs[s][q] IN
             /\ n.record = o.record
             /\ n.live => o.live /\ o.record \notin R \cup Q
             /\ o.live /\ ~n.live => o.record \notin Live(a) \ (R \cup Q)
             /\ JobAgrees(q, o) => JobAgrees(q, n)
             /\ JobAgrees(q, o) /\ o.state = "absent" => n.state = "absent"
  <2>1. LET o == a.obs[s][q]  n == b.obs[s][q] IN
        /\ n.record = o.record
        /\ n.live => o.live /\ o.record \notin R
        /\ o.live /\ ~n.live => o.record \notin Live(a) \ R
        /\ JobAgrees(q, o) => JobAgrees(q, n)
        /\ JobAgrees(q, o) /\ o.state = "absent" => n.state = "absent"
    BY DEF Cut
  <2>2. LET o == b.obs[s][q]  n == c.obs[s][q] IN
        /\ n.record = o.record
        /\ n.live => o.live /\ o.record \notin Q
        /\ o.live /\ ~n.live => o.record \notin Live(b) \ Q
        /\ JobAgrees(q, o) => JobAgrees(q, n)
        /\ JobAgrees(q, o) /\ o.state = "absent" => n.state = "absent"
    BY DEF Cut
  <2>3. Live(b) = Live(a) \ R
    BY DEF Cut
  <2> QED BY <2>1, <2>2, <2>3
<1> QED BY <1>1, <1>2, <1>3 DEF Cut

LEMMA ReconcileCut ==
  ASSUME NEW d \in Database, NEW ss, NEW gs, NEW now
  PROVE  Cut(d, Reconcile(d, ss, gs, now), {})
<1> DEFINE e == Reconcile(d, ss, gs, now)
<1>1. ASSUME NEW r \in RecIds
      PROVE  /\ e.rec[r].scope = d.rec[r].scope /\ e.rec[r].rev = d.rec[r].rev
             /\ e.rec[r].kind = d.rec[r].kind /\ e.rec[r].expires = d.rec[r].expires
             /\ e.rec[r].fact = d.rec[r].fact
             /\ e.rec[r].status = "absent" <=> d.rec[r].status = "absent"
             /\ e.rec[r].status = "deleted" <=> d.rec[r].status = "deleted"
             /\ e.rec[r].status \in LiveStatus <=> d.rec[r].status \in LiveStatus
  <2>1. d.rec[r] \in Row
    BY DEF Database
  <2>2. \/ e.rec[r] = d.rec[r]
        \/ /\ d.rec[r].status \in LiveStatus
           /\ \E st \in LiveStatus : e.rec[r] = [d.rec[r] EXCEPT !.status = st]
    BY DEF Reconcile, Database, Readable, Live, LiveStatus
  <2> HIDE DEF e
  <2> QED BY <2>1, <2>2 DEF Row, LiveStatus
<1>2. e.ver = d.ver /\ e.idx = d.idx /\ e.deps = d.deps /\ e.obs = d.obs
  BY ReconcileFrame
<1> HIDE DEF e
<1>3. Live(e) = Live(d)
  BY <1>1 DEF Live
<1>4. Cut(d, e, {})
  BY <1>1, <1>2, <1>3 DEF Cut
<1> QED BY <1>4 DEF e

LEMMA BumpCut == ASSUME NEW d \in Database PROVE Cut(d, Bump(d), {})
BY DEF Cut, Bump, Database, Live

LEMMA ExpiredAgrees ==
  ASSUME NEW q, NEW o \in ObsRow, JobAgrees(q, o), o.record # NoRec
  PROVE  JobAgrees(q, [o EXCEPT !.live = FALSE, !.state = "expired"])
BY DEF JobAgrees, ObsRow

LEMMA ClearedAgrees ==
  ASSUME NEW q, NEW o \in ObsRow
  PROVE  JobAgrees(q, Cleared(o))
BY DEF JobAgrees, Cleared, ObsRow

LEMMA ExpireCut ==
  ASSUME NEW d \in Database, NEW X \in SUBSET Live(d)
  PROVE  Cut(d, Expire(d, X), X)
<1> DEFINE e == Expire(d, X)
<1>0. X \subseteq RecIds
  BY DEF Live
<1>1. ASSUME NEW r \in RecIds
      PROVE  /\ e.rec[r].scope = d.rec[r].scope /\ e.rec[r].rev = d.rec[r].rev
             /\ e.rec[r].kind = d.rec[r].kind /\ e.rec[r].expires = d.rec[r].expires
             /\ r \notin X => e.rec[r].fact = d.rec[r].fact
             /\ e.rec[r].status = "absent" <=> d.rec[r].status = "absent"
             /\ d.rec[r].status = "deleted" => e.rec[r].status = "deleted"
             /\ e.rec[r].status \in LiveStatus <=> d.rec[r].status \in LiveStatus /\ r \notin X
  <2>1. d.rec[r] \in Row /\ (r \in X => d.rec[r].status \in LiveStatus)
    BY DEF Database, Live
  <2>2. e.rec[r] = IF r \in X THEN [d.rec[r] EXCEPT !.status = "expired", !.fact = NoFact]
                              ELSE d.rec[r]
    BY DEF Expire
  <2> HIDE DEF e
  <2> QED BY <2>1, <2>2 DEF Row, LiveStatus
<1>2. e.ver = {v \in d.ver : v.id \notin X} /\ e.idx = d.idx \ X /\ e.deps = d.deps
  BY DEF Expire
<1>3. ASSUME NEW s \in Scopes, NEW q \in Deliveries
      PROVE  LET o == d.obs[s][q]  n == e.obs[s][q] IN
             /\ n.record = o.record
             /\ n.live => o.live /\ o.record \notin X
             /\ o.live /\ ~n.live => o.record \notin Live(d) \ X
             /\ JobAgrees(q, o) => JobAgrees(q, n)
             /\ JobAgrees(q, o) /\ o.state = "absent" => n.state = "absent"
  <2> DEFINE o == d.obs[s][q]  n == e.obs[s][q]
  <2>1. o \in ObsRow
    BY DEF Database
  <2>2. n = IF o.record \in X THEN [o EXCEPT !.live = FALSE, !.state = "expired"] ELSE o
    BY DEF Expire
  <2>3. o.record \in X => o.record # NoRec
    BY <1>0, StoreAssumption
  <2> HIDE DEF e, n, o
  <2>4. CASE o.record \in X
    <3>1. n = [o EXCEPT !.live = FALSE, !.state = "expired"]
      BY <2>2, <2>4
    <3>2. n.record = o.record /\ n.live = FALSE
      BY <2>1, <3>1 DEF ObsRow
    <3>3. JobAgrees(q, o) => JobAgrees(q, n) /\ o.state # "absent"
      BY <2>1, <2>3, <2>4, <3>1, ExpiredAgrees DEF JobAgrees
    <3> QED BY <2>4, <3>2, <3>3 DEF n, o
  <2>5. CASE o.record \notin X
    BY <2>2, <2>5 DEF n, o
  <2> QED BY <2>4, <2>5
<1> HIDE DEF e
<1>4. Live(e) = Live(d) \ X
  BY <1>1 DEF Live
<1>5. Cut(d, e, X)
  BY <1>1, <1>2, <1>3, <1>4 DEF Cut
<1> QED BY <1>5 DEF e

\* The records that a purge erases.
ErasedBy(d, s, S, I) ==
  {r \in Present(d, s) : r \in I \/ d.deps[r] \cap Reached(d, s, S, I) # {}}

\* e is what a purge makes of d when it visits the keys K and erases R.
Purged(d, e, s, K, R, block) ==
  /\ e.ver = {v \in d.ver : v.id \notin R} /\ e.idx = d.idx \ R /\ e.gen = d.gen
  /\ \A r \in RecIds :
       /\ e.rec[r] = IF r \in R
                       THEN [d.rec[r] EXCEPT !.status = "deleted", !.fact = NoFact]
                       ELSE d.rec[r]
       /\ e.deps[r] = IF r \in R THEN {} ELSE d.deps[r]
  /\ \A t \in Scopes :
       e.tomb[t] = IF t = s /\ block THEN d.tomb[s] \cup K ELSE d.tomb[t]
  /\ \A t \in Scopes, q \in Deliveries :
       e.obs[t][q] = IF /\ t = s
                        /\ \/ d.obs[s][q].live /\ Cites(q) \cap K # {}
                           \/ d.obs[s][q].record \in R
                       THEN Cleared(d.obs[s][q]) ELSE d.obs[t][q]

LEMMA PurgeFields ==
  ASSUME NEW d \in Database, NEW s \in Scopes, NEW S, NEW I, NEW block \in BOOLEAN
  PROVE  Purged(d, Purge(d, s, S, I, block), s, Reached(d, s, S, I), ErasedBy(d, s, S, I), block)
<1> DEFINE K == Reached(d, s, S, I)
           R == ErasedBy(d, s, S, I)
           e == Purge(d, s, S, I, block)
           lost(q) == \/ d.obs[s][q].live /\ Cites(q) \cap K # {}
                      \/ d.obs[s][q].record \in R
<1>1. e = [rec |-> [r \in RecIds |->
                     IF r \in R THEN [d.rec[r] EXCEPT !.status = "deleted", !.fact = NoFact]
                                ELSE d.rec[r]],
           ver |-> {v \in d.ver : v.id \notin R},
           idx |-> d.idx \ R,
           deps |-> [r \in RecIds |-> IF r \in R THEN {} ELSE d.deps[r]],
           tomb |-> [d.tomb EXCEPT ![s] = IF block THEN @ \cup K ELSE @],
           obs |-> [d.obs EXCEPT ![s] = [q \in Deliveries |->
                     IF lost(q) THEN Cleared(d.obs[s][q]) ELSE d.obs[s][q]]],
           gen |-> d.gen]
  BY DEF Purge, ErasedBy
<1>2. DOMAIN d.tomb = Scopes /\ DOMAIN d.obs = Scopes
  BY DEF Database
<1> HIDE DEF K, R, e
<1>3. /\ e.ver = {v \in d.ver : v.id \notin R} /\ e.idx = d.idx \ R /\ e.gen = d.gen
      /\ \A r \in RecIds :
           /\ e.rec[r] = IF r \in R
                           THEN [d.rec[r] EXCEPT !.status = "deleted", !.fact = NoFact]
                           ELSE d.rec[r]
           /\ e.deps[r] = IF r \in R THEN {} ELSE d.deps[r]
  BY <1>1
<1>4. ASSUME NEW t \in Scopes
      PROVE  e.tomb[t] = IF t = s /\ block THEN d.tomb[s] \cup K ELSE d.tomb[t]
  BY <1>1, <1>2
<1>5. ASSUME NEW t \in Scopes, NEW q \in Deliveries
      PROVE  e.obs[t][q] = IF t = s /\ lost(q) THEN Cleared(d.obs[s][q]) ELSE d.obs[t][q]
  BY <1>1, <1>2
<1>6. Purged(d, e, s, K, R, block)
  BY <1>3, <1>4, <1>5 DEF Purged
<1> QED BY <1>6 DEF e, K, R

LEMMA PurgeCut ==
  ASSUME NEW d \in Database, ProductsAgree(d), NEW s \in Scopes, NEW S, NEW I,
         NEW block \in BOOLEAN
  PROVE  Cut(d, Purge(d, s, S, I, block), ErasedBy(d, s, S, I))
<1> DEFINE K == Reached(d, s, S, I)
           R == ErasedBy(d, s, S, I)
           e == Purge(d, s, S, I, block)
<1>0. K = Reached(d, s, S, I) /\ R = ErasedBy(d, s, S, I) /\ e = Purge(d, s, S, I, block)
  OBVIOUS
<1>a. Purged(d, e, s, K, R, block)
  BY PurgeFields
<1> HIDE DEF K, R, e
<1>1. /\ \A r \in RecIds :
           /\ e.rec[r] = IF r \in R
                           THEN [d.rec[r] EXCEPT !.status = "deleted", !.fact = NoFact]
                           ELSE d.rec[r]
           /\ e.deps[r] = IF r \in R THEN {} ELSE d.deps[r]
      /\ e.ver = {v \in d.ver : v.id \notin R} /\ e.idx = d.idx \ R
      /\ \A t \in Scopes, q \in Deliveries :
           e.obs[t][q] = IF /\ t = s
                            /\ \/ d.obs[s][q].live /\ Cites(q) \cap K # {}
                               \/ d.obs[s][q].record \in R
                           THEN Cleared(d.obs[s][q]) ELSE d.obs[t][q]
  BY <1>a DEF Purged
<1>2. /\ R \subseteq RecIds
      /\ \A r \in RecIds :
           r \in R <=> /\ d.rec[r].status # "absent" /\ d.rec[r].scope = s
                       /\ r \in I \/ d.deps[r] \cap K # {}
  BY <1>0 DEF ErasedBy, Present
<1>3. \A t \in Scopes, q \in Deliveries : d.obs[t][q] \in ObsRow
  BY DEF Database
<1>4. ASSUME NEW r \in RecIds
      PROVE  /\ e.rec[r].scope = d.rec[r].scope /\ e.rec[r].rev = d.rec[r].rev
             /\ e.rec[r].kind = d.rec[r].kind /\ e.rec[r].expires = d.rec[r].expires
             /\ r \notin R => e.rec[r].fact = d.rec[r].fact
             /\ e.rec[r].status = "absent" <=> d.rec[r].status = "absent"
             /\ d.rec[r].status = "deleted" => e.rec[r].status = "deleted"
             /\ e.rec[r].status \in LiveStatus <=> d.rec[r].status \in LiveStatus /\ r \notin R
  <2>1. d.rec[r] \in Row /\ (r \in R => d.rec[r].status # "absent")
    BY <1>2 DEF Database
  <2>2. e.rec[r] = IF r \in R THEN [d.rec[r] EXCEPT !.status = "deleted", !.fact = NoFact]
                              ELSE d.rec[r]
    BY <1>1
  <2> QED BY <2>1, <2>2 DEF Row, LiveStatus
<1>5. Live(e) = Live(d) \ R
  BY <1>4 DEF Live
<1>6. ASSUME NEW t \in Scopes, NEW q \in Deliveries
      PROVE  LET o == d.obs[t][q]  n == e.obs[t][q] IN
             /\ n.record = o.record
             /\ n.live => o.live /\ o.record \notin R
             /\ o.live /\ ~n.live => o.record \notin Live(d) \ R
             /\ JobAgrees(q, o) => JobAgrees(q, n)
             /\ JobAgrees(q, o) /\ o.state = "absent" => n.state = "absent"
  <2> DEFINE o == d.obs[t][q]  n == e.obs[t][q]
  <2>1. o \in ObsRow
    BY <1>3
  <2>2. o.record # NoRec => o.record \in RecIds /\ ProductOf(d, t, q)
    BY <2>1 DEF ProductsAgree, ObsRow
  <2>3. o.record \in R => o.record # NoRec
    BY <1>2, StoreAssumption
  <2>4. o.record \in R => t = s
    BY <1>2, <2>2, <2>3 DEF ProductOf
  <2>5. t = s /\ o.live /\ Cites(q) \cap K # {} => o.record \notin Live(d) \ R
    <3> SUFFICES ASSUME t = s, o.live, Cites(q) \cap K # {}, o.record \in Live(d)
                 PROVE  o.record \in R
      OBVIOUS
    <3>1. o.record # NoRec
      BY StoreAssumption DEF Live
    <3>2. Cites(q) \subseteq d.deps[o.record]
      BY <2>2, <3>1 DEF ProductOf
    <3>3. d.rec[o.record].status # "absent" /\ d.rec[o.record].scope = s
      BY <2>2, <3>1 DEF ProductOf
    <3> QED BY <1>2, <2>2, <3>1, <3>2, <3>3
  <2>6. n = IF /\ t = s
               /\ (o.live /\ Cites(q) \cap K # {}) \/ o.record \in R
              THEN Cleared(o) ELSE o
    <3>1. CASE t = s
      BY <1>1, <3>1
    <3>2. CASE t # s
      BY <1>1, <3>2
    <3> QED BY <3>1, <3>2
  <2>7. /\ Cleared(o).record = o.record /\ Cleared(o).live = FALSE
        /\ JobAgrees(q, Cleared(o))
    BY <2>1, ClearedAttempts, ClearedAgrees
  <2> HIDE DEF o, n
  <2>8. CASE n = Cleared(o)
    <3>1. o.live => o.record \notin Live(d) \ R
      BY <2>4, <2>5, <2>6, <2>7, <2>8
    <3>2. JobAgrees(q, o) /\ o.state = "absent" => n = o
      BY <2>3, <2>6 DEF JobAgrees
    <3> QED BY <2>7, <2>8, <3>1, <3>2 DEF o, n
  <2>9. CASE n = o /\ o.record \notin R
    BY <2>9 DEF o, n
  <2> QED BY <2>4, <2>6, <2>8, <2>9
<1>7. Cut(d, e, R)
  BY <1>1, <1>4, <1>5, <1>6 DEF Cut
<1> QED BY <1>0, <1>7

-----------------------------------------------------------------------------
(* Every statement keeps the tables consistent.                            *)

LEMMA ReconcileConsistent ==
  ASSUME NEW d \in Database, Consistent(d), NEW ss, NEW gs, NEW now
  PROVE  Consistent(Reconcile(d, ss, gs, now))
BY ReconcileCut, CutConsistent

LEMMA BumpConsistent ==
  ASSUME NEW d \in Database, Consistent(d)
  PROVE  Consistent(Bump(d))
BY BumpCut, CutConsistent

LEMMA SweepConsistent ==
  ASSUME NEW d \in Database, Consistent(d), NEW now
  PROVE  Consistent(Sweep(d, now))
<1> DEFINE e == Expire(d, Lapsed(d, now))
<1>1. e \in Database /\ Consistent(e)
  BY ExpireType, ExpireCut, CutConsistent DEF Lapsed
<1>2. Sweep(d, now) = Reconcile(e, {d.rec[r].scope : r \in Lapsed(d, now)}, Groups, now)
  BY DEF Sweep
<1> HIDE DEF e
<1> QED BY <1>1, <1>2, ReconcileConsistent

LEMMA PurgeConsistent ==
  ASSUME NEW d \in Database, Consistent(d), NEW s \in Scopes, NEW S, NEW I,
         NEW block \in BOOLEAN
  PROVE  Consistent(Purge(d, s, S, I, block))
BY PurgeCut, CutConsistent DEF Consistent

\* No payload of a purged event is left.
LEMMA PurgeClears ==
  ASSUME NEW d \in Database, NEW s \in Scopes, NEW S \in SUBSET Keys, NEW I,
         NEW block \in BOOLEAN, NEW q \in Deliveries, q.key \in S
  PROVE  ~Purge(d, s, S, I, block).obs[s][q].live
<1>1. q.key \in Reached(d, s, S, I) /\ q.key \in Cites(q)
  BY ReachedSeeds, DeliveryKeys
<1>2. d.obs[s][q] \in ObsRow
  BY DEF Database
<1> DEFINE e == Purge(d, s, S, I, block)
           K == Reached(d, s, S, I)
           R == ErasedBy(d, s, S, I)
<1>3. Purged(d, e, s, K, R, block)
  BY PurgeFields
<1> HIDE DEF e, K, R
<1>4. \/ e.obs[s][q] = Cleared(d.obs[s][q])
      \/ e.obs[s][q] = d.obs[s][q] /\ ~(d.obs[s][q].live /\ Cites(q) \cap K # {})
  BY <1>3 DEF Purged
<1>5. q.key \in Cites(q) \cap K
  BY <1>1 DEF K
<1>6. ~e.obs[s][q].live
  BY <1>2, <1>4, <1>5, ClearedAttempts
<1> QED BY <1>6 DEF e

LEMMA ClearSourceCut ==
  ASSUME NEW d \in Database, NEW s \in Scopes, NEW keys,
         \A q \in Deliveries : q.key \in keys => ~d.obs[s][q].live
  PROVE  Cut(d, ClearSource(d, s, keys), {})
<1> DEFINE e == ClearSource(d, s, keys)
<1>1. e.rec = d.rec /\ e.ver = d.ver /\ e.idx = d.idx /\ e.deps = d.deps
  BY DEF ClearSource, Database
<1>2. ASSUME NEW t \in Scopes, NEW p \in Deliveries
      PROVE  \/ e.obs[t][p] = d.obs[t][p]
             \/ /\ ~d.obs[t][p].live /\ d.obs[t][p].state # "absent"
                /\ e.obs[t][p] = Cleared(d.obs[t][p])
  BY DEF ClearSource, Database
<1> HIDE DEF e
<1>3. ASSUME NEW t \in Scopes, NEW p \in Deliveries
      PROVE  LET o == d.obs[t][p]  n == e.obs[t][p] IN
             /\ n.record = o.record
             /\ n.live => o.live
             /\ ~(o.live /\ ~n.live)
             /\ JobAgrees(p, o) => JobAgrees(p, n)
             /\ JobAgrees(p, o) /\ o.state = "absent" => n.state = "absent"
  <2> DEFINE o == d.obs[t][p]  n == e.obs[t][p]
  <2>1. o \in ObsRow
    BY DEF Database
  <2>2. \/ n = o
        \/ ~o.live /\ o.state # "absent" /\ n = Cleared(o)
    BY <1>2
  <2> HIDE DEF o, n
  <2>3. CASE n = o
    BY <2>3 DEF o, n
  <2>4. CASE ~o.live /\ o.state # "absent" /\ n = Cleared(o)
    <3>1. n.record = o.record /\ n.live = FALSE /\ JobAgrees(p, n)
      BY <2>1, <2>4, ClearedAttempts, ClearedAgrees
    <3> QED BY <2>4, <3>1 DEF o, n
  <2> QED BY <2>2, <2>3, <2>4
<1>4. Live(e) = Live(d)
  BY <1>1 DEF Live
<1>5. Cut(d, e, {})
  BY <1>1, <1>3, <1>4 DEF Cut
<1> QED BY <1>5 DEF e

\* e is d without the payloads of the events S, and perhaps of others.
Dropped(d, e, s, S) ==
  /\ e \in Database /\ Consistent(e)
  /\ \E R : Cut(d, e, R)
  /\ \A p \in Deliveries : e.obs[s][p].live => p.key \notin S

\* What observe() drops of an earlier capture, or of a target.
LEMMA DropConsistent ==
  ASSUME NEW d \in Database, Consistent(d), NEW s \in Scopes, NEW S \in SUBSET Keys,
         NEW I, NEW block \in BOOLEAN
  PROVE  Dropped(d, ClearSource(Purge(d, s, S, I, block), s, S), s, S)
<1> DEFINE p == Purge(d, s, S, I, block)
           e == ClearSource(p, s, S)
<1>1. p \in Database /\ Consistent(p) /\ \E R : Cut(d, p, R)
  BY PurgeType, PurgeConsistent, PurgeCut DEF Consistent
<1>2. \A q \in Deliveries : q.key \in S => ~p.obs[s][q].live
  BY PurgeClears
<1> HIDE DEF p
<1>3. Cut(p, e, {})
  BY <1>1, <1>2, ClearSourceCut
<1>4. e \in Database /\ Consistent(e)
  BY <1>1, <1>3, ClearSourceType, CutConsistent
<1> HIDE DEF e
<1>5. \E R : Cut(d, e, R)
  BY <1>1, <1>3, CutTransitive
<1>6. \A q \in Deliveries : e.obs[s][q].live => p.obs[s][q].live
  BY <1>3 DEF Cut
<1>7. Dropped(d, e, s, S)
  BY <1>2, <1>4, <1>5, <1>6 DEF Dropped
<1> QED BY <1>7 DEF e, p

\* e is d with the row stored as record r.
Stored(d, e, r, row, src) ==
  /\ e.obs = d.obs /\ e.tomb = d.tomb /\ e.gen = d.gen
  /\ \A o \in RecIds : /\ e.rec[o] = IF o = r THEN row ELSE d.rec[o]
                       /\ e.deps[o] = IF o = r THEN d.deps[r] \cup src ELSE d.deps[o]
  /\ e.ver = {v \in d.ver : v.id # r \/ v.revision # row.rev}
               \cup {[id |-> r, revision |-> row.rev, cites |-> src]}
  /\ row.status \in LiveStatus => e.idx = d.idx \cup {r}

LEMMA PutFields ==
  ASSUME NEW d \in Database, NEW r \in RecIds, NEW row, NEW src
  PROVE  Stored(d, Put(d, r, row, src), r, row, src)
BY DEF Put, Database, Stored

\* A row that starts a record or that continues a live one.
Continues(d, r, row) ==
  /\ row.status \in LiveStatus
  /\ row.rev = d.rec[r].rev + 1
  /\ (row.kind = "fact") <=> (row.fact # NoFact)
  /\ \/ d.rec[r].status = "absent"
     \/ r \in Live(d) /\ row.scope = d.rec[r].scope

LEMMA PutRows ==
  ASSUME NEW d \in Database, RowsAgree(d), NEW r \in RecIds, NEW row \in Row,
         NEW src, Continues(d, r, row)
  PROVE  RowsAgree(Put(d, r, row, src))
<1> DEFINE e == Put(d, r, row, src)
           new == [id |-> r, revision |-> row.rev, cites |-> src]
<1>0. Stored(d, e, r, row, src)
  BY PutFields
<1> HIDE DEF e
<1>1. /\ \A o \in RecIds : e.rec[o] = IF o = r THEN row ELSE d.rec[o]
      /\ e.ver = {v \in d.ver : v.id # r \/ v.revision # row.rev} \cup {new}
      /\ e.idx = d.idx \cup {r}
  BY <1>0 DEF Continues, Stored
<1>2. new.id = r /\ new.revision = row.rev
  OBVIOUS
<1> HIDE DEF new
<1>3. Live(e) = Live(d) \cup {r}
  BY <1>1 DEF Live, Continues
<1>4. row.rev = d.rec[r].rev + 1 /\ d.rec[r].rev \in Nat
  BY DEF Continues, Database, Row
<1>5. \A v \in d.ver : v.id \in RecIds /\ v.id \in Live(d) /\ v.revision \in 1..d.rec[v.id].rev
  BY DEF RowsAgree, Live
<1>6. \A v \in e.ver : v.id \in Live(e) /\ v.revision \in 1..e.rec[v.id].rev
  <2> SUFFICES ASSUME NEW v \in e.ver
               PROVE  v.id \in Live(e) /\ v.revision \in 1..e.rec[v.id].rev
    OBVIOUS
  <2>1. CASE v = new
    BY <1>1, <1>2, <1>3, <1>4, <2>1
  <2>2. CASE v \in d.ver /\ v.id = r
    BY <1>1, <1>3, <1>4, <1>5, <2>2
  <2>3. CASE v \in d.ver /\ v.id # r
    BY <1>1, <1>3, <1>5, <2>3
  <2> QED BY <1>1, <2>1, <2>2, <2>3
<1>7. ASSUME NEW o \in Live(e), NEW n \in 1..e.rec[o].rev
      PROVE  \E v \in e.ver : v.id = o /\ v.revision = n
  <2>0. o \in RecIds
    BY DEF Live
  <2>1. CASE o = r /\ n = row.rev
    BY <1>1, <1>2, <2>1
  <2>2. CASE o = r /\ n # row.rev
    <3>1. n \in 1..d.rec[r].rev
      BY <1>1, <1>4, <2>2
    <3>2. r \in Live(d)
      <4>1. d.rec[r].status = "absent" => d.rec[r].rev = 0
        BY DEF RowsAgree
      <4> QED BY <3>1, <4>1 DEF Continues
    <3>3. PICK v \in d.ver : v.id = r /\ v.revision = n
      BY <3>1, <3>2 DEF RowsAgree
    <3> QED BY <1>1, <2>2, <3>3
  <2>3. CASE o # r
    <3>1. o \in Live(d) /\ n \in 1..d.rec[o].rev
      BY <1>1, <1>3, <2>0, <2>3
    <3>2. PICK v \in d.ver : v.id = o /\ v.revision = n
      BY <3>1 DEF RowsAgree
    <3> QED BY <1>1, <2>3, <3>2
  <2> QED BY <2>1, <2>2, <2>3
<1>8. \A o \in RecIds : e.rec[o].status = "absent" => e.rec[o].rev = 0
  BY <1>1 DEF RowsAgree, Continues, LiveStatus
<1>9. e.idx = Live(e)
  BY <1>1, <1>3 DEF RowsAgree
<1>10. \A o \in Live(e) : (e.rec[o].kind = "fact") <=> (e.rec[o].fact # NoFact)
  BY <1>1, <1>3 DEF RowsAgree, Continues, Live
<1>11. RowsAgree(e)
  BY <1>6, <1>7, <1>8, <1>9, <1>10 DEF RowsAgree
<1> QED BY <1>11 DEF e

LEMMA PutProducts ==
  ASSUME NEW d \in Database, ProductsAgree(d), NEW r \in RecIds, NEW row \in Row,
         NEW src, Continues(d, r, row)
  PROVE  ProductsAgree(Put(d, r, row, src))
<1> DEFINE e == Put(d, r, row, src)
<1>0. Stored(d, e, r, row, src)
  BY PutFields
<1> HIDE DEF e
<1>1. /\ e.obs = d.obs
      /\ \A o \in RecIds : /\ e.rec[o] = IF o = r THEN row ELSE d.rec[o]
                           /\ e.deps[o] = IF o = r THEN d.deps[r] \cup src ELSE d.deps[o]
  BY <1>0 DEF Stored
<1>2. ASSUME NEW s \in Scopes, NEW q \in Deliveries, e.obs[s][q].record # NoRec
      PROVE  ProductOf(e, s, q)
  <2> DEFINE o == d.obs[s][q].record
  <2>1. e.obs[s][q].record = o /\ o \in RecIds /\ ProductOf(d, s, q)
    BY <1>1, <1>2 DEF ProductsAgree, Database, ObsRow
  <2>2. /\ d.rec[o].status # "absent" /\ d.rec[o].scope = s
        /\ d.obs[s][q].live <=> o \in Live(d)
        /\ o \in Live(d) => Cites(q) \subseteq d.deps[o]
        /\ \A t \in Scopes, p \in Deliveries : d.obs[t][p].record = o => t = s /\ p = q
    BY <2>1 DEF ProductOf
  <2>4. d.obs[s][q].record = o
    OBVIOUS
  <2> HIDE DEF o
  <2>3. /\ e.rec[o].status # "absent" /\ e.rec[o].scope = s
        /\ o \in Live(e) <=> o \in Live(d)
        /\ d.deps[o] \subseteq e.deps[o]
    BY <1>1, <2>1, <2>2 DEF Continues, Live, LiveStatus
  <2> QED BY <1>1, <2>1, <2>2, <2>3, <2>4 DEF ProductOf
<1>3. ProductsAgree(e)
  BY <1>2 DEF ProductsAgree
<1> QED BY <1>3 DEF e

LEMMA PutConsistent ==
  ASSUME NEW d \in Database, Consistent(d), NEW r \in RecIds, NEW row \in Row,
         NEW src, Continues(d, r, row)
  PROVE  Consistent(Put(d, r, row, src))
<1>1. Put(d, r, row, src).obs = d.obs
  BY DEF Put
<1> QED BY <1>1, PutRows, PutProducts DEF Consistent, JobsAgree

\* A new state of one observation, which may name the record r it produced.
LEMMA SetObsConsistent ==
  ASSUME NEW d \in Database, Consistent(d), NEW s \in Scopes, NEW q \in Deliveries,
         NEW row, JobAgrees(q, row),
         \/ row.record = NoRec
         \/ /\ row.record \in Live(d) /\ row.live /\ d.rec[row.record].scope = s
            /\ Cites(q) \subseteq d.deps[row.record]
            /\ \A t \in Scopes, p \in Deliveries : d.obs[t][p].record # row.record
  PROVE  Consistent(SetObs(d, s, q, row))
<1> DEFINE e == SetObs(d, s, q, row)
<1>1. /\ e.rec = d.rec /\ e.ver = d.ver /\ e.deps = d.deps /\ e.idx = d.idx
      /\ \A t \in Scopes, p \in Deliveries :
           e.obs[t][p] = IF t = s /\ p = q THEN row ELSE d.obs[t][p]
  BY SetObsRows DEF SetObs, Database
<1> HIDE DEF e
<1>2. Live(e) = Live(d)
  BY <1>1 DEF Live
<1>3. RowsAgree(e)
  BY <1>1, <1>2 DEF RowsAgree, Consistent
<1>4. JobsAgree(e)
  BY <1>1 DEF JobsAgree, Consistent
<1>6. ASSUME NEW t \in Scopes, NEW p \in Deliveries, e.obs[t][p].record # NoRec
      PROVE  ProductOf(e, t, p)
  <2>1. CASE t = s /\ p = q
    <3>1. e.obs[t][p] = row
      BY <1>1, <2>1
    <3>2. \A u \in Scopes, o \in Deliveries :
            e.obs[u][o].record = row.record => u = s /\ o = q
      BY <1>1, <1>6, <3>1
    <3>3. row.record \in Live(d) => d.rec[row.record].status # "absent"
      BY DEF Live, LiveStatus
    <3> QED BY <1>1, <1>2, <1>6, <2>1, <3>1, <3>2, <3>3 DEF ProductOf
  <2>2. CASE ~(t = s /\ p = q)
    <3>1. e.obs[t][p] = d.obs[t][p] /\ ProductOf(d, t, p)
      BY <1>1, <1>6, <2>2 DEF Consistent, ProductsAgree
    <3>2. row.record # d.obs[t][p].record
      BY <1>6, <3>1
    <3>3. \A u \in Scopes, o \in Deliveries :
            e.obs[u][o].record = d.obs[t][p].record => u = t /\ o = p
      BY <1>1, <3>1, <3>2 DEF ProductOf
    <3> QED BY <1>1, <1>2, <3>1, <3>3 DEF ProductOf
  <2> QED BY <2>1, <2>2
<1>7. Consistent(e)
  BY <1>3, <1>4, <1>6 DEF Consistent, ProductsAgree
<1> QED BY <1>7 DEF e

-----------------------------------------------------------------------------
(* Every transaction keeps the tables consistent.                          *)

\* What save and correct have in common: one revision of the record r is
\* stored, and of a fact the groups gs it leaves and joins are settled.
Writes(s, r, row, src, gs) ==
  /\ src \in SUBSET Keys /\ src \cap db.tomb[s] = {}
  /\ row \in Row /\ row.scope = s
  /\ row.kind = "fact" => row.fact.group \in gs
  /\ Continues(db, r, row)
  /\ r \in Live(db) => /\ r \in Readable(db, s, clock)
                       /\ row.kind = db.rec[r].kind /\ row.expires = db.rec[r].expires
                       /\ row.kind = "fact" => db.rec[r].fact.group \in gs
  /\ db' = Bump(IF row.kind = "fact"
                  THEN Reconcile(Put(db, r, row, src), {s}, gs, clock)
                  ELSE Put(db, r, row, src))
  /\ clock' = clock

LEMMA SaveWrites ==
  ASSUME TypeOK, RowsAgree(db), NEW s \in Scopes, NEW kind \in SaveKinds,
         NEW f \in Facts \cup {NoFact}, NEW src \in SourceSets,
         NEW exp \in SaveExpiries(kind, clock), Save(s, kind, f, src, exp)
  PROVE  \E r \in RecIds : \E row, gs : Writes(s, r, row, src, gs)
<1>1. PICK r \in RecIds :
        /\ db.rec[r].status = "absent"
        /\ LET saved == Put(db, r, SavedRow(s, kind, f, exp), src)
           IN db' = Bump(IF kind = "fact" THEN Reconcile(saved, {s}, {f.group}, clock)
                                          ELSE saved)
  BY DEF Save
<1> DEFINE row == SavedRow(s, kind, f, exp)
           gs == {f.group}
<1>2. /\ row.scope = s /\ row.status = "active" /\ row.kind = kind /\ row.rev = 1
      /\ row.fact = f
  BY DEF SavedRow
<1>3. row \in Row
  BY SaveExpiryType, SavedRowType, BoundAssumption
<1>4. /\ src \in SUBSET Keys /\ src \cap db.tomb[s] = {}
      /\ (kind = "fact") <=> (f # NoFact)
      /\ clock' = clock
  BY BoundAssumption DEF Save, Blocked
<1>5. db' = Bump(IF kind = "fact" THEN Reconcile(Put(db, r, row, src), {s}, gs, clock)
                                  ELSE Put(db, r, row, src))
  BY <1>1
<1>6. f.group \in gs
  OBVIOUS
<1> HIDE DEF row, gs
<1>7. Continues(db, r, row)
  BY <1>1, <1>2, <1>4 DEF Continues, RowsAgree, LiveStatus
<1>8. r \notin Live(db)
  BY <1>1 DEF Live, LiveStatus
<1>9. Writes(s, r, row, src, gs)
  BY <1>2, <1>3, <1>4, <1>5, <1>6, <1>7, <1>8 DEF Writes
<1> QED BY <1>9

LEMMA CorrectWrites ==
  ASSUME TypeOK, NEW s \in Scopes, NEW r \in RecIds, NEW n,
         NEW f \in Facts \cup {NoFact}, NEW src \in SourceSets,
         Correct(s, r, n, f, src)
  PROVE  \E row, gs : Writes(s, r, row, src, gs)
<1> DEFINE row == Corrected(db.rec[r], f)
           gs == Regrouped(db.rec[r], f)
<1>1. /\ db.rec[r] \in Row /\ r \in Readable(db, s, clock)
      /\ r \in Live(db) /\ db.rec[r].scope = s
      /\ (db.rec[r].kind = "fact") <=> (f # NoFact)
      /\ src \in SUBSET Keys /\ src \cap db.tomb[s] = {}
      /\ clock' = clock
  BY BoundAssumption DEF Correct, Readable, TypeOK, Database, Blocked
<1>2. /\ row.scope = s /\ row.status = "active" /\ row.kind = db.rec[r].kind
      /\ row.rev = db.rec[r].rev + 1 /\ row.fact = f /\ row.expires = db.rec[r].expires
  BY <1>1 DEF Corrected, Row
<1>3. row \in Row
  <2>1. db.rec[r].rev + 1 \in Nat /\ "active" \in Statuses
    BY <1>1 DEF Row, Statuses, LiveStatus
  <2> QED BY <1>1, <2>1 DEF Corrected, Row
<1>4. f.group \in gs /\ db.rec[r].fact.group \in gs
  BY DEF Regrouped
<1>5. db' = Bump(IF f # NoFact THEN Reconcile(Put(db, r, row, src), {s}, gs, clock)
                               ELSE Put(db, r, row, src))
  BY DEF Correct
<1> HIDE DEF row, gs
<1>6. Continues(db, r, row)
  BY <1>1, <1>2 DEF Continues, LiveStatus
<1>7. Writes(s, r, row, src, gs)
  BY <1>1, <1>2, <1>3, <1>4, <1>5, <1>6 DEF Writes
<1> QED BY <1>7

LEMMA WritesConsistent ==
  ASSUME TypeOK, Consistent(db), NEW s \in Scopes, NEW r \in RecIds, NEW row,
         NEW src, NEW gs, Writes(s, r, row, src, gs)
  PROVE  Consistent(db')
<1> DEFINE put == Put(db, r, row, src)
<1>1. /\ row \in Row /\ src \in SUBSET Keys /\ Continues(db, r, row) /\ db \in Database
      /\ db' = Bump(IF row.kind = "fact" THEN Reconcile(put, {s}, gs, clock) ELSE put)
  BY DEF Writes, TypeOK
<1>2. put \in Database /\ Consistent(put)
  BY <1>1, PutType, PutConsistent
<1> HIDE DEF put
<1> QED BY <1>1, <1>2, ReconcileType, ReconcileConsistent, BumpConsistent

LEMMA ForgetConsistent ==
  ASSUME TypeOK, Consistent(db), NEW s \in Scopes, NEW ids, NEW revs,
         Forget(s, ids, revs)
  PROVE  Consistent(db')
<1> DEFINE purged == Purge(db, s, {}, ids, TRUE)
<1>1. purged \in Database /\ Consistent(purged)
  BY PurgeType, PurgeConsistent DEF TypeOK
<1>2. db' = Bump(Reconcile(purged, {s}, Groups, clock))
  BY DEF Forget
<1> HIDE DEF purged
<1> QED BY <1>1, <1>2, ReconcileType, ReconcileConsistent, BumpConsistent

\* What observe() has before it inserts q: nothing of q's event is retained.
LEMMA ObserveDrops ==
  ASSUME NEW d \in Database, Consistent(d), NEW s \in Scopes, NEW q \in Deliveries
  PROVE  Dropped(d, Invalidated(Superseded(d, s, q), s, q), s, {q.key})
<1> DEFINE superseded == Superseded(d, s, q)
           I == Previous(d, s, q)
<1>1. q.key \in Keys /\ q.targets \in SUBSET Keys
  BY StoreAssumption DEF Delivery
<1>2. superseded = ClearSource(Purge(d, s, {q.key}, I, FALSE), s, {q.key})
  BY DEF Superseded
<1> HIDE DEF I
<1>3. Dropped(d, superseded, s, {q.key})
  BY <1>1, <1>2, DropConsistent
<1> HIDE DEF superseded
<1> DEFINE e == Invalidated(superseded, s, q)
<1>4. CASE q.class = "invalidated"
  <2>1. e = ClearSource(Purge(superseded, s, q.targets, {}, TRUE), s, q.targets)
    BY <1>4 DEF Invalidated
  <2> HIDE DEF e
  <2>2. superseded \in Database /\ Consistent(superseded)
    BY <1>3 DEF Dropped
  <2>3. Dropped(superseded, e, s, q.targets)
    BY <1>1, <2>1, <2>2, DropConsistent
  <2>4. Dropped(d, e, s, {q.key})
    <3>1. \E R : Cut(d, e, R)
      BY <1>3, <2>3, CutTransitive DEF Dropped
    <3>2. \A p \in Deliveries : e.obs[s][p].live => superseded.obs[s][p].live
      BY <2>3 DEF Dropped, Cut
    <3> QED BY <1>3, <2>3, <3>1, <3>2 DEF Dropped
  <2> QED BY <2>4 DEF e, superseded
<1>5. CASE q.class # "invalidated"
  BY <1>3, <1>5 DEF Invalidated, superseded
<1> QED BY <1>4, <1>5

LEMMA ObserveConsistent ==
  ASSUME TypeOK, Consistent(db), NEW s \in Scopes, NEW q \in Deliveries, Observe(s, q)
  PROVE  Consistent(db')
<1> DEFINE before == Invalidated(Superseded(db, s, q), s, q)
           row == Queued(q, clock)
           fresh == SetObs(before, s, q, row)
<1>1. Dropped(db, before, s, {q.key})
  BY ObserveDrops DEF TypeOK
<1>2. db' = Bump(IF Refused(db, s, q) THEN Purge(fresh, s, {q.key}, {}, TRUE) ELSE fresh)
  BY DEF Observe, Insert
<1>3. row \in ObsRow /\ JobAgrees(q, row) /\ row.record = NoRec
  <2>1. row \in ObsRow
    BY QueuedType, BoundAssumption DEF TypeOK
  <2>2. JobAgrees(q, row) /\ row.record = NoRec
    BY StoreAssumption DEF JobAgrees, Queued
  <2> QED BY <2>1, <2>2
<1> HIDE DEF before, row
<1>4. fresh \in Database /\ Consistent(fresh)
  BY <1>1, <1>3, SetObsRowType, SetObsConsistent DEF Dropped
<1> HIDE DEF fresh
<1> QED BY <1>2, <1>4, PurgeType, PurgeConsistent, BumpConsistent

\* The sweep that begins every round of maintenance.
LEMMA SweepCut ==
  ASSUME NEW d \in Database, NEW now
  PROVE  Cut(d, Sweep(d, now), Lapsed(d, now))
<1> DEFINE X == Lapsed(d, now)
           e == Expire(d, X)
<1>1. e \in Database /\ Cut(d, e, X)
  BY ExpireType, ExpireCut DEF Lapsed
<1>2. Sweep(d, now) = Reconcile(e, {d.rec[r].scope : r \in X}, Groups, now)
  BY DEF Sweep
<1> HIDE DEF e, X
<1>3. Cut(e, Sweep(d, now), {})
  BY <1>1, <1>2, ReconcileCut
<1>4. X \cup {} = X
  OBVIOUS
<1>5. Cut(d, Sweep(d, now), X)
  BY <1>1, <1>3, <1>4, CutTransitive
<1> QED BY <1>5 DEF X

LEMMA DerivedRow ==
  ASSUME NEW d, RowsAgree(d), NEW r \in RecIds, d.rec[r].status = "absent",
         NEW s, NEW exp
  PROVE  Continues(d, r, SavedRow(s, "episode", NoFact, exp))
<1> DEFINE row == SavedRow(s, "episode", NoFact, exp)
<1>1. row.status = "active" /\ row.rev = 1 /\ row.kind # "fact" /\ row.fact = NoFact
  BY DEF SavedRow
<1> HIDE DEF row
<1>2. Continues(d, r, row)
  BY <1>1 DEF Continues, RowsAgree, LiveStatus
<1> QED BY <1>2 DEF row

\* save() of a derived episode, over the swept tables d.
LEMMA DeriveConsistent ==
  ASSUME NEW d \in Database, Consistent(d), NEW s \in Scopes, NEW q \in Deliveries,
         NEW r \in RecIds, d.rec[r].status = "absent", NEW now \in Nat,
         d.obs[s][q].job = "accepted", d.obs[s][q].attempts < MaxAttempts
  PROVE  /\ Derive(d, s, q, r, now) \in Database
         /\ Consistent(Derive(d, s, q, r, now))
<1> DEFINE row == SavedRow(s, "episode", NoFact, now + EpisodeTTL)
           put == Put(d, r, row, Cites(q))
           done == Done(d.obs[s][q], r)
<1>1. now + EpisodeTTL \in Nat
  BY StoreAssumption
<1>2. row \in Row /\ row.scope = s /\ row.status = "active"
  BY <1>1, SavedRowType DEF SavedRow, Kinds
<1>3. Continues(d, r, row)
  BY DerivedRow DEF Consistent
<1>4. Cites(q) \in SUBSET Keys
  BY DeliveryKeys
<1>5. Stored(d, put, r, row, Cites(q))
  BY PutFields
<1>6. Derive(d, s, q, r, now) = SetObs(put, s, q, done)
  BY DEF Derive
<1> HIDE DEF row
<1>7. put \in Database /\ Consistent(put)
  BY <1>2, <1>3, <1>4, PutType, PutConsistent
<1> HIDE DEF put
<1>8. /\ r \in Live(put) /\ put.rec[r].scope = s /\ Cites(q) \subseteq put.deps[r]
      /\ put.obs = d.obs
  BY <1>2, <1>5 DEF Stored, Live, LiveStatus
<1>9. \A t \in Scopes, p \in Deliveries : put.obs[t][p].record # r
  <2> SUFFICES ASSUME NEW t \in Scopes, NEW p \in Deliveries, d.obs[t][p].record = r
               PROVE  FALSE
    BY <1>8
  <2>1. r # NoRec
    BY StoreAssumption
  <2>2. ProductOf(d, t, p)
    BY <2>1 DEF Consistent, ProductsAgree
  <2> QED BY <2>2 DEF ProductOf
<1>10. d.obs[s][q] \in ObsRow /\ JobAgrees(q, d.obs[s][q])
  BY DEF Database, Consistent, JobsAgree
<1>11. done \in ObsRow
  BY <1>10, DoneType
<1>12. JobAgrees(q, done) /\ done.record = r /\ done.live
  BY <1>10 DEF JobAgrees, Done, ObsRow
<1> HIDE DEF done
<1> QED BY <1>6, <1>7, <1>8, <1>9, <1>11, <1>12, SetObsRowType, SetObsConsistent

LEMMA FailedAgrees ==
  ASSUME NEW q, NEW o \in ObsRow, JobAgrees(q, o), o.job = "accepted", NEW now
  PROVE  JobAgrees(q, Failed(o, now)) /\ Failed(o, now).record = o.record
         /\ Failed(o, now).live = o.live
<1> DEFINE n == o.attempts + 1
           f == Failed(o, now)
<1>1. n \in Nat /\ n <= MaxAttempts /\ MaxAttempts \in Nat
  BY StoreAssumption DEF JobAgrees, ObsRow
<1>2. /\ f.state = o.state /\ f.live = o.live /\ f.record = o.record
      /\ f.attempts = n
      /\ f.job = IF n >= MaxAttempts THEN "failed" ELSE "accepted"
  BY DEF Failed, ObsRow
<1> HIDE DEF n, f
<1>3. JobAgrees(q, f)
  BY <1>1, <1>2 DEF JobAgrees
<1> QED BY <1>2, <1>3 DEF f

LEMMA JobOfQueue ==
  ASSUME TypeInv, Consistent(db), NEW s \in Scopes, NEW q \in Deliveries,
         <<s, q>> \in NextJobs(db, clock)
  PROVE  /\ db.obs[s][q] \in ObsRow /\ db.obs[s][q].job = "accepted"
         /\ Sweep(db, clock).obs[s][q].job = "accepted"
         /\ Sweep(db, clock).obs[s][q].attempts < MaxAttempts
         /\ db.obs[s][q].live /\ q.class = "material"
<1>1. db.obs[s][q] \in ObsRow /\ db.obs[s][q].job = "accepted"
  BY DEF TypeInv, TypeOK, Database, NextJobs, Due
<1>2. /\ Sweep(db, clock).obs[s][q].job = db.obs[s][q].job
      /\ Sweep(db, clock).obs[s][q].attempts = db.obs[s][q].attempts
  BY SweepFrame DEF TypeInv, TypeOK
<1>3. JobAgrees(q, db.obs[s][q])
  BY DEF Consistent, JobsAgree
<1> QED BY <1>1, <1>2, <1>3 DEF JobAgrees

LEMMA MaintainConsistent ==
  ASSUME TypeInv, Consistent(db), Maintain
  PROVE  Consistent(db')
<1> DEFINE swept == Sweep(db, clock)
<1>1. swept \in Database /\ Consistent(swept) /\ Cut(db, swept, Lapsed(db, clock))
  BY SweepType, SweepConsistent, SweepCut DEF TypeInv, TypeOK
<1>2. clock \in Nat /\ db \in Database
  BY BoundAssumption DEF TypeInv, TypeOK
<1> HIDE DEF swept
<1>3. CASE MaintainSweep
  BY <1>1, <1>3, BumpConsistent DEF MaintainSweep, swept
<1>4. ASSUME NEW s \in Scopes, NEW q \in Deliveries, MaintainJob(s, q)
      PROVE  Consistent(db')
  <2>1. PICK r \in RecIds : /\ db.rec[r].status = "absent"
                            /\ db' = Bump(Derive(swept, s, q, r, clock))
    BY <1>4 DEF MaintainJob, swept
  <2>2. swept.rec[r].status = "absent"
    BY <1>1, <2>1 DEF Cut
  <2>3. swept.obs[s][q].job = "accepted" /\ swept.obs[s][q].attempts < MaxAttempts
    BY <1>4, JobOfQueue DEF MaintainJob, swept
  <2> QED BY <1>1, <1>2, <2>1, <2>2, <2>3, DeriveConsistent, BumpConsistent
<1>5. ASSUME NEW s \in Scopes, NEW q \in Deliveries, MaintainCancel(s, q)
      PROVE  Consistent(db')
  BY <1>1, <1>5, PurgeConsistent DEF MaintainCancel, swept
<1>6. ASSUME NEW s \in Scopes, NEW q \in Deliveries, MaintainFail(s, q)
      PROVE  Consistent(db')
  <2> DEFINE row == Failed(db.obs[s][q], clock)
  <2>1. db.obs[s][q] \in ObsRow /\ db.obs[s][q].job = "accepted"
        /\ JobAgrees(q, db.obs[s][q])
    BY <1>6, JobOfQueue DEF MaintainFail, Consistent, JobsAgree
  <2>2. JobAgrees(q, row) /\ row.record = NoRec
    BY <2>1, FailedAgrees DEF JobAgrees
  <2>3. db' = SetObs(db, s, q, row)
    BY <1>6 DEF MaintainFail
  <2> HIDE DEF row
  <2> QED BY <1>2, <2>2, <2>3, SetObsConsistent
<1> QED BY <1>3, <1>4, <1>5, <1>6 DEF Maintain

LEMMA NextConsistent == TypeInv /\ Consistent(db) /\ [Next]_vars => Consistent(db')
<1> SUFFICES ASSUME TypeInv, Consistent(db), [Next]_vars PROVE Consistent(db')
  OBVIOUS
<1>0. TypeOK /\ RowsAgree(db)
  BY DEF TypeInv, Consistent
<1>1. CASE Tick \/ UNCHANGED vars
  BY <1>1 DEF Tick, vars
<1>2. ASSUME NEW s \in Scopes, NEW kind \in SaveKinds, NEW f \in Facts \cup {NoFact},
             NEW src \in SourceSets, NEW exp \in SaveExpiries(kind, clock),
             Save(s, kind, f, src, exp)
      PROVE  Consistent(db')
  <2>1. \E r \in RecIds : \E row, gs : Writes(s, r, row, src, gs)
    BY <1>0, <1>2, SaveWrites
  <2> QED BY <1>0, <2>1, WritesConsistent
<1>3. ASSUME NEW s \in Scopes, NEW r \in RecIds, NEW n \in 1..MaxRevision,
             NEW f \in Facts \cup {NoFact}, NEW src \in SourceSets,
             Correct(s, r, n, f, src)
      PROVE  Consistent(db')
  <2>1. \E row, gs : Writes(s, r, row, src, gs)
    BY <1>0, <1>3, CorrectWrites
  <2> QED BY <1>0, <2>1, WritesConsistent
<1> QED BY <1>0, <1>1, <1>2, <1>3, ForgetConsistent, ObserveConsistent,
           MaintainConsistent DEF Next

LEMMA EmptyConsistent == Init \/ InitUpgraded => Consistent(db)
<1> SUFFICES ASSUME Init \/ InitUpgraded PROVE Consistent(db)
  OBVIOUS
<1>0. \A w \in UpgradeQueue : w[2].class = "material"
  BY BoundAssumption
<1>1. /\ db.rec = [r \in RecIds |-> NoRow] /\ db.ver = {} /\ db.idx = {}
      /\ \A s \in Scopes, q \in Deliveries :
           \/ db.obs[s][q] = NoObs
           \/ db.obs[s][q] = Queued(q, 0) /\ q.class = "material"
  <2>1. CASE Init
    BY <2>1 DEF Init, EmptyDatabase
  <2>2. CASE InitUpgraded
    <3>1. /\ db.rec = [r \in RecIds |-> NoRow] /\ db.ver = {} /\ db.idx = {}
          /\ db.obs = [s \in Scopes |-> [q \in Deliveries |->
                         IF <<s, q>> \in UpgradeQueue THEN Queued(q, 0) ELSE NoObs]]
      BY <2>2 DEF InitUpgraded, EmptyDatabase
    <3> QED BY <1>0, <3>1
  <2> QED BY <2>1, <2>2
<1>2. Live(db) = {} /\ RowsAgree(db)
  BY <1>1 DEF Live, RowsAgree, NoRow, LiveStatus
<1>3. \A q : JobAgrees(q, NoObs) /\ NoObs.record = NoRec
  BY DEF JobAgrees, NoObs
<1>4. \A q : q.class = "material" =>
               JobAgrees(q, Queued(q, 0)) /\ Queued(q, 0).record = NoRec
  BY StoreAssumption DEF JobAgrees, Queued
<1>5. \A s \in Scopes, q \in Deliveries :
        JobAgrees(q, db.obs[s][q]) /\ db.obs[s][q].record = NoRec
  BY <1>1, <1>3, <1>4
<1> QED BY <1>2, <1>5 DEF Consistent, JobsAgree, ProductsAgree

LEMMA NextInvariant ==
  TypeInv /\ Consistent(db) /\ [Next]_vars => TypeInv' /\ Consistent(db)'
BY NextConsistent, NextTypeInv

LEMMA InitInvariant == Init \/ InitUpgraded => TypeInv /\ Consistent(db)
BY InitTypeInv, InitUpgradedInv, EmptyConsistent

LEMMA RowsLeaveNoResidue ==
  ASSUME TypeOK, Consistent(db)
  PROVE  NoResidue
<1>1. /\ db.idx = Live(db)
      /\ \A v \in db.ver : v.id \in Live(db) /\ v.revision \in 1..db.rec[v.id].rev
      /\ \A r \in Live(db) : \A n \in 1..db.rec[r].rev :
           \E v \in db.ver : v.id = r /\ v.revision = n
  BY DEF Consistent, RowsAgree
<1>2. ASSUME NEW r \in Live(db)
      PROVE  {v.revision : v \in {v \in db.ver : v.id = r}} = 1..db.rec[r].rev
  BY <1>1
<1>3. ASSUME NEW s \in Scopes, NEW q \in Deliveries,
             db.obs[s][q].record \in RecIds \ Live(db)
      PROVE  ~db.obs[s][q].live
  <2>1. db.obs[s][q].record # NoRec
    BY <1>3, StoreAssumption
  <2>2. ProductOf(db, s, q)
    BY <2>1 DEF Consistent, ProductsAgree
  <2> QED BY <1>3, <2>2 DEF ProductOf
<1> QED BY <1>1, <1>2, <1>3 DEF NoResidue

\* Whatever is saved, corrected, observed, forgotten and expired, in a new
\* database or in one that an earlier version left: exactly the live records
\* are indexed, exactly their revisions are stored, and of an erased or an
\* expired record no version, index entry or payload is left.
THEOREM NoResidueHolds == Spec \/ SpecUpgraded => []NoResidue
<1>1. TypeInv /\ Consistent(db) => NoResidue
  BY RowsLeaveNoResidue DEF TypeInv
<1>2. Spec => [](TypeInv /\ Consistent(db))
  BY InitInvariant, NextInvariant, PTL DEF Spec
<1>3. SpecUpgraded => [](TypeInv /\ Consistent(db))
  BY InitInvariant, NextInvariant, PTL DEF SpecUpgraded
<1> QED BY <1>1, <1>2, <1>3, PTL

\* A job is pending exactly while its observation is accepted, is retained
\* and has produced nothing; only the last failure gives up; and no cleared
\* or expired observation stays queued. Also from an upgraded database.
THEOREM QueueAgreesHolds == Spec \/ SpecUpgraded => []QueueAgrees
<1>1. TypeInv /\ Consistent(db) => QueueAgrees
  BY DEF Consistent, JobsAgree, JobAgrees, QueueAgrees
<1>2. Spec => [](TypeInv /\ Consistent(db))
  BY InitInvariant, NextInvariant, PTL DEF Spec
<1>3. SpecUpgraded => [](TypeInv /\ Consistent(db))
  BY InitInvariant, NextInvariant, PTL DEF SpecUpgraded
<1> QED BY <1>1, <1>2, <1>3, PTL

-----------------------------------------------------------------------------
(* Captures and their products.                                            *)

\* No payload comes to life between d and e.
NoneRevived(d, e) ==
  \A s \in Scopes, q \in Deliveries : e.obs[s][q].live => d.obs[s][q].live

LEMMA WritesObs ==
  ASSUME TypeOK, NEW s \in Scopes, NEW r \in RecIds, NEW row, NEW src, NEW gs,
         Writes(s, r, row, src, gs)
  PROVE  db'.obs = db.obs
<1> DEFINE put == Put(db, r, row, src)
<1>1. put \in Database /\ put.obs = db.obs
  <2>1. put.obs = db.obs
    BY DEF Put
  <2> QED BY <2>1, PutType DEF Writes, TypeOK
<1>2. db' = Bump(IF row.kind = "fact" THEN Reconcile(put, {s}, gs, clock) ELSE put)
  BY DEF Writes
<1> HIDE DEF put
<1>3. \A d \in Database : Bump(d).obs = d.obs
  BY DEF Bump, Database
<1> QED BY <1>1, <1>2, <1>3, ReconcileType, ReconcileFrame

LEMMA BumpObs == ASSUME NEW d \in Database PROVE Bump(d).obs = d.obs
BY DEF Bump, Database

LEMMA DeriveRevives ==
  ASSUME NEW d \in Database, NEW s \in Scopes, NEW q \in Deliveries, NEW r \in RecIds,
         NEW now, d.obs[s][q].live
  PROVE  NoneRevived(d, Derive(d, s, q, r, now))
<1> DEFINE put == Put(d, r, SavedRow(s, "episode", NoFact, now + EpisodeTTL), Cites(q))
<1>1. put.obs = d.obs
  BY DEF Put
<1>2. Derive(d, s, q, r, now) = SetObs(put, s, q, Done(d.obs[s][q], r))
  BY DEF Derive
<1>3. \A t \in Scopes, p \in Deliveries :
        SetObs(put, s, q, Done(d.obs[s][q], r)).obs[t][p]
          = IF t = s /\ p = q THEN Done(d.obs[s][q], r) ELSE d.obs[t][p]
  <2>1. DOMAIN put.obs = Scopes /\ DOMAIN put.obs[s] = Deliveries
    BY <1>1 DEF Database
  <2> HIDE DEF put
  <2> QED BY <1>1, <2>1 DEF SetObs
<1> QED BY <1>2, <1>3 DEF NoneRevived

LEMMA MaintainRevives ==
  ASSUME TypeInv, Consistent(db), Maintain
  PROVE  NoneRevived(db, db')
<1> DEFINE swept == Sweep(db, clock)
<1>1. swept \in Database /\ Consistent(swept) /\ Cut(db, swept, Lapsed(db, clock))
  BY SweepType, SweepConsistent, SweepCut DEF TypeInv, TypeOK
<1>2. NoneRevived(db, swept)
  BY <1>1 DEF Cut, NoneRevived
<1>3. clock \in Nat /\ db \in Database
  BY BoundAssumption DEF TypeInv, TypeOK
<1> HIDE DEF swept
<1>4. CASE MaintainSweep
  BY <1>1, <1>2, <1>4, BumpObs DEF MaintainSweep, swept, NoneRevived
<1>5. ASSUME NEW s \in Scopes, NEW q \in Deliveries, MaintainJob(s, q)
      PROVE  NoneRevived(db, db')
  <2>1. PICK r \in RecIds : /\ db.rec[r].status = "absent"
                            /\ db' = Bump(Derive(swept, s, q, r, clock))
    BY <1>5 DEF MaintainJob, swept
  <2>2. /\ swept.obs[s][q].job = "accepted" /\ swept.obs[s][q].attempts < MaxAttempts
    BY <1>5, JobOfQueue DEF MaintainJob, swept
  <2>3. swept.obs[s][q].live
    BY <1>1, <2>2 DEF Consistent, JobsAgree, JobAgrees
  <2>4. NoneRevived(swept, Derive(swept, s, q, r, clock))
    BY <1>1, <2>3, DeriveRevives
  <2>5. swept.rec[r].status = "absent"
    BY <1>1, <2>1 DEF Cut
  <2>6. Derive(swept, s, q, r, clock) \in Database
    BY <1>1, <1>3, <2>2, <2>5, DeriveConsistent
  <2> QED BY <1>2, <2>1, <2>4, <2>6, BumpObs DEF NoneRevived
<1>6. ASSUME NEW s \in Scopes, NEW q \in Deliveries, MaintainCancel(s, q)
      PROVE  NoneRevived(db, db')
  <2>1. db' = Purge(swept, s, {q.key}, {}, TRUE)
    BY <1>6 DEF MaintainCancel, swept
  <2>2. Cut(swept, db', ErasedBy(swept, s, {q.key}, {}))
    BY <1>1, <2>1, PurgeCut DEF Consistent
  <2> QED BY <1>2, <2>2 DEF Cut, NoneRevived
<1>7. ASSUME NEW s \in Scopes, NEW q \in Deliveries, MaintainFail(s, q)
      PROVE  NoneRevived(db, db')
  <2>1. db.obs[s][q] \in ObsRow /\ db.obs[s][q].live
    BY <1>7, JobOfQueue DEF MaintainFail
  <2>2. db' = SetObs(db, s, q, Failed(db.obs[s][q], clock))
    BY <1>7 DEF MaintainFail
  <2>3. \A t \in Scopes, p \in Deliveries :
          (t = s /\ p = q) \/ db'.obs[t][p] = db.obs[t][p]
    BY <1>3, <2>2, SetObsRows
  <2> QED BY <2>1, <2>3 DEF NoneRevived
<1> QED BY <1>4, <1>5, <1>6, <1>7 DEF Maintain

LEMMA ForgetRevives ==
  ASSUME TypeOK, Consistent(db), NEW s \in Scopes, NEW ids, NEW revs,
         Forget(s, ids, revs)
  PROVE  NoneRevived(db, db')
<1> DEFINE purged == Purge(db, s, {}, ids, TRUE)
<1>1. purged \in Database /\ Cut(db, purged, ErasedBy(db, s, {}, ids))
  BY PurgeType, PurgeCut DEF TypeOK, Consistent
<1>2. db' = Bump(Reconcile(purged, {s}, Groups, clock))
  BY DEF Forget
<1> HIDE DEF purged
<1>3. db'.obs = purged.obs
  BY <1>1, <1>2, BumpObs, ReconcileType, ReconcileFrame
<1> QED BY <1>1, <1>3 DEF Cut, NoneRevived

LEMMA ObserveOneCapture ==
  ASSUME TypeOK, Consistent(db), OneCapture(db), NEW s \in Scopes, NEW q \in Deliveries,
         Observe(s, q)
  PROVE  OneCapture(db')
<1> DEFINE before == Invalidated(Superseded(db, s, q), s, q)
           row == Queued(q, clock)
           fresh == SetObs(before, s, q, row)
           stored == IF Refused(db, s, q) THEN Purge(fresh, s, {q.key}, {}, TRUE) ELSE fresh
<1>1. Dropped(db, before, s, {q.key})
  BY ObserveDrops DEF TypeOK
<1>2. db' = Bump(stored)
  BY DEF Observe, Insert
<1>3. row \in ObsRow /\ JobAgrees(q, row) /\ row.record = NoRec
  <2>1. row \in ObsRow
    BY QueuedType, BoundAssumption DEF TypeOK
  <2>2. JobAgrees(q, row) /\ row.record = NoRec
    BY StoreAssumption DEF JobAgrees, Queued
  <2> QED BY <2>1, <2>2
<1> HIDE DEF before, row
<1>4. /\ fresh \in Database /\ Consistent(fresh)
      /\ \A t \in Scopes, p \in Deliveries :
           fresh.obs[t][p].live =>
             \/ t = s /\ p = q
             \/ db.obs[t][p].live /\ ~(t = s /\ p.key = q.key)
  <2>1. \A t \in Scopes, p \in Deliveries :
          fresh.obs[t][p] = IF t = s /\ p = q THEN row ELSE before.obs[t][p]
    BY <1>1, SetObsRows DEF Dropped
  <2>2. fresh \in Database /\ Consistent(fresh)
    BY <1>1, <1>3, SetObsRowType, SetObsConsistent DEF Dropped
  <2>3. NoneRevived(db, before)
    BY <1>1 DEF Dropped, Cut, NoneRevived
  <2> HIDE DEF fresh
  <2> QED BY <1>1, <2>1, <2>2, <2>3 DEF Dropped, NoneRevived
<1> HIDE DEF fresh
<1>5. stored \in Database /\ NoneRevived(fresh, stored)
  <2>1. CASE Refused(db, s, q)
    <3>1. stored = Purge(fresh, s, {q.key}, {}, TRUE)
      BY <2>1
    <3>2. Cut(fresh, stored, ErasedBy(fresh, s, {q.key}, {})) /\ stored \in Database
      BY <1>4, <3>1, PurgeType, PurgeCut DEF Consistent
    <3> QED BY <3>2 DEF Cut, NoneRevived
  <2>2. CASE ~Refused(db, s, q)
    BY <1>4, <2>2 DEF NoneRevived
  <2> QED BY <2>1, <2>2
<1> HIDE DEF stored
<1>6. \A t \in Scopes, p \in Deliveries :
        db'.obs[t][p].live =>
          \/ t = s /\ p = q
          \/ db.obs[t][p].live /\ ~(t = s /\ p.key = q.key)
  BY <1>2, <1>4, <1>5, BumpObs DEF NoneRevived
<1> QED BY <1>6 DEF OneCapture

LEMMA NextOneCapture ==
  TypeInv /\ Consistent(db) /\ OneCapture(db) /\ [Next]_vars => OneCapture(db)'
<1> SUFFICES ASSUME TypeInv, Consistent(db), OneCapture(db), [Next]_vars
             PROVE  OneCapture(db')
  BY DEF OneCapture
<1>0. TypeOK /\ RowsAgree(db)
  BY DEF TypeInv, Consistent
<1>1. CASE \E s \in Scopes, q \in Deliveries : Observe(s, q)
  BY <1>0, <1>1, ObserveOneCapture
<1>2. CASE NoneRevived(db, db')
  BY <1>2 DEF NoneRevived, OneCapture
<1>3. CASE Tick \/ UNCHANGED vars
  BY <1>3, <1>2 DEF Tick, vars, NoneRevived
<1>4. ASSUME NEW s \in Scopes, NEW kind \in SaveKinds, NEW f \in Facts \cup {NoFact},
             NEW src \in SourceSets, NEW exp \in SaveExpiries(kind, clock),
             Save(s, kind, f, src, exp)
      PROVE  NoneRevived(db, db')
  <2>1. \E r \in RecIds : \E row, gs : Writes(s, r, row, src, gs)
    BY <1>0, <1>4, SaveWrites
  <2> QED BY <1>0, <2>1, WritesObs DEF NoneRevived
<1>5. ASSUME NEW s \in Scopes, NEW r \in RecIds, NEW n \in 1..MaxRevision,
             NEW f \in Facts \cup {NoFact}, NEW src \in SourceSets,
             Correct(s, r, n, f, src)
      PROVE  NoneRevived(db, db')
  <2>1. \E row, gs : Writes(s, r, row, src, gs)
    BY <1>0, <1>5, CorrectWrites
  <2> QED BY <1>0, <2>1, WritesObs DEF NoneRevived
<1> QED BY <1>0, <1>1, <1>2, <1>3, <1>4, <1>5, ForgetRevives, MaintainRevives DEF Next

LEMMA InvariantProducers ==
  ASSUME TypeOK, Consistent(db), OneCapture(db)
  PROVE  ProducerRetained
<1> SUFFICES ASSUME NEW s \in Scopes, NEW q \in Deliveries, db.obs[s][q].record # NoRec
             PROVE  LET o == db.obs[s][q] IN
                    /\ o.record \in Live(db) => /\ o.live /\ o.state = "completed"
                                                /\ db.rec[o.record].scope = s
                                                /\ Cites(q) \subseteq db.deps[o.record]
                    /\ \A t \in Scopes, p \in Deliveries :
                         db.obs[t][p].record = o.record => t = s /\ p = q
  BY DEF ProducerRetained, OneCapture
<1>1. ProductOf(db, s, q) /\ JobAgrees(q, db.obs[s][q])
  BY DEF Consistent, ProductsAgree, JobsAgree
<1> QED BY <1>1 DEF ProductOf, JobAgrees

\* While a derived record is live, the payload that produced it is retained,
\* completed, in the same scope, and its sources are the record's; no record
\* has two producers, and no event two retained captures, however many
\* revisions of it are delivered and in whatever order.
THEOREM ProducerRetainedHolds == Spec => []ProducerRetained
<1>1. TypeInv /\ Consistent(db) /\ OneCapture(db) => ProducerRetained
  BY InvariantProducers DEF TypeInv
<1>2. Init => OneCapture(db)
  BY DEF Init, EmptyDatabase, NoObs, OneCapture
<1> QED BY <1>1, <1>2, InitInvariant, NextInvariant, NextOneCapture, PTL DEF Spec

\* An upgraded database queues at most one capture of an event.
QueuedOnce == \A w, x \in UpgradeQueue : w[1] = x[1] /\ w[2].key = x[2].key => w = x

\* The same from a database that an earlier version left.
THEOREM UpgradedProducerHolds == QueuedOnce => (SpecUpgraded => []ProducerRetained)
<1> SUFFICES ASSUME QueuedOnce PROVE SpecUpgraded => []ProducerRetained
  OBVIOUS
<1>1. TypeInv /\ Consistent(db) /\ OneCapture(db) => ProducerRetained
  BY InvariantProducers DEF TypeInv
<1>2. InitUpgraded => OneCapture(db)
  <2> SUFFICES ASSUME InitUpgraded, NEW s \in Scopes, NEW q \in Deliveries,
                      NEW p \in Deliveries,
                      db.obs[s][q].live, db.obs[s][p].live, p.key = q.key
               PROVE  p = q
    BY DEF OneCapture
  <2>1. \A o \in Deliveries : db.obs[s][o].live => <<s, o>> \in UpgradeQueue
    <3>1. db.obs = [t \in Scopes |-> [o \in Deliveries |->
                     IF <<t, o>> \in UpgradeQueue THEN Queued(o, 0) ELSE NoObs]]
      BY DEF InitUpgraded, EmptyDatabase
    <3> QED BY <3>1 DEF NoObs
  <2>2. <<s, q>> = <<s, p>>
    BY <2>1 DEF QueuedOnce
  <2> QED BY <2>2
<1> QED BY <1>1, <1>2, InitInvariant, NextInvariant, NextOneCapture, PTL DEF SpecUpgraded

=============================================================================
