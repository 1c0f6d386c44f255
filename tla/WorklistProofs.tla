--------------------------- MODULE WorklistProofs ---------------------------
(***************************************************************************)
(* The worklists compute the closure: whatever order Worklist visits keys  *)
(* and records in, what it commits is a step of Store.                     *)
(***************************************************************************)
EXTENDS Worklist, StoreStepProofs

-----------------------------------------------------------------------------
(* The open transaction.                                                   *)

Thens ==
  [step : {"forget", "cancel", "refuse"}]
    \cup [step : {"clear"}, delivery : Deliveries, refused : BOOLEAN, cleared : Keys,
          targets : SUBSET Keys]

WorkType ==
  [s : Scopes, then : Thens, d : Database, block : BOOLEAN, keys : SUBSET Keys,
   seen : SUBSET Keys, ids : SUBSET RecIds, erased : SUBSET RecIds,
   current : RecIds \cup {NoRec}, own : SUBSET Keys]

\* What one erase, or one invalidation of all its targets, has made of the
\* database a in which it started: the keys V have been visited, the records
\* X erased, and the captures of the events Z cleared.

Gone(a, s, V, X, Z, q) ==
  \/ a.obs[s][q].live /\ Cites(q) \cap V # {}
  \/ a.obs[s][q].record \in X
  \/ q.key \in Z /\ a.obs[s][q].state # "absent"

Trimmed(a, d, s, V, X, Z) ==
  /\ d.ver = {v \in a.ver : v.id \notin X} /\ d.idx = a.idx \ X /\ d.gen = a.gen
  /\ \A r \in RecIds :
       /\ d.rec[r] = IF r \in X
                       THEN [a.rec[r] EXCEPT !.status = "deleted", !.fact = NoFact]
                       ELSE a.rec[r]
       /\ d.deps[r] = IF r \in X THEN {} ELSE a.deps[r]
  /\ \A t \in Scopes : t # s => d.tomb[t] = a.tomb[t]
  /\ \A t \in Scopes, q \in Deliveries :
       d.obs[t][q] = IF t = s /\ Gone(a, s, V, X, Z, q) THEN Cleared(a.obs[s][q])
                                                        ELSE a.obs[t][q]

\* Names of a visited payload are blocked before they are visited.
Blocks(w, a, V) ==
  IF w.block
    THEN /\ a.tomb[w.s] \cup V \subseteq w.d.tomb[w.s]
         /\ w.d.tomb[w.s] \subseteq a.tomb[w.s] \cup V \cup w.keys
    ELSE w.d.tomb[w.s] = a.tomb[w.s]

\* Nothing is visited or erased that is not reachable from S and I ...
Sound(w, a, S, I, V, X, Z) ==
  /\ V \cup w.keys \cup w.own \subseteq Reached(a, w.s, S, I)
  /\ w.seen \subseteq V /\ Z \subseteq V
  /\ X \subseteq ErasedBy(a, w.s, S, I)
  /\ w.ids \cap Present(a, w.s) \subseteq ErasedBy(a, w.s, S, I)
  /\ w.current # NoRec => w.current \in ErasedBy(a, w.s, S, I)

\* The targets of an invalidation that are still to be taken.
Waiting(w) == IF w.then.step = "clear" /\ w.block THEN w.then.targets ELSE {}

\* ... and whatever is reachable has been visited or is still on a worklist:
\* the names of a payload that a visited key cut, the records that depend on
\* a visited key, and the events of the records taken.
Complete(w, a, S, I, V, X) ==
  /\ S \subseteq V \cup w.keys \cup Waiting(w)
  /\ I \cap Present(a, w.s) \subseteq w.ids \cup X
  /\ \A q \in Deliveries :
       a.obs[w.s][q].live /\ Cites(q) \cap V # {} => Names(q) \subseteq V \cup w.keys
  /\ \A r \in Present(a, w.s) :
       a.deps[r] \cap V # {} => r \in w.ids \cup X \/ a.deps[r] \cap w.seen # {}
  /\ w.erased \cap Present(a, w.s) \subseteq X \cup {w.current}
  /\ \A r \in X : OwnKeys(a, w.s, r) \subseteq V
  /\ w.current # NoRec => OwnKeys(a, w.s, w.current) \subseteq V \cup w.keys \cup w.own

Progress(w, a, S, I, V, X, Z) ==
  /\ V \subseteq Keys /\ X \subseteq Present(a, w.s)
  /\ Trimmed(a, w.d, w.s, V, X, Z)
  /\ Blocks(w, a, V)
  /\ Sound(w, a, S, I, V, X, Z)
  /\ Complete(w, a, S, I, V, X)

-----------------------------------------------------------------------------
(* What the closure of the starting keys is.                               *)

LEMMA ReachedLeast ==
  ASSUME NEW d, NEW s, NEW S, NEW I, NEW C \in SUBSET Keys, S \subseteq C,
         \A r \in I \cap Present(d, s) : OwnKeys(d, s, r) \subseteq C, Closed(d, s, C)
  PROVE  Reached(d, s, S, I) \subseteq C
<1> DEFINE T == S \cup UNION {OwnKeys(d, s, r) : r \in I \cap Present(d, s)}
<1>1. T \subseteq C
  OBVIOUS
<1>2. Reached(d, s, S, I) = {k \in Keys : \A B \in SUBSET Keys :
                               T \subseteq B /\ Closed(d, s, B) => k \in B}
  BY DEF Reached, Closure
<1> HIDE DEF T
<1> QED BY <1>1, <1>2

LEMMA OwnKeysType ==
  ASSUME NEW d \in Database, NEW s \in Scopes, NEW r \in RecIds
  PROVE  OwnKeys(d, s, r) \subseteq Keys
<1>1. d.deps[r] \subseteq Keys
  BY DEF Database
<1>2. \A q \in Deliveries : q.key \in Keys
  BY StoreAssumption DEF Delivery
<1> QED BY <1>1, <1>2 DEF OwnKeys

\* The records taken are seeds of the closure, or depend on what is in it.
LEMMA ErasedOwnKeys ==
  ASSUME NEW d \in Database, NEW s \in Scopes, NEW S, NEW I, NEW r \in ErasedBy(d, s, S, I)
  PROVE  OwnKeys(d, s, r) \subseteq Reached(d, s, S, I)
<1>1. r \in Present(d, s) /\ r \in RecIds
  BY DEF ErasedBy, Present
<1>2. OwnKeys(d, s, r) \subseteq Keys
  BY <1>1, OwnKeysType
<1>3. CASE d.deps[r] \cap Reached(d, s, S, I) # {}
  BY <1>1, <1>3, ReachedClosed DEF Closed
<1>4. CASE r \in I
  <2> DEFINE T == S \cup UNION {OwnKeys(d, s, o) : o \in I \cap Present(d, s)}
  <2>1. OwnKeys(d, s, r) \subseteq T
    BY <1>1, <1>4
  <2>2. Reached(d, s, S, I) = {k \in Keys : \A B \in SUBSET Keys :
                                 T \subseteq B /\ Closed(d, s, B) => k \in B}
    BY DEF Reached, Closure
  <2> HIDE DEF T
  <2> QED BY <1>2, <2>1, <2>2
<1> QED BY <1>3, <1>4 DEF ErasedBy

\* Clearing leaves an observation's record alone, and is done once.
LEMMA ClearedFields ==
  ASSUME NEW o \in ObsRow
  PROVE  /\ Cleared(o) \in ObsRow /\ Cleared(o).record = o.record
         /\ Cleared(o).live = FALSE /\ Cleared(o).state = "deleted"
         /\ Cleared(Cleared(o)) = Cleared(o)
<1>1. ASSUME NEW x \in ObsRow
      PROVE  /\ Cleared(x) \in ObsRow /\ Cleared(x).record = x.record
             /\ Cleared(x).live = FALSE /\ Cleared(x).state = "deleted"
             /\ Cleared(x).job = "completed" /\ Cleared(x).attempts = x.attempts
             /\ Cleared(x).nextAt = x.nextAt
  BY ClearedType DEF Cleared, ObsRow
<1>2. \A x, y \in ObsRow :
        /\ x.state = y.state /\ x.live = y.live /\ x.record = y.record
        /\ x.job = y.job /\ x.attempts = y.attempts /\ x.nextAt = y.nextAt
        => x = y
  BY DEF ObsRow
<1>3. PICK c \in ObsRow : c = Cleared(o)
  BY <1>1
<1>4. Cleared(c) \in ObsRow
  BY <1>1
<1>5. Cleared(c) = c
  <2>1. c.live = FALSE /\ c.state = "deleted" /\ c.job = "completed"
    BY <1>1, <1>3
  <2> DEFINE e == Cleared(c)
  <2>2. /\ e.live = FALSE /\ e.state = "deleted" /\ e.job = "completed"
        /\ e.record = c.record /\ e.attempts = c.attempts /\ e.nextAt = c.nextAt
    BY <1>1
  <2> HIDE DEF e
  <2>3. e \in ObsRow
    BY <1>4 DEF e
  <2>4. e = c
    BY <1>2, <2>1, <2>2, <2>3
  <2> QED BY <2>4 DEF e
<1> QED BY <1>1, <1>3, <1>5

\* A row whose payload is cut keeps its place and its record, so that the
\* events of a record are the same for as long as it is there.
LEMMA TrimmedKeeps ==
  ASSUME NEW a \in Database, NEW d \in Database, NEW s \in Scopes, NEW V, NEW X, NEW Z,
         X \subseteq Present(a, s), Trimmed(a, d, s, V, X, Z)
  PROVE  /\ Present(d, s) = Present(a, s)
         /\ \A r \in RecIds \ X : OwnKeys(d, s, r) = OwnKeys(a, s, r)
         /\ \A r \in RecIds : OwnKeys(d, s, r) \subseteq OwnKeys(a, s, r)
         /\ \A q \in Deliveries :
              d.obs[s][q].live <=> a.obs[s][q].live /\ ~Gone(a, s, V, X, Z, q)
<1>1. ASSUME NEW r \in RecIds
      PROVE  /\ d.rec[r].status = "absent" <=> a.rec[r].status = "absent"
             /\ d.rec[r].scope = a.rec[r].scope
  <2>1. a.rec[r] \in Row /\ (r \in X => a.rec[r].status # "absent")
    BY DEF Database, Present
  <2>2. d.rec[r] = IF r \in X
                     THEN [a.rec[r] EXCEPT !.status = "deleted", !.fact = NoFact]
                     ELSE a.rec[r]
    BY DEF Trimmed
  <2> QED BY <2>1, <2>2 DEF Row
<1>2. ASSUME NEW q \in Deliveries
      PROVE  /\ d.obs[s][q].record = a.obs[s][q].record
             /\ d.obs[s][q].live <=> a.obs[s][q].live /\ ~Gone(a, s, V, X, Z, q)
  <2>1. a.obs[s][q] \in ObsRow
    BY DEF Database
  <2>2. d.obs[s][q] = IF Gone(a, s, V, X, Z, q) THEN Cleared(a.obs[s][q]) ELSE a.obs[s][q]
    BY DEF Trimmed
  <2>3. CASE Gone(a, s, V, X, Z, q)
    BY <2>1, <2>2, <2>3, ClearedFields
  <2>4. CASE ~Gone(a, s, V, X, Z, q)
    BY <2>1, <2>2, <2>4 DEF ObsRow
  <2> QED BY <2>3, <2>4
<1>3. Present(d, s) = Present(a, s)
  BY <1>1 DEF Present
<1>4. ASSUME NEW r \in RecIds
      PROVE  /\ OwnKeys(d, s, r) \subseteq OwnKeys(a, s, r)
             /\ r \notin X => OwnKeys(d, s, r) = OwnKeys(a, s, r)
  <2>1. {p \in Deliveries : d.obs[s][p].record = r} = {p \in Deliveries : a.obs[s][p].record = r}
    BY <1>2
  <2>2. d.deps[r] = IF r \in X THEN {} ELSE a.deps[r]
    BY DEF Trimmed
  <2> QED BY <2>1, <2>2 DEF OwnKeys
<1> QED BY <1>2, <1>3, <1>4

-----------------------------------------------------------------------------
(* One visit.                                                              *)

SameRun(w, x) == x.s = w.s /\ x.then = w.then /\ x.block = w.block

LEMMA CutRowsFields ==
  ASSUME work \in WorkType, NEW k \in Keys, NEW names \in SUBSET Keys
  PROVE  LET w == work
             e == CutRows(k, names)
         IN /\ e \in Database
            /\ e.rec = w.d.rec /\ e.ver = w.d.ver /\ e.idx = w.d.idx /\ e.deps = w.d.deps
            /\ e.gen = w.d.gen
            /\ \A t \in Scopes :
                 e.tomb[t] = IF t = w.s /\ w.block THEN w.d.tomb[t] \cup {k} \cup names
                                                   ELSE w.d.tomb[t]
            /\ \A t \in Scopes, q \in Deliveries :
                 e.obs[t][q] = IF t = w.s /\ w.d.obs[t][q].live /\ k \in Cites(q)
                                 THEN Cleared(w.d.obs[t][q]) ELSE w.d.obs[t][q]
<1> DEFINE w == work
           d == work.d
           e == CutRows(k, names)
           tombs == IF w.block THEN d.tomb[w.s] \cup {k} \cup names ELSE d.tomb[w.s]
           rows == [q \in Deliveries |->
                      IF q \in Citing(k) THEN Cleared(d.obs[w.s][q]) ELSE d.obs[w.s][q]]
<1>1. d \in Database /\ w.s \in Scopes /\ w.block \in BOOLEAN
  BY DEF WorkType
<1>2. e = [d EXCEPT !.tomb[w.s] = tombs, !.obs[w.s] = rows]
  BY DEF CutRows
<1>3. \A q \in Deliveries : q \in Citing(k) <=> d.obs[w.s][q].live /\ k \in Cites(q)
  BY DEF Citing
<1>4. rows \in [Deliveries -> ObsRow]
  <2>1. \A q \in Deliveries : d.obs[w.s][q] \in ObsRow
    BY <1>1 DEF Database
  <2> QED BY <2>1, ClearedType
<1>5. \A q \in Deliveries :
        rows[q] = IF d.obs[w.s][q].live /\ k \in Cites(q) THEN Cleared(d.obs[w.s][q])
                                                          ELSE d.obs[w.s][q]
  BY <1>3
<1>6. tombs \in SUBSET Keys
  BY <1>1 DEF Database
<1>7. tombs = IF w.block THEN d.tomb[w.s] \cup {k} \cup names ELSE d.tomb[w.s]
  OBVIOUS
<1> HIDE DEF w, d, e, tombs, rows
<1>8. /\ e \in Database
      /\ e.rec = d.rec /\ e.ver = d.ver /\ e.idx = d.idx /\ e.deps = d.deps /\ e.gen = d.gen
      /\ \A t \in Scopes : /\ e.tomb[t] = IF t = w.s THEN tombs ELSE d.tomb[t]
                           /\ e.obs[t] = IF t = w.s THEN rows ELSE d.obs[t]
  BY <1>1, <1>2, <1>4, <1>6 DEF Database
<1>9. \A t \in Scopes :
        e.tomb[t] = IF t = w.s /\ w.block THEN d.tomb[t] \cup {k} \cup names ELSE d.tomb[t]
  BY <1>7, <1>8
<1>10. \A t \in Scopes, q \in Deliveries :
         e.obs[t][q] = IF t = w.s /\ d.obs[t][q].live /\ k \in Cites(q)
                         THEN Cleared(d.obs[t][q]) ELSE d.obs[t][q]
  BY <1>5, <1>8
<1> QED BY <1>8, <1>9, <1>10 DEF w, d, e

LEMMA VisitKeyParts ==
  ASSUME work \in WorkType, NEW k \in Keys, VisitKey(k)
  PROVE  \E names \in SUBSET Keys :
           /\ names = UNION {Names(q) : q \in Citing(k)}
           /\ k \in work.keys
           /\ work' \in WorkType /\ SameRun(work, work')
           /\ work'.keys = (work.keys \cup names) \ (work.seen \cup {k})
           /\ work'.seen = work.seen \cup {k}
           /\ work'.d = CutRows(k, names)
           /\ work'.ids = work.ids /\ work'.erased = work.erased
           /\ work'.current = work.current /\ work'.own = work.own
           /\ UNCHANGED <<db, clock>>
<1> DEFINE names == UNION {Names(q) : q \in Citing(k)}
           keys == (work.keys \cup names) \ (work.seen \cup {k})
           seen == work.seen \cup {k}
           e == CutRows(k, names)
<1>1. names \in SUBSET Keys
  BY DeliveryKeys DEF Citing
<1>2. names = UNION {Names(q) : q \in Citing(k)}
  OBVIOUS
<1>3. /\ k \in work.keys /\ UNCHANGED <<db, clock>>
      /\ work' = [work EXCEPT !.keys = keys, !.seen = seen, !.d = e]
  BY DEF VisitKey, Stage
<1> HIDE DEF names
<1>4. e \in Database
  BY <1>1, CutRowsFields
<1> HIDE DEF e
<1>5. work' \in WorkType
  BY <1>1, <1>3, <1>4 DEF WorkType
<1>6. /\ SameRun(work, work') /\ work'.keys = keys /\ work'.seen = seen /\ work'.d = e
      /\ work'.ids = work.ids /\ work'.erased = work.erased
      /\ work'.current = work.current /\ work'.own = work.own
  BY <1>3 DEF WorkType, SameRun
<1> QED BY <1>1, <1>2, <1>3, <1>5, <1>6 DEF e

LEMMA ProducerKey ==
  ASSUME NEW a, NEW s, NEW q \in Deliveries
  PROVE  q.key \in OwnKeys(a, s, a.obs[s][q].record)
BY DEF OwnKeys

\* The payload of a visited event, of one that produced an erased record or
\* of one that was cleared, cites a visited key.
LEMMA GoneCites ==
  ASSUME NEW a \in Database, NEW s \in Scopes, NEW V, NEW X, NEW Z, NEW q \in Deliveries,
         \A r \in X : OwnKeys(a, s, r) \subseteq V, Z \subseteq V,
         a.obs[s][q].live, Gone(a, s, V, X, Z, q)
  PROVE  Cites(q) \cap V # {}
<1>1. q.key \in Cites(q)
  BY DeliveryKeys
<1>2. CASE a.obs[s][q].record \in X
  BY <1>1, <1>2, ProducerKey
<1>3. CASE q.key \in Z
  BY <1>1, <1>3
<1> QED BY <1>2, <1>3 DEF Gone

LEMMA VisitKeyProgress ==
  ASSUME NEW a \in Database, NEW S \in SUBSET Keys, NEW I, NEW V, NEW X, NEW Z,
         work \in WorkType, Progress(work, a, S, I, V, X, Z), NEW k \in Keys, VisitKey(k)
  PROVE  /\ work' \in WorkType /\ SameRun(work, work') /\ UNCHANGED <<db, clock>>
         /\ Progress(work', a, S, I, V \cup {k}, X, Z)
<1> DEFINE w == work
           x == work'
           s == work.s
           d == work.d
           e == work'.d
           K == Reached(a, s, S, I)
           W == V \cup {k}
<1>0. /\ w \in WorkType /\ d \in Database /\ s \in Scopes /\ w.block \in BOOLEAN
      /\ V \subseteq Keys /\ X \subseteq Present(a, s)
      /\ Trimmed(a, d, s, V, X, Z) /\ Blocks(w, a, V)
      /\ Sound(w, a, S, I, V, X, Z) /\ Complete(w, a, S, I, V, X)
  BY DEF WorkType, Progress
<1>1. PICK names \in SUBSET Keys :
        /\ names = UNION {Names(q) : q \in Citing(k)}
        /\ k \in w.keys
        /\ x \in WorkType /\ SameRun(w, x)
        /\ x.keys = (w.keys \cup names) \ (w.seen \cup {k})
        /\ x.seen = w.seen \cup {k}
        /\ e = CutRows(k, names)
        /\ x.ids = w.ids /\ x.erased = w.erased
        /\ x.current = w.current /\ x.own = w.own
        /\ UNCHANGED <<db, clock>>
  BY VisitKeyParts
<1>2. /\ e.rec = d.rec /\ e.ver = d.ver /\ e.idx = d.idx /\ e.deps = d.deps /\ e.gen = d.gen
      /\ \A t \in Scopes :
           e.tomb[t] = IF t = s /\ w.block THEN d.tomb[t] \cup {k} \cup names ELSE d.tomb[t]
      /\ \A t \in Scopes, q \in Deliveries :
           e.obs[t][q] = IF t = s /\ d.obs[t][q].live /\ k \in Cites(q)
                           THEN Cleared(d.obs[t][q]) ELSE d.obs[t][q]
  BY <1>1, CutRowsFields
<1>3. x.s = s /\ x.block = w.block /\ Waiting(x) = Waiting(w)
  BY <1>1 DEF SameRun, Waiting
<1>4. \A q \in Deliveries : q \in Citing(k) <=> d.obs[s][q].live /\ k \in Cites(q)
  BY DEF Citing
<1>5. \A q \in Deliveries : d.obs[s][q].live <=> a.obs[s][q].live /\ ~Gone(a, s, V, X, Z, q)
  BY <1>0, TrimmedKeeps
<1>6. \A q \in Deliveries : q \in Citing(k) => Names(q) \subseteq names
  BY <1>1
<1> HIDE DEF K
<1>7. names \subseteq K
  <2>1. k \in K
    BY <1>0, <1>1 DEF Sound, K
  <2>2. \A q \in Deliveries : q \in Citing(k) => Names(q) \subseteq K
    BY <1>0, <1>4, <1>5, <2>1, ReachedClosed DEF Closed, K
  <2>3. \A n \in names : \E q \in Citing(k) : n \in Names(q)
    BY <1>1
  <2>4. Citing(k) \subseteq Deliveries
    BY DEF Citing
  <2> QED BY <2>2, <2>3, <2>4
<1>8. ASSUME NEW q \in Deliveries, a.obs[s][q].live, k \in Cites(q)
      PROVE  Names(q) \subseteq names \/ Cites(q) \cap V # {}
  <2>1. CASE q \in Citing(k)
    BY <1>6, <2>1
  <2>2. CASE q \notin Citing(k)
    <3>1. Gone(a, s, V, X, Z, q)
      BY <1>4, <1>5, <1>8, <2>2
    <3> QED BY <1>0, <1>8, <3>1, GoneCites DEF Sound, Complete
  <2> QED BY <2>1, <2>2
<1>9. Trimmed(a, e, s, W, X, Z)
  <2>1. ASSUME NEW t \in Scopes, NEW q \in Deliveries
        PROVE  e.obs[t][q] = IF t = s /\ Gone(a, s, W, X, Z, q) THEN Cleared(a.obs[s][q])
                                                                ELSE a.obs[t][q]
    <3>1. d.obs[t][q] = IF t = s /\ Gone(a, s, V, X, Z, q) THEN Cleared(a.obs[s][q])
                                                           ELSE a.obs[t][q]
      BY <1>0 DEF Trimmed
    <3>2. Gone(a, s, W, X, Z, q) <=>
            Gone(a, s, V, X, Z, q) \/ (a.obs[s][q].live /\ k \in Cites(q))
      BY DEF Gone
    <3>3. e.obs[t][q] = IF t = s /\ d.obs[t][q].live /\ k \in Cites(q)
                          THEN Cleared(d.obs[t][q]) ELSE d.obs[t][q]
      BY <1>2
    <3>4. CASE t = s /\ d.obs[s][q].live /\ k \in Cites(q)
      BY <1>5, <3>1, <3>2, <3>3, <3>4
    <3>5. CASE t = s /\ ~(d.obs[s][q].live /\ k \in Cites(q))
      BY <1>5, <3>1, <3>2, <3>3, <3>5
    <3>6. CASE t # s
      BY <3>1, <3>3, <3>6
    <3> QED BY <3>4, <3>5, <3>6
  <2> QED BY <1>0, <1>2, <2>1 DEF Trimmed
<1>10. Blocks(x, a, W)
  <2>1. CASE w.block
    <3>1. e.tomb[s] = d.tomb[s] \cup {k} \cup names
      BY <1>0, <1>2, <2>1
    <3>2. a.tomb[s] \cup V \subseteq d.tomb[s] /\ d.tomb[s] \subseteq a.tomb[s] \cup V \cup w.keys
      BY <1>0, <2>1 DEF Blocks
    <3>3. V \cup {k} \cup w.keys \cup names = W \cup x.keys
      BY <1>0, <1>1 DEF Sound
    <3>4. /\ a.tomb[s] \cup W \subseteq e.tomb[s]
          /\ e.tomb[s] \subseteq a.tomb[s] \cup W \cup x.keys
      BY <3>1, <3>2, <3>3
    <3> QED BY <1>3, <2>1, <3>4 DEF Blocks
  <2>2. CASE ~w.block
    BY <1>0, <1>2, <1>3, <2>2 DEF Blocks
  <2> QED BY <2>1, <2>2
<1>11. Sound(x, a, S, I, W, X, Z)
  <2>1. W \cup x.keys \cup x.own \subseteq K
    BY <1>0, <1>1, <1>7 DEF Sound, K
  <2> QED BY <1>0, <1>1, <1>3, <2>1 DEF Sound, K
<1>12. Complete(x, a, S, I, W, X)
  <2>1. V \cup w.keys \cup names \subseteq W \cup x.keys
    BY <1>0, <1>1 DEF Sound
  <2>2. ASSUME NEW q \in Deliveries, a.obs[s][q].live, Cites(q) \cap W # {}
        PROVE  Names(q) \subseteq W \cup x.keys
    <3>1. CASE Cites(q) \cap V # {}
      BY <1>0, <2>1, <2>2, <3>1 DEF Complete
    <3>2. CASE Cites(q) \cap V = {}
      BY <1>8, <2>1, <2>2, <3>2
    <3> QED BY <3>1, <3>2
  <2>3. \A r \in Present(a, s) :
          a.deps[r] \cap W # {} => r \in x.ids \cup X \/ a.deps[r] \cap x.seen # {}
    BY <1>0, <1>1 DEF Complete
  <2>4. /\ S \subseteq W \cup x.keys \cup Waiting(x)
        /\ I \cap Present(a, s) \subseteq x.ids \cup X
        /\ x.erased \cap Present(a, s) \subseteq X \cup {x.current}
        /\ \A r \in X : OwnKeys(a, s, r) \subseteq W
        /\ x.current # NoRec => OwnKeys(a, s, x.current) \subseteq W \cup x.keys \cup x.own
    BY <1>0, <1>1, <1>3, <2>1 DEF Complete
  <2> QED BY <1>3, <2>2, <2>3, <2>4 DEF Complete
<1>13. W \subseteq Keys
  BY <1>0
<1> QED BY <1>0, <1>1, <1>3, <1>9, <1>10, <1>11, <1>12, <1>13 DEF Progress

LEMMA KeysVisitedProgress ==
  ASSUME NEW a \in Database, NEW S \in SUBSET Keys, NEW I, NEW V, NEW X, NEW Z,
         work \in WorkType, Progress(work, a, S, I, V, X, Z), KeysVisited
  PROVE  /\ work' \in WorkType /\ SameRun(work, work') /\ UNCHANGED <<db, clock>>
         /\ Progress(work', a, S, I, V, X, Z)
<1> DEFINE w == work
           x == work'
           s == work.s
           d == work.d
           New == {r \in Present(d, s) : d.deps[r] \cap w.seen # {}}
<1>0. /\ w \in WorkType /\ d \in Database /\ s \in Scopes
      /\ V \subseteq Keys /\ X \subseteq Present(a, s)
      /\ Trimmed(a, d, s, V, X, Z) /\ Blocks(w, a, V)
      /\ Sound(w, a, S, I, V, X, Z) /\ Complete(w, a, S, I, V, X)
  BY DEF WorkType, Progress
<1>1. /\ w.keys = {} /\ x = [w EXCEPT !.seen = {}, !.ids = @ \cup New]
      /\ UNCHANGED <<db, clock>>
  BY DEF KeysVisited, Stage
<1>2. New \subseteq RecIds
  BY DEF Present
<1>3. New = {r \in Present(a, s) \ X : a.deps[r] \cap w.seen # {}}
  <2>1. Present(d, s) = Present(a, s) /\ Present(a, s) \subseteq RecIds
    BY <1>0, TrimmedKeeps DEF Present
  <2>2. \A r \in RecIds : d.deps[r] = IF r \in X THEN {} ELSE a.deps[r]
    BY <1>0 DEF Trimmed
  <2> QED BY <2>1, <2>2
<1> HIDE DEF New
<1>4. /\ x \in WorkType /\ SameRun(w, x)
      /\ x.keys = w.keys /\ x.seen = {} /\ x.d = d /\ x.ids = w.ids \cup New
      /\ x.erased = w.erased /\ x.current = w.current /\ x.own = w.own
  BY <1>0, <1>1, <1>2 DEF WorkType, SameRun
<1>5. x.s = s /\ x.block = w.block /\ Waiting(x) = Waiting(w)
  BY <1>4 DEF SameRun, Waiting
<1>6. New \subseteq ErasedBy(a, s, S, I)
  BY <1>0, <1>3 DEF Sound, ErasedBy
<1>7. Sound(x, a, S, I, V, X, Z)
  BY <1>0, <1>4, <1>5, <1>6 DEF Sound
<1>8. Complete(x, a, S, I, V, X)
  <2>1. \A r \in Present(a, s) : a.deps[r] \cap V # {} => r \in x.ids \cup X
    BY <1>0, <1>3, <1>4 DEF Complete
  <2> QED BY <1>0, <1>4, <1>5, <2>1 DEF Complete
<1>9. Blocks(x, a, V)
  BY <1>0, <1>4, <1>5 DEF Blocks
<1> QED BY <1>0, <1>1, <1>4, <1>5, <1>7, <1>8, <1>9 DEF Progress

LEMMA TakeRecordProgress ==
  ASSUME NEW a \in Database, NEW S \in SUBSET Keys, NEW I, NEW V, NEW X, NEW Z,
         work \in WorkType, Progress(work, a, S, I, V, X, Z),
         NEW r \in RecIds, TakeRecord(r)
  PROVE  /\ work' \in WorkType /\ SameRun(work, work') /\ UNCHANGED <<db, clock>>
         /\ Progress(work', a, S, I, V, X, Z)
<1> DEFINE w == work
           x == work'
           s == work.s
           d == work.d
           taken == r \in Present(d, s)
           own == OwnKeys(d, s, r)
<1>0. /\ w \in WorkType /\ d \in Database /\ s \in Scopes
      /\ V \subseteq Keys /\ X \subseteq Present(a, s)
      /\ Trimmed(a, d, s, V, X, Z) /\ Blocks(w, a, V)
      /\ Sound(w, a, S, I, V, X, Z) /\ Complete(w, a, S, I, V, X)
  BY DEF WorkType, Progress
<1>1. /\ w.keys = {} /\ w.seen = {} /\ w.current = NoRec /\ r \in w.ids \ w.erased
      /\ x = IF taken THEN [w EXCEPT !.erased = @ \cup {r}, !.current = r, !.own = own]
                      ELSE [w EXCEPT !.erased = @ \cup {r}]
      /\ UNCHANGED <<db, clock>>
  BY DEF TakeRecord, BetweenKeys, Stage
<1>2. own \subseteq Keys
  BY <1>0, OwnKeysType
<1>3. /\ Present(d, s) = Present(a, s) /\ own \subseteq OwnKeys(a, s, r)
      /\ r \notin X => own = OwnKeys(a, s, r)
  BY <1>0, TrimmedKeeps
<1>4. NoRec \notin Present(a, s) /\ r # NoRec
  BY StoreAssumption DEF Present
<1>5. taken => /\ r \in Present(a, s) /\ r \in ErasedBy(a, s, S, I)
               /\ own \subseteq Reached(a, s, S, I)
               /\ OwnKeys(a, s, r) \subseteq V \cup own
  <2>1. taken => r \in Present(a, s) /\ r \in ErasedBy(a, s, S, I)
    BY <1>0, <1>1, <1>3 DEF Sound
  <2>2. taken => own \subseteq Reached(a, s, S, I)
    BY <1>0, <1>3, <2>1, ErasedOwnKeys
  <2>3. OwnKeys(a, s, r) \subseteq V \cup own
    BY <1>0, <1>3 DEF Complete
  <2> QED BY <2>1, <2>2, <2>3
<1> HIDE DEF own
<1>6. CASE taken
  <2>1. /\ x \in WorkType /\ SameRun(w, x)
        /\ x.keys = {} /\ x.seen = {} /\ x.d = d /\ x.ids = w.ids
        /\ x.erased = w.erased \cup {r} /\ x.current = r /\ x.own = own
    BY <1>0, <1>1, <1>2, <1>6 DEF WorkType, SameRun
  <2>2. x.s = s /\ x.block = w.block /\ Waiting(x) = Waiting(w)
    BY <2>1 DEF SameRun, Waiting
  <2>3. Sound(x, a, S, I, V, X, Z)
    BY <1>0, <1>1, <1>5, <1>6, <2>1, <2>2 DEF Sound
  <2>4. Complete(x, a, S, I, V, X)
    BY <1>0, <1>1, <1>4, <1>5, <1>6, <2>1, <2>2 DEF Complete
  <2>5. Blocks(x, a, V)
    BY <1>0, <1>1, <2>1, <2>2 DEF Blocks
  <2> QED BY <1>0, <1>1, <2>1, <2>2, <2>3, <2>4, <2>5 DEF Progress
<1>7. CASE ~taken
  <2>1. /\ x \in WorkType /\ SameRun(w, x)
        /\ x.keys = {} /\ x.seen = {} /\ x.d = d /\ x.ids = w.ids
        /\ x.erased = w.erased \cup {r} /\ x.current = NoRec /\ x.own = w.own
    BY <1>0, <1>1, <1>7 DEF WorkType, SameRun
  <2>2. x.s = s /\ x.block = w.block /\ Waiting(x) = Waiting(w)
    BY <2>1 DEF SameRun, Waiting
  <2>3. Sound(x, a, S, I, V, X, Z)
    BY <1>0, <1>1, <2>1, <2>2 DEF Sound
  <2>4. Complete(x, a, S, I, V, X)
    BY <1>0, <1>1, <1>3, <1>7, <2>1, <2>2 DEF Complete
  <2>5. Blocks(x, a, V)
    BY <1>0, <1>1, <2>1, <2>2 DEF Blocks
  <2> QED BY <1>0, <1>1, <2>1, <2>2, <2>3, <2>4, <2>5 DEF Progress
<1> QED BY <1>6, <1>7

LEMMA TakeOwnKeyProgress ==
  ASSUME NEW a \in Database, NEW S \in SUBSET Keys, NEW I, NEW V, NEW X, NEW Z,
         work \in WorkType, Progress(work, a, S, I, V, X, Z),
         NEW k \in Keys, TakeOwnKey(k)
  PROVE  /\ work' \in WorkType /\ SameRun(work, work') /\ UNCHANGED <<db, clock>>
         /\ Progress(work', a, S, I, V, X, Z)
<1> DEFINE w == work
           x == work'
           s == work.s
<1>0. /\ w \in WorkType /\ V \subseteq Keys /\ X \subseteq Present(a, s)
      /\ Trimmed(a, w.d, s, V, X, Z) /\ Blocks(w, a, V)
      /\ Sound(w, a, S, I, V, X, Z) /\ Complete(w, a, S, I, V, X)
  BY DEF Progress
<1>1. /\ w.keys = {} /\ w.seen = {} /\ k \in w.own
      /\ x = [w EXCEPT !.own = @ \ {k}, !.keys = {k}] /\ UNCHANGED <<db, clock>>
  BY DEF TakeOwnKey, BetweenKeys, Stage
<1>2. /\ x \in WorkType /\ SameRun(w, x)
      /\ x.keys = {k} /\ x.seen = {} /\ x.d = w.d /\ x.ids = w.ids
      /\ x.erased = w.erased /\ x.current = w.current /\ x.own = w.own \ {k}
  BY <1>0, <1>1 DEF WorkType, SameRun
<1>3. x.s = s /\ x.block = w.block /\ Waiting(x) = Waiting(w)
  BY <1>2 DEF SameRun, Waiting
<1>4. Sound(x, a, S, I, V, X, Z)
  BY <1>0, <1>1, <1>2, <1>3 DEF Sound
<1>5. Complete(x, a, S, I, V, X)
  BY <1>0, <1>1, <1>2, <1>3 DEF Complete
<1>6. Blocks(x, a, V)
  BY <1>0, <1>1, <1>2, <1>3 DEF Blocks
<1> QED BY <1>0, <1>1, <1>2, <1>3, <1>4, <1>5, <1>6 DEF Progress

\* e is d without the record r, whose row stays.
WithoutRecord(d, e, r) ==
  /\ e.ver = {v \in d.ver : v.id # r} /\ e.idx = d.idx \ {r}
  /\ e.gen = d.gen /\ e.tomb = d.tomb
  /\ \A o \in RecIds :
       /\ e.rec[o] = IF o = r
                       THEN [d.rec[o] EXCEPT !.status = "deleted", !.fact = NoFact]
                       ELSE d.rec[o]
       /\ e.deps[o] = IF o = r THEN {} ELSE d.deps[o]
  /\ \A t \in Scopes, q \in Deliveries :
       e.obs[t][q] = IF d.obs[t][q].record = r THEN Cleared(d.obs[t][q])
                                               ELSE d.obs[t][q]

LEMMA CutRecordFields ==
  ASSUME NEW d \in Database, NEW r \in RecIds
  PROVE  CutRecord(d, r) \in Database /\ WithoutRecord(d, CutRecord(d, r), r)
<1> DEFINE e == CutRecord(d, r)
           row == [d.rec[r] EXCEPT !.status = "deleted", !.fact = NoFact]
           obs == [t \in Scopes |-> [q \in Deliveries |->
                     IF d.obs[t][q].record = r THEN Cleared(d.obs[t][q]) ELSE d.obs[t][q]]]
           ver == {v \in d.ver : v.id # r}
<1>1. e = [d EXCEPT !.rec[r] = row, !.ver = ver, !.idx = @ \ {r}, !.deps[r] = {}, !.obs = obs]
  BY DEF CutRecord
<1>2. row \in Row
  <2>1. d.rec[r] \in Row
    BY DEF Database
  <2>2. "deleted" \in Statuses
    BY DEF Statuses
  <2> QED BY <2>1, <2>2, RowType
<1>3. obs \in [Scopes -> [Deliveries -> ObsRow]]
  <2>1. \A t \in Scopes, q \in Deliveries : d.obs[t][q] \in ObsRow
    BY DEF Database
  <2> QED BY <2>1, ClearedType
<1>4. \A t \in Scopes, q \in Deliveries :
        obs[t][q] = IF d.obs[t][q].record = r THEN Cleared(d.obs[t][q]) ELSE d.obs[t][q]
  OBVIOUS
<1>5. ver \subseteq d.ver
  OBVIOUS
<1> HIDE DEF e, row, obs, ver
<1> DEFINE rec == [d.rec EXCEPT ![r] = row]
           deps == [d.deps EXCEPT ![r] = {}]
<1>6. /\ rec \in [RecIds -> Row] /\ deps \in [RecIds -> SUBSET Keys]
      /\ \A o \in RecIds : /\ rec[o] = IF o = r THEN row ELSE d.rec[o]
                           /\ deps[o] = IF o = r THEN {} ELSE d.deps[o]
  BY <1>2 DEF Database
<1>7. e = [d EXCEPT !.rec = rec, !.ver = ver, !.idx = @ \ {r}, !.deps = deps, !.obs = obs]
  BY <1>1
<1> HIDE DEF rec, deps
<1>8. /\ e \in Database /\ e.rec = rec /\ e.deps = deps /\ e.obs = obs
      /\ e.ver = ver /\ e.idx = d.idx \ {r} /\ e.gen = d.gen /\ e.tomb = d.tomb
  BY <1>3, <1>5, <1>6, <1>7 DEF Database
<1>9. WithoutRecord(d, e, r)
  BY <1>4, <1>6, <1>8 DEF WithoutRecord, row, ver
<1> QED BY <1>8, <1>9 DEF e

\* The rows that name a record are in its scope.
LEMMA ProductScope ==
  ASSUME NEW a, ProductsAgree(a), NEW t \in Scopes, NEW q \in Deliveries,
         a.obs[t][q].record # NoRec
  PROVE  a.rec[a.obs[t][q].record].scope = t
BY DEF ProductsAgree, ProductOf

LEMMA EraseRecordTrims ==
  ASSUME NEW a \in Database, ProductsAgree(a), NEW d \in Database, NEW s \in Scopes,
         NEW V, NEW X, NEW Z, X \subseteq Present(a, s), Trimmed(a, d, s, V, X, Z),
         NEW r \in Present(a, s)
  PROVE  Trimmed(a, CutRecord(d, r), s, V, X \cup {r}, Z)
<1> DEFINE e == CutRecord(d, r)
           Y == X \cup {r}
<1>0. r \in RecIds /\ a.rec[r].scope = s /\ r # NoRec
  BY StoreAssumption DEF Present
<1>1. WithoutRecord(d, e, r)
  BY <1>0, CutRecordFields
<1> HIDE DEF e
<1>2. ASSUME NEW o \in RecIds
      PROVE  /\ e.rec[o] = IF o \in Y
                             THEN [a.rec[o] EXCEPT !.status = "deleted", !.fact = NoFact]
                             ELSE a.rec[o]
             /\ e.deps[o] = IF o \in Y THEN {} ELSE a.deps[o]
  <2>1. a.rec[o] \in Row
    BY DEF Database
  <2>2. /\ d.rec[o] = IF o \in X
                        THEN [a.rec[o] EXCEPT !.status = "deleted", !.fact = NoFact]
                        ELSE a.rec[o]
        /\ d.deps[o] = IF o \in X THEN {} ELSE a.deps[o]
    BY DEF Trimmed
  <2>3. [[a.rec[o] EXCEPT !.status = "deleted", !.fact = NoFact]
           EXCEPT !.status = "deleted", !.fact = NoFact]
          = [a.rec[o] EXCEPT !.status = "deleted", !.fact = NoFact]
    BY <2>1 DEF Row
  <2>4. /\ e.rec[o] = IF o = r
                         THEN [d.rec[o] EXCEPT !.status = "deleted", !.fact = NoFact]
                         ELSE d.rec[o]
        /\ e.deps[o] = IF o = r THEN {} ELSE d.deps[o]
    BY <1>1 DEF WithoutRecord
  <2> QED BY <2>2, <2>3, <2>4
<1>3. ASSUME NEW t \in Scopes, NEW q \in Deliveries
      PROVE  e.obs[t][q] = IF t = s /\ Gone(a, s, V, Y, Z, q) THEN Cleared(a.obs[s][q])
                                                              ELSE a.obs[t][q]
  <2> DEFINE o == a.obs[t][q]
             n == d.obs[t][q]
  <2>1. o \in ObsRow
    BY DEF Database
  <2>2. n = IF t = s /\ Gone(a, s, V, X, Z, q) THEN Cleared(o) ELSE o
    BY DEF Trimmed
  <2>3. Cleared(o).record = o.record /\ Cleared(Cleared(o)) = Cleared(o)
    BY <2>1, ClearedFields
  <2>4. o.record = r => t = s
    BY <1>0, ProductScope
  <2>5. Gone(a, s, V, Y, Z, q) <=> Gone(a, s, V, X, Z, q) \/ a.obs[s][q].record = r
    BY DEF Gone
  <2>6. e.obs[t][q] = IF n.record = r THEN Cleared(n) ELSE n
    BY <1>1 DEF WithoutRecord
  <2>7. CASE t = s /\ Gone(a, s, V, X, Z, q)
    BY <2>2, <2>3, <2>5, <2>6, <2>7
  <2>8. CASE t = s /\ ~Gone(a, s, V, X, Z, q)
    BY <2>2, <2>5, <2>6, <2>8
  <2>9. CASE t # s
    BY <2>2, <2>4, <2>6, <2>9
  <2> QED BY <2>7, <2>8, <2>9
<1>4. /\ e.ver = {v \in a.ver : v.id \notin Y} /\ e.idx = a.idx \ Y /\ e.gen = a.gen
      /\ \A t \in Scopes : t # s => e.tomb[t] = a.tomb[t]
  BY <1>1 DEF Trimmed, WithoutRecord
<1> QED BY <1>2, <1>3, <1>4 DEF Trimmed, e

LEMMA EraseRecordProgress ==
  ASSUME NEW a \in Database, ProductsAgree(a), NEW S \in SUBSET Keys, NEW I,
         NEW V, NEW X, NEW Z, work \in WorkType, Progress(work, a, S, I, V, X, Z),
         EraseRecord
  PROVE  /\ work' \in WorkType /\ SameRun(work, work') /\ UNCHANGED <<db, clock>>
         /\ Progress(work', a, S, I, V, X \cup {work.current}, Z)
<1> DEFINE w == work
           x == work'
           s == work.s
           e == CutRecord(w.d, w.current)
           Y == X \cup {w.current}
<1>0. /\ w \in WorkType /\ w.d \in Database /\ s \in Scopes /\ w.current \in RecIds \cup {NoRec}
      /\ V \subseteq Keys /\ X \subseteq Present(a, s)
      /\ Trimmed(a, w.d, s, V, X, Z) /\ Blocks(w, a, V)
      /\ Sound(w, a, S, I, V, X, Z) /\ Complete(w, a, S, I, V, X)
  BY DEF WorkType, Progress
<1>1. /\ w.keys = {} /\ w.seen = {} /\ w.current # NoRec /\ w.own = {}
      /\ x = [w EXCEPT !.current = NoRec, !.d = e] /\ UNCHANGED <<db, clock>>
  BY DEF EraseRecord, BetweenKeys, Stage
<1>2. w.current \in RecIds /\ w.current \in ErasedBy(a, s, S, I) /\ w.current \in Present(a, s)
  BY <1>0, <1>1 DEF Sound, ErasedBy
<1>3. e \in Database /\ e.tomb = w.d.tomb
  BY <1>0, <1>2, CutRecordFields DEF WithoutRecord
<1>4. Trimmed(a, e, s, V, Y, Z)
  BY <1>0, <1>2, EraseRecordTrims
<1> HIDE DEF e
<1>5. /\ x \in WorkType /\ SameRun(w, x)
      /\ x.keys = {} /\ x.seen = {} /\ x.d = e /\ x.ids = w.ids
      /\ x.erased = w.erased /\ x.current = NoRec /\ x.own = {}
  BY <1>0, <1>1, <1>3 DEF WorkType, SameRun
<1>6. x.s = s /\ x.block = w.block /\ Waiting(x) = Waiting(w)
  BY <1>5 DEF SameRun, Waiting
<1>7. Sound(x, a, S, I, V, Y, Z)
  BY <1>0, <1>1, <1>2, <1>5, <1>6 DEF Sound
<1>8. Complete(x, a, S, I, V, Y)
  BY <1>0, <1>1, <1>2, <1>5, <1>6 DEF Complete
<1>9. Blocks(x, a, V)
  BY <1>0, <1>1, <1>3, <1>5, <1>6 DEF Blocks
<1>10. Y \subseteq Present(a, s)
  BY <1>0, <1>2
<1> QED BY <1>0, <1>1, <1>4, <1>5, <1>6, <1>7, <1>8, <1>9, <1>10 DEF Progress

LEMMA WorkStepProgress ==
  ASSUME NEW a \in Database, ProductsAgree(a), NEW S \in SUBSET Keys, NEW I,
         NEW V, NEW X, NEW Z, work \in WorkType, Progress(work, a, S, I, V, X, Z),
         WorkStep
  PROVE  /\ work' \in WorkType /\ SameRun(work, work') /\ UNCHANGED <<db, clock>>
         /\ \E W, Y : Progress(work', a, S, I, W, Y, Z)
<1>1. CASE \E k \in Keys : VisitKey(k)
  BY <1>1, VisitKeyProgress
<1>2. CASE \E k \in Keys : TakeOwnKey(k)
  BY <1>2, TakeOwnKeyProgress
<1>3. CASE \E r \in RecIds : TakeRecord(r)
  BY <1>3, TakeRecordProgress
<1>4. CASE KeysVisited
  BY <1>4, KeysVisitedProgress
<1>5. CASE EraseRecord
  BY <1>5, EraseRecordProgress
<1> QED BY <1>1, <1>2, <1>3, <1>4, <1>5 DEF WorkStep

-----------------------------------------------------------------------------
(* When the worklists are empty.                                           *)

LEMMA SameDatabase ==
  ASSUME NEW d \in Database, NEW e \in Database,
         d.ver = e.ver, d.idx = e.idx, d.gen = e.gen,
         \A r \in RecIds : d.rec[r] = e.rec[r] /\ d.deps[r] = e.deps[r],
         \A t \in Scopes : d.tomb[t] = e.tomb[t],
         \A t \in Scopes, q \in Deliveries : d.obs[t][q] = e.obs[t][q]
  PROVE  d = e
<1>1. d.rec = e.rec /\ d.deps = e.deps
  BY DEF Database
<1>2. d.tomb = e.tomb
  BY DEF Database
<1>3. \A t \in Scopes : d.obs[t] = e.obs[t]
  BY DEF Database
<1>4. d.obs = e.obs
  BY <1>3 DEF Database
<1> QED BY <1>1, <1>2, <1>4 DEF Database

\* Nothing is left to visit, to look for, to take or to erase.
Ended(w) ==
  w.keys = {} /\ w.seen = {} /\ w.current = NoRec /\ w.ids \subseteq w.erased /\ Waiting(w) = {}

\* Then what was visited is the closure.
LEMMA EndedReached ==
  ASSUME NEW a \in Database, NEW S \in SUBSET Keys, NEW I, NEW V, NEW X, NEW Z,
         NEW w \in WorkType, Progress(w, a, S, I, V, X, Z), Ended(w)
  PROVE  /\ V = Reached(a, w.s, S, I) /\ X = ErasedBy(a, w.s, S, I)
         /\ w.d.tomb[w.s] = IF w.block THEN a.tomb[w.s] \cup V ELSE a.tomb[w.s]
<1> DEFINE s == w.s
           K == Reached(a, s, S, I)
           R == ErasedBy(a, s, S, I)
<1>1. /\ V \subseteq Keys /\ X \subseteq Present(a, s) /\ s \in Scopes
      /\ Trimmed(a, w.d, s, V, X, Z) /\ Blocks(w, a, V)
      /\ Sound(w, a, S, I, V, X, Z) /\ Complete(w, a, S, I, V, X)
  BY DEF Progress, WorkType
<1>2. /\ w.keys = {} /\ w.seen = {} /\ w.current = NoRec /\ w.ids \subseteq w.erased
      /\ Waiting(w) = {}
  BY DEF Ended
<1>3. \A r \in Present(a, s) : r \in w.ids => r \in X
  BY <1>1, <1>2, StoreAssumption DEF Complete, Present
<1>4. Closed(a, s, V)
  BY <1>1, <1>2, <1>3 DEF Complete, Closed
<1>5. \A r \in I \cap Present(a, s) : OwnKeys(a, s, r) \subseteq V
  BY <1>1, <1>3 DEF Complete
<1>6. S \subseteq V
  BY <1>1, <1>2 DEF Complete
<1>7. K \subseteq V
  BY <1>1, <1>4, <1>5, <1>6, ReachedLeast
<1>8. V = K /\ X \subseteq R
  BY <1>1, <1>7 DEF Sound
<1>9. R \subseteq X
  <2>1. ASSUME NEW r \in R PROVE r \in X
    <3>1. r \in Present(a, s) /\ (r \in I \/ a.deps[r] \cap K # {})
      BY DEF ErasedBy
    <3> HIDE DEF K
    <3> QED BY <1>1, <1>2, <1>3, <1>8, <3>1 DEF Complete
  <2> QED BY <2>1
<1>10. w.d.tomb[s] = IF w.block THEN a.tomb[s] \cup V ELSE a.tomb[s]
  BY <1>1, <1>2 DEF Blocks
<1> QED BY <1>8, <1>9, <1>10

\* d is a without the closure of S and I, and without the captures of Z.
TrimmedBy(a, d, s, S, I, block, Z) ==
  /\ Trimmed(a, d, s, Reached(a, s, S, I), ErasedBy(a, s, S, I), Z)
  /\ d.tomb[s] = IF block THEN a.tomb[s] \cup Reached(a, s, S, I) ELSE a.tomb[s]

\* A database trimmed of the closure is a purged one; the captures of the
\* events Z have been cleared on the way, those of Y will be at the end.
LEMMA TrimmedPurge ==
  ASSUME NEW a \in Database, NEW d \in Database, NEW s \in Scopes, NEW S, NEW I,
         NEW block \in BOOLEAN, NEW Y, NEW Z, NEW T,
         TrimmedBy(a, d, s, S, I, block, Z), T = Z \cup Y
  PROVE  ClearSource(d, s, Y) = ClearSource(Purge(a, s, S, I, block), s, T)
<1> DEFINE K == Reached(a, s, S, I)
           R == ErasedBy(a, s, S, I)
           e == Purge(a, s, S, I, block)
           x == ClearSource(d, s, Y)
           y == ClearSource(e, s, T)
<1>1. Purged(a, e, s, K, R, block) /\ e \in Database
  BY PurgeFields, PurgeType
<1>2. Trimmed(a, d, s, K, R, Z) /\ d.tomb[s] = IF block THEN a.tomb[s] \cup K ELSE a.tomb[s]
  BY DEF TrimmedBy
<1> HIDE DEF K, R, e
<1>3. x \in Database /\ y \in Database
  BY <1>1, ClearSourceType
<1>4. /\ x.rec = d.rec /\ x.ver = d.ver /\ x.idx = d.idx /\ x.deps = d.deps
      /\ x.tomb = d.tomb /\ x.gen = d.gen
      /\ y.rec = e.rec /\ y.ver = e.ver /\ y.idx = e.idx /\ y.deps = e.deps
      /\ y.tomb = e.tomb /\ y.gen = e.gen
  BY <1>1 DEF ClearSource, Database
<1>5. ASSUME NEW t \in Scopes, NEW q \in Deliveries
      PROVE  /\ x.obs[t][q] = IF t = s /\ q.key \in Y /\ d.obs[s][q].state # "absent"
                                THEN Cleared(d.obs[s][q]) ELSE d.obs[t][q]
             /\ y.obs[t][q] = IF t = s /\ q.key \in T /\ e.obs[s][q].state # "absent"
                                THEN Cleared(e.obs[s][q]) ELSE e.obs[t][q]
  BY <1>1 DEF ClearSource, Database
<1> HIDE DEF x, y
<1>6. ASSUME NEW t \in Scopes, NEW q \in Deliveries
      PROVE  x.obs[t][q] = y.obs[t][q]
  <2> DEFINE o == a.obs[t][q]
             lost == (o.live /\ Cites(q) \cap K # {}) \/ o.record \in R
  <2>1. o \in ObsRow
    BY DEF Database
  <2>2. Cleared(o).state = "deleted" /\ Cleared(Cleared(o)) = Cleared(o)
    BY <2>1, ClearedFields
  <2> DEFINE held == q.key \in Z /\ o.state # "absent"
  <2>3. d.obs[t][q] = IF t = s /\ (lost \/ held) THEN Cleared(o) ELSE o
    <3>1. d.obs[t][q] = IF t = s /\ Gone(a, s, K, R, Z, q) THEN Cleared(a.obs[s][q])
                                                            ELSE a.obs[t][q]
      BY <1>2 DEF Trimmed
    <3>2. CASE t = s
      <4>1. Gone(a, s, K, R, Z, q) <=> lost \/ held
        BY <3>2 DEF Gone
      <4> QED BY <3>1, <3>2, <4>1
    <3>3. CASE t # s
      BY <3>1, <3>3
    <3> QED BY <3>2, <3>3
  <2>4. e.obs[t][q] = IF t = s /\ lost THEN Cleared(o) ELSE o
    <3>1. e.obs[t][q] = IF /\ t = s
                           /\ \/ a.obs[s][q].live /\ Cites(q) \cap K # {}
                              \/ a.obs[s][q].record \in R
                          THEN Cleared(a.obs[s][q]) ELSE a.obs[t][q]
      BY <1>1 DEF Purged
    <3>2. CASE t = s
      BY <3>1, <3>2
    <3>3. CASE t # s
      BY <3>1, <3>3
    <3> QED BY <3>2, <3>3
  <2>8. t = s => o = a.obs[s][q]
    OBVIOUS
  <2>9. held <=> q.key \in Z /\ o.state # "absent"
    OBVIOUS
  <2> HIDE DEF lost, o, held
  <2>5. CASE t = s /\ lost
    <3>1. d.obs[s][q] = Cleared(o) /\ e.obs[s][q] = Cleared(o)
      BY <2>3, <2>4, <2>5
    <3> QED BY <1>5, <2>2, <2>5, <3>1
  <2>6. CASE t = s /\ ~lost
    <3>1. e.obs[s][q] = o /\ d.obs[s][q] = IF held THEN Cleared(o) ELSE o
      BY <2>3, <2>4, <2>6
    <3>2. CASE held
      BY <1>5, <2>2, <2>6, <2>9, <3>1, <3>2
    <3>3. CASE ~held
      BY <1>5, <2>6, <2>9, <3>1, <3>3
    <3> QED BY <3>2, <3>3
  <2>7. CASE t # s
    BY <1>5, <2>3, <2>4, <2>7
  <2> QED BY <2>5, <2>6, <2>7
<1>7. \A r \in RecIds : d.rec[r] = e.rec[r] /\ d.deps[r] = e.deps[r]
  BY <1>1, <1>2 DEF Trimmed, Purged
<1>8. ASSUME NEW t \in Scopes PROVE d.tomb[t] = e.tomb[t]
  <2>1. e.tomb[t] = IF t = s /\ block THEN a.tomb[s] \cup K ELSE a.tomb[t]
    BY <1>1 DEF Purged
  <2>2. t # s => d.tomb[t] = a.tomb[t]
    BY <1>2 DEF Trimmed
  <2> QED BY <1>2, <2>1, <2>2
<1>9. d.ver = e.ver /\ d.idx = e.idx /\ d.gen = e.gen
  BY <1>1, <1>2 DEF Trimmed, Purged
<1>10. x = y
  BY <1>3, <1>4, <1>6, <1>7, <1>8, <1>9, SameDatabase
<1> QED BY <1>10 DEF x, y, e

LEMMA ClearNothing ==
  ASSUME NEW d \in Database, NEW s \in Scopes
  PROVE  ClearSource(d, s, {}) = d
<1> DEFINE e == ClearSource(d, s, {})
<1>1. e \in Database
  BY ClearSourceType
<1>2. /\ e.rec = d.rec /\ e.ver = d.ver /\ e.idx = d.idx /\ e.deps = d.deps
      /\ e.tomb = d.tomb /\ e.gen = d.gen
      /\ \A t \in Scopes, q \in Deliveries : e.obs[t][q] = d.obs[t][q]
  BY DEF ClearSource, Database
<1> HIDE DEF e
<1>3. e = d
  BY <1>1, <1>2, SameDatabase
<1> QED BY <1>3 DEF e

LEMMA EndedTrimmed ==
  ASSUME NEW a \in Database, NEW S \in SUBSET Keys, NEW I, NEW V, NEW X, NEW Z,
         NEW w \in WorkType, Progress(w, a, S, I, V, X, Z), Ended(w)
  PROVE  TrimmedBy(a, w.d, w.s, S, I, w.block, Z)
<1>1. PICK d \in Database, s \in Scopes, block \in BOOLEAN :
        d = w.d /\ s = w.s /\ block = w.block
  BY DEF WorkType
<1>2. Trimmed(a, d, s, V, X, Z)
  BY <1>1 DEF Progress
<1>3. /\ V = Reached(a, s, S, I) /\ X = ErasedBy(a, s, S, I)
      /\ d.tomb[s] = IF block THEN a.tomb[s] \cup V ELSE a.tomb[s]
  <2>1. /\ V = Reached(a, w.s, S, I) /\ X = ErasedBy(a, w.s, S, I)
        /\ w.d.tomb[w.s] = IF w.block THEN a.tomb[w.s] \cup V ELSE a.tomb[w.s]
    BY EndedReached
  <2> QED BY <1>1, <2>1
<1>4. TrimmedBy(a, d, s, S, I, block, Z)
  BY <1>2, <1>3 DEF TrimmedBy
<1> QED BY <1>1, <1>4

LEMMA EndedCleared ==
  ASSUME NEW a \in Database, NEW S \in SUBSET Keys, NEW I, NEW V, NEW X, NEW Y, NEW Z,
         NEW T, NEW w \in WorkType, Progress(w, a, S, I, V, X, Z), Ended(w), T = Z \cup Y
  PROVE  ClearSource(w.d, w.s, Y) = ClearSource(Purge(a, w.s, S, I, w.block), w.s, T)
<1>1. PICK d \in Database, s \in Scopes, block \in BOOLEAN :
        d = w.d /\ s = w.s /\ block = w.block
  BY DEF WorkType
<1>2. TrimmedBy(a, d, s, S, I, block, Z)
  BY <1>1, EndedTrimmed
<1>3. ClearSource(d, s, Y) = ClearSource(Purge(a, s, S, I, block), s, T)
  BY <1>2, TrimmedPurge
<1> QED BY <1>1, <1>3

LEMMA EndedPurge ==
  ASSUME NEW a \in Database, NEW S \in SUBSET Keys, NEW I, NEW V, NEW X,
         NEW w \in WorkType, Progress(w, a, S, I, V, X, {}), Ended(w)
  PROVE  w.d = Purge(a, w.s, S, I, w.block)
<1>1. PICK d \in Database, s \in Scopes, block \in BOOLEAN :
        d = w.d /\ s = w.s /\ block = w.block
  BY DEF WorkType
<1>2. PICK e \in Database : e = Purge(a, s, S, I, block)
  BY PurgeType
<1>3. TrimmedBy(a, d, s, S, I, block, {})
  BY <1>1, EndedTrimmed
<1>4. PICK none \in SUBSET Keys : none = {} /\ none = none \cup none
  OBVIOUS
<1>5. ClearSource(d, s, none) = ClearSource(Purge(a, s, S, I, block), s, none)
  BY <1>3, <1>4, TrimmedPurge
<1>6. ClearSource(d, s, {}) = d /\ ClearSource(e, s, {}) = e
  BY ClearNothing
<1> QED BY <1>1, <1>2, <1>4, <1>5, <1>6

\* Nothing is removed for no key and no record.
LEMMA PurgeNothing ==
  ASSUME NEW d \in Database, NEW s \in Scopes, NEW block \in BOOLEAN
  PROVE  Purge(d, s, {}, {}, block) = d
<1> DEFINE e == Purge(d, s, {}, {}, block)
           K == Reached(d, s, {}, {})
           R == ErasedBy(d, s, {}, {})
<1>1. Closed(d, s, {})
  BY DEF Closed
<1>2. PICK none \in SUBSET Keys : none = {}
  OBVIOUS
<1>3. K \subseteq {}
  <2>1. Reached(d, s, none, none) \subseteq none
    BY <1>1, <1>2, ReachedLeast
  <2> QED BY <1>2, <2>1
<1>4. R = {}
  BY <1>3 DEF ErasedBy
<1>5. Purged(d, e, s, K, R, block) /\ e \in Database
  BY PurgeFields, PurgeType
<1> HIDE DEF K, R, e
<1>6. /\ e.ver = d.ver /\ e.idx = d.idx /\ e.gen = d.gen
      /\ \A r \in RecIds : e.rec[r] = d.rec[r] /\ e.deps[r] = d.deps[r]
      /\ \A t \in Scopes : e.tomb[t] = d.tomb[t]
      /\ \A t \in Scopes, q \in Deliveries : e.obs[t][q] = d.obs[t][q]
  <2>1. {v \in d.ver : v.id \notin R} = d.ver /\ d.idx \ R = d.idx
    BY <1>4
  <2>2. ASSUME NEW t \in Scopes, NEW q \in Deliveries PROVE e.obs[t][q] = d.obs[t][q]
    <3>1. Cites(q) \cap K = {} /\ d.obs[s][q].record \notin R
      BY <1>3, <1>4
    <3> QED BY <1>5, <3>1 DEF Purged
  <2>3. ASSUME NEW t \in Scopes PROVE e.tomb[t] = d.tomb[t]
    <3>1. e.tomb[t] = IF t = s /\ block THEN d.tomb[s] \cup K ELSE d.tomb[t]
      BY <1>5 DEF Purged
    <3>2. d.tomb[s] \cup K = d.tomb[s]
      BY <1>3
    <3> QED BY <3>1, <3>2
  <2> QED BY <1>4, <1>5, <2>1, <2>2, <2>3 DEF Purged
<1>7. e = d
  BY <1>5, <1>6, SameDatabase
<1> QED BY <1>7 DEF e

\* The starting keys are in the closure.
LEMMA ReachedStart ==
  ASSUME NEW d, NEW s, NEW S \in SUBSET Keys, NEW I
  PROVE  S \subseteq Reached(d, s, S, I)
<1> DEFINE T == S \cup UNION {OwnKeys(d, s, r) : r \in I \cap Present(d, s)}
<1>1. S \subseteq T
  OBVIOUS
<1>2. Reached(d, s, S, I) = {k \in Keys : \A B \in SUBSET Keys :
                               T \subseteq B /\ Closed(d, s, B) => k \in B}
  BY DEF Reached, Closure
<1> HIDE DEF T
<1> QED BY <1>1, <1>2

-----------------------------------------------------------------------------
(* The worklists at the start of an erase, and between two targets.        *)

Started(x, s, then, d, keys, ids, block) ==
  x = [s |-> s, then |-> then, d |-> d, block |-> block, keys |-> keys, seen |-> {},
       ids |-> ids, erased |-> {}, current |-> NoRec, own |-> {}]

LEMMA StartedFields ==
  ASSUME NEW s \in Scopes, NEW then \in Thens, NEW d \in Database, NEW keys \in SUBSET Keys,
         NEW ids \in SUBSET RecIds, NEW block \in BOOLEAN, NEW x,
         Started(x, s, then, d, keys, ids, block)
  PROVE  /\ x \in WorkType
         /\ x.s = s /\ x.then = then /\ x.d = d /\ x.block = block /\ x.keys = keys
         /\ x.seen = {} /\ x.ids = ids /\ x.erased = {} /\ x.current = NoRec /\ x.own = {}
BY DEF Started, WorkType

LEMMA StartedProgress ==
  ASSUME NEW s \in Scopes, NEW then \in Thens, NEW a \in Database, NEW keys \in SUBSET Keys,
         NEW ids \in SUBSET RecIds, NEW block \in BOOLEAN, NEW S \in SUBSET Keys, NEW x,
         Started(x, s, then, a, keys, ids, block), S = keys \cup Waiting(x)
  PROVE  x \in WorkType /\ Progress(x, a, S, ids, {}, {}, {})
<1>1. /\ x \in WorkType
      /\ x.s = s /\ x.d = a /\ x.block = block /\ x.keys = keys
      /\ x.seen = {} /\ x.ids = ids /\ x.erased = {} /\ x.current = NoRec /\ x.own = {}
  BY DEF Started, WorkType
<1>2. keys \subseteq Reached(a, s, S, ids)
  BY ReachedStart
<1>3. ids \cap Present(a, s) \subseteq ErasedBy(a, s, S, ids)
  BY DEF ErasedBy
<1>4. Trimmed(a, a, s, {}, {}, {})
  <2>1. \A q : ~Gone(a, s, {}, {}, {}, q)
    BY DEF Gone
  <2> QED BY <2>1 DEF Trimmed
<1>5. Blocks(x, a, {})
  BY <1>1 DEF Blocks
<1>6. Sound(x, a, S, ids, {}, {}, {})
  BY <1>1, <1>2, <1>3 DEF Sound
<1>7. Complete(x, a, S, ids, {}, {})
  BY <1>1 DEF Complete
<1> QED BY <1>1, <1>4, <1>5, <1>6, <1>7 DEF Progress

\* The capture of the target that has been taken, too.
LEMMA ClearTrims ==
  ASSUME NEW a \in Database, NEW d \in Database, NEW s \in Scopes, NEW V, NEW X, NEW Z,
         NEW c, Trimmed(a, d, s, V, X, Z)
  PROVE  Trimmed(a, ClearSource(d, s, {c}), s, V, X, Z \cup {c})
<1> DEFINE e == ClearSource(d, s, {c})
           Y == Z \cup {c}
<1>1. /\ e.rec = d.rec /\ e.ver = d.ver /\ e.idx = d.idx /\ e.deps = d.deps
      /\ e.tomb = d.tomb /\ e.gen = d.gen
  BY DEF ClearSource, Database
<1>2. \A t \in Scopes, q \in Deliveries :
        e.obs[t][q] = IF t = s /\ q.key = c /\ d.obs[s][q].state # "absent"
                        THEN Cleared(d.obs[s][q]) ELSE d.obs[t][q]
  BY DEF ClearSource, Database
<1> HIDE DEF e
<1>3. ASSUME NEW t \in Scopes, NEW q \in Deliveries
      PROVE  e.obs[t][q] = IF t = s /\ Gone(a, s, V, X, Y, q) THEN Cleared(a.obs[s][q])
                                                              ELSE a.obs[t][q]
  <2>1. CASE t # s
    <3>1. e.obs[t][q] = d.obs[t][q]
      BY <1>2, <2>1
    <3>2. d.obs[t][q] = a.obs[t][q]
      BY <2>1 DEF Trimmed
    <3> QED BY <2>1, <3>1, <3>2
  <2>2. CASE t = s
    <3> DEFINE o == a.obs[s][q]
               n == d.obs[s][q]
    <3>1. /\ Cleared(o).state = "deleted" /\ Cleared(Cleared(o)) = Cleared(o)
      <4>1. o \in ObsRow
        BY DEF Database
      <4> QED BY <4>1, ClearedFields
    <3>2. n = IF Gone(a, s, V, X, Z, q) THEN Cleared(o) ELSE o
      BY DEF Trimmed
    <3>3. Gone(a, s, V, X, Y, q) <=>
            Gone(a, s, V, X, Z, q) \/ (q.key = c /\ o.state # "absent")
      BY DEF Gone
    <3>4. e.obs[t][q] = IF q.key = c /\ n.state # "absent" THEN Cleared(n) ELSE n
      BY <1>2, <2>2
    <3>5. a.obs[t][q] = o
      BY <2>2
    <3> HIDE DEF o, n
    <3>6. CASE Gone(a, s, V, X, Z, q)
      BY <2>2, <3>1, <3>2, <3>3, <3>4, <3>6 DEF o
    <3>7. CASE ~Gone(a, s, V, X, Z, q)
      BY <2>2, <3>2, <3>3, <3>4, <3>5, <3>7 DEF o
    <3> QED BY <3>6, <3>7
  <2> QED BY <2>1, <2>2
<1> HIDE DEF Y
<1>4. Trimmed(a, e, s, V, X, Y)
  BY <1>1, <1>3 DEF Trimmed
<1> QED BY <1>4 DEF e, Y

\* The next target is visited over what the earlier ones have left, with
\* worklists of its own.
LEMMA NextTargetProgress ==
  ASSUME NEW a \in Database, NEW S \in SUBSET Keys, NEW V, NEW X, NEW Z,
         NEW w \in WorkType, Progress(w, a, S, {}, V, X, Z),
         w.keys = {}, w.seen = {}, w.current = NoRec, w.ids \subseteq w.erased,
         w.then.step = "clear", w.block, w.then.targets \subseteq S,
         w.then.cleared \in S, w.then.cleared \notin w.then.targets,
         NEW t \in w.then.targets, NEW next \in Thens,
         next.step = "clear", next.targets = w.then.targets \ {t}, NEW x,
         Started(x, w.s, next, ClearSource(w.d, w.s, {w.then.cleared}), {t}, {}, TRUE)
  PROVE  x \in WorkType /\ Progress(x, a, S, {}, V, X, Z \cup {w.then.cleared})
<1> DEFINE s == w.s
           c == w.then.cleared
           e == ClearSource(w.d, s, {c})
           Y == Z \cup {c}
<1>1. /\ V \subseteq Keys /\ X \subseteq Present(a, s)
      /\ Trimmed(a, w.d, s, V, X, Z) /\ Blocks(w, a, V)
      /\ Sound(w, a, S, {}, V, X, Z) /\ Complete(w, a, S, {}, V, X)
  BY DEF Progress
<1>2. w.d \in Database /\ s \in Scopes /\ Waiting(w) = w.then.targets
  BY DEF WorkType, Waiting
<1>3. e \in Database /\ e.tomb = w.d.tomb
  BY <1>2, ClearSourceType, ClearSourceObs
<1>4. Trimmed(a, e, s, V, X, Y)
  BY <1>1, <1>2, ClearTrims
<1>5. x = [s |-> s, then |-> next, d |-> e, block |-> TRUE, keys |-> {t}, seen |-> {},
           ids |-> {}, erased |-> {}, current |-> NoRec, own |-> {}]
  BY DEF Started
<1> HIDE DEF e
<1>6. /\ x \in WorkType
      /\ x.s = s /\ x.then = next /\ x.d = e /\ x.block = TRUE /\ x.keys = {t}
      /\ x.seen = {} /\ x.ids = {} /\ x.erased = {} /\ x.current = NoRec /\ x.own = {}
  BY <1>2, <1>3, <1>5 DEF WorkType
<1>7. Waiting(x) = w.then.targets \ {t}
  BY <1>6 DEF Waiting
<1>8. c \in V
  BY <1>1, <1>2 DEF Complete
<1>9. t \in Reached(a, s, S, {})
  BY ReachedStart
<1>10. Sound(x, a, S, {}, V, X, Y)
  BY <1>1, <1>6, <1>8, <1>9 DEF Sound
<1>11. Blocks(x, a, V)
  BY <1>1, <1>3, <1>6 DEF Blocks
<1>12. Complete(x, a, S, {}, V, X)
  <2>1. \A r \in Present(a, s) : r \in w.ids => r \in X
    BY <1>1, StoreAssumption DEF Complete, Present
  <2>2. S \subseteq V \cup x.keys \cup Waiting(x)
    BY <1>1, <1>2, <1>6, <1>7 DEF Complete
  <2> QED BY <1>1, <1>6, <2>1, <2>2 DEF Complete
<1> QED BY <1>1, <1>4, <1>6, <1>10, <1>11, <1>12 DEF Progress

-----------------------------------------------------------------------------
(* What the open transaction is about: over the database D of the last     *)
(* commit, which operation of the store it is, the database a in which its *)
(* current erase started, and the keys S and the records I it started      *)
(* from.                                                                   *)

Arriving(D, now, s, q) ==
  now <= LastArrival /\ s \in HostScopes /\ D.obs[s][q].state = "absent" /\ q.key \notin D.tomb[s]

Forgetting(w, D, a, S, I) ==
  /\ w.then.step = "forget" /\ w.block
  /\ a = D /\ S = {}
  /\ I # {} /\ Cardinality(I) <= ForgetLimit
  /\ \A r \in I : r \in Present(D, w.s) /\ D.rec[r].status # "deleted"

Cancelling(w, D, now, a, S, I) ==
  /\ w.then.step = "cancel" /\ w.block
  /\ \E q \in Deliveries :
       /\ <<w.s, q>> \in NextJobs(D, now) /\ Blocked(D, w.s, Cites(q))
       /\ a = Sweep(D, now) /\ S = {q.key} /\ I = {}

\* observe, before its invalidation: what an earlier capture left.
Superseding(w, D, now, q, a, S, I) ==
  /\ w.then.step = "clear" /\ ~w.block /\ w.then.delivery = q
  /\ Arriving(D, now, w.s, q) /\ w.then.refused = Refused(D, w.s, q)
  /\ w.then.cleared = q.key
  /\ w.then.targets = IF q.class = "invalidated" THEN q.targets ELSE {}
  /\ a = D /\ S = {q.key} /\ I = Previous(D, w.s, q)

\* Its targets, one by one: those of Z are done.
Invalidating(w, D, now, q, a, S, I, Z) ==
  /\ w.then.step = "clear" /\ w.block /\ w.then.delivery = q
  /\ Arriving(D, now, w.s, q) /\ w.then.refused = Refused(D, w.s, q)
  /\ q.class = "invalidated"
  /\ w.then.cleared \in S \ w.then.targets /\ w.then.targets \subseteq S
  /\ S = Z \cup {w.then.cleared} \cup w.then.targets
  /\ a = Superseded(D, w.s, q) /\ S = q.targets /\ I = {}

\* A row that a blocked source takes away again.
Refusing(w, D, now, q, a, S, I) ==
  /\ w.then.step = "refuse" /\ w.block
  /\ Arriving(D, now, w.s, q) /\ Refused(D, w.s, q)
  /\ a = Insert(Invalidated(Superseded(D, w.s, q), w.s, q), w.s, q, now)
  /\ S = {q.key} /\ I = {}

Aim(w, D, now, a, S, I, Z) ==
  \/ Z = {} /\ Forgetting(w, D, a, S, I)
  \/ Z = {} /\ Cancelling(w, D, now, a, S, I)
  \/ \E q \in Deliveries :
       \/ Z = {} /\ Superseding(w, D, now, q, a, S, I)
       \/ Invalidating(w, D, now, q, a, S, I, Z)
       \/ Z = {} /\ Refusing(w, D, now, q, a, S, I)

Open(w, D, now) ==
  \E a \in Database, S \in SUBSET Keys, I \in SUBSET RecIds : \E V, X, Z :
    ProductsAgree(a) /\ Aim(w, D, now, a, S, I, Z) /\ Progress(w, a, S, I, V, X, Z)

LEMMA AimKept ==
  ASSUME NEW w, NEW x, SameRun(w, x), NEW D, NEW now, NEW a, NEW S, NEW I, NEW Z,
         Aim(w, D, now, a, S, I, Z)
  PROVE  Aim(x, D, now, a, S, I, Z)
<1>1. x.s = w.s /\ x.then = w.then /\ x.block = w.block
  BY DEF SameRun
<1>2. Forgetting(w, D, a, S, I) => Forgetting(x, D, a, S, I)
  BY <1>1 DEF Forgetting
<1>3. Cancelling(w, D, now, a, S, I) => Cancelling(x, D, now, a, S, I)
  BY <1>1 DEF Cancelling
<1>4. ASSUME NEW q
      PROVE  /\ Superseding(w, D, now, q, a, S, I) => Superseding(x, D, now, q, a, S, I)
             /\ Invalidating(w, D, now, q, a, S, I, Z) => Invalidating(x, D, now, q, a, S, I, Z)
             /\ Refusing(w, D, now, q, a, S, I) => Refusing(x, D, now, q, a, S, I)
  BY <1>1 DEF Superseding, Invalidating, Refusing
<1> QED BY <1>2, <1>3, <1>4 DEF Aim

LEMMA StartedOpen ==
  ASSUME NEW s \in Scopes, NEW then \in Thens, NEW a \in Database, NEW keys \in SUBSET Keys,
         NEW ids \in SUBSET RecIds, NEW block \in BOOLEAN, NEW S \in SUBSET Keys, NEW x,
         NEW D, NEW now,
         Started(x, s, then, a, keys, ids, block), S = keys \cup Waiting(x),
         ProductsAgree(a), Aim(x, D, now, a, S, ids, {})
  PROVE  x \in WorkType /\ Open(x, D, now)
<1>1. x \in WorkType /\ Progress(x, a, S, ids, {}, {}, {})
  BY StartedProgress
<1> QED BY <1>1 DEF Open

-----------------------------------------------------------------------------
(* Transactions that begin.                                                *)

LEMMA BeginForgetOpens ==
  ASSUME TypeInv, Consistent(db), NEW s \in Scopes, NEW ids \in SUBSET RecIds,
         BeginForget(s, ids)
  PROVE  work' \in WorkType /\ Open(work', db, clock) /\ UNCHANGED <<db, clock>>
<1> DEFINE then == [step |-> "forget"]
<1>1. /\ Started(work', s, then, db, {}, ids, TRUE) /\ UNCHANGED <<db, clock>>
      /\ ids # {} /\ Cardinality(ids) <= ForgetLimit
      /\ \A r \in ids : r \in Present(db, s) /\ db.rec[r].status # "deleted"
  BY DEF BeginForget, Begin, Started
<1>2. then \in Thens /\ db \in Database /\ ProductsAgree(db)
  BY DEF Thens, TypeInv, TypeOK, Consistent
<1>3. work'.s = s /\ work'.then.step = "forget" /\ work'.block /\ {} \cup Waiting(work') = {}
  BY <1>1 DEF Started, Waiting
<1>4. Forgetting(work', db, db, {}, ids)
  BY <1>1, <1>3 DEF Forgetting
<1>5. Aim(work', db, clock, db, {}, ids, {})
  BY <1>4 DEF Aim
<1> QED BY <1>1, <1>2, <1>3, <1>5, StartedOpen

LEMMA BeginCancelOpens ==
  ASSUME TypeInv, Consistent(db), NEW s \in Scopes, NEW q \in Deliveries, BeginCancel(s, q)
  PROVE  work' \in WorkType /\ Open(work', db, clock) /\ UNCHANGED <<db, clock>>
<1> DEFINE then == [step |-> "cancel"]
           a == Sweep(db, clock)
<1>1. /\ Started(work', s, then, a, {q.key}, {}, TRUE) /\ UNCHANGED <<db, clock>>
      /\ <<s, q>> \in NextJobs(db, clock) /\ Blocked(db, s, Cites(q))
  BY DEF BeginCancel, Begin, Started
<1>2. a \in Database /\ ProductsAgree(a)
  BY SweepType, SweepConsistent DEF TypeInv, TypeOK, Consistent
<1>3. then \in Thens /\ {q.key} \in SUBSET Keys
  BY StoreAssumption DEF Thens, Delivery
<1>4. /\ work'.s = s /\ work'.then.step = "cancel" /\ work'.block
      /\ {q.key} \cup Waiting(work') = {q.key}
  BY <1>1 DEF Started, Waiting
<1>5. Cancelling(work', db, clock, a, {q.key}, {})
  BY <1>1, <1>4 DEF Cancelling
<1>6. Aim(work', db, clock, a, {q.key}, {}, {})
  BY <1>5 DEF Aim
<1> HIDE DEF a, then
<1> QED BY <1>1, <1>2, <1>3, <1>4, <1>6, StartedOpen

LEMMA BeginObserveOpens ==
  ASSUME TypeInv, Consistent(db), NEW s \in Scopes, NEW q \in Deliveries, BeginObserve(s, q)
  PROVE  work' \in WorkType /\ Open(work', db, clock) /\ UNCHANGED <<db, clock>>
<1> DEFINE targets == IF q.class = "invalidated" THEN q.targets ELSE {}
           then == [step |-> "clear", delivery |-> q, refused |-> Refused(db, s, q),
                    cleared |-> q.key, targets |-> targets]
           I == Previous(db, s, q)
<1>1. /\ Started(work', s, then, db, {q.key}, I, FALSE) /\ UNCHANGED <<db, clock>>
      /\ Arriving(db, clock, s, q)
  BY DEF BeginObserve, Begin, Started, Arriving
<1>2. db \in Database /\ ProductsAgree(db)
  BY DEF TypeInv, TypeOK, Consistent
<1>3. {q.key} \in SUBSET Keys /\ targets \in SUBSET Keys
  BY StoreAssumption DEF Delivery
<1>4. then \in Thens
  <2>1. Refused(db, s, q) \in BOOLEAN
    BY DEF Refused
  <2> QED BY <1>3, <2>1 DEF Thens
<1>5. I \in SUBSET RecIds
  <2>1. \A p \in Deliveries : db.obs[s][p].record \in RecIds \cup {NoRec}
    BY <1>2 DEF Database, ObsRow
  <2> QED BY <2>1 DEF Previous
<1>6. /\ work'.s = s /\ work'.then = then /\ ~work'.block
      /\ {q.key} \cup Waiting(work') = {q.key}
  BY <1>1 DEF Started, Waiting
<1>7. Superseding(work', db, clock, q, db, {q.key}, I)
  BY <1>1, <1>6 DEF Superseding
<1> HIDE DEF I, then
<1>8. Aim(work', db, clock, db, {q.key}, I, {})
  BY <1>7 DEF Aim
<1> QED BY <1>1, <1>2, <1>3, <1>4, <1>5, <1>6, <1>8, StartedOpen

-----------------------------------------------------------------------------
(* Steps within a transaction.                                             *)

LEMMA WorkStepOpens ==
  ASSUME work \in WorkType, Open(work, db, clock), WorkStep
  PROVE  work' \in WorkType /\ Open(work', db, clock) /\ UNCHANGED <<db, clock>>
<1>1. PICK a \in Database, S \in SUBSET Keys, I \in SUBSET RecIds : \E V, X, Z :
        ProductsAgree(a) /\ Aim(work, db, clock, a, S, I, Z) /\ Progress(work, a, S, I, V, X, Z)
  BY DEF Open
<1>2. PICK V, X, Z :
        ProductsAgree(a) /\ Aim(work, db, clock, a, S, I, Z) /\ Progress(work, a, S, I, V, X, Z)
  BY <1>1
<1>3. /\ work' \in WorkType /\ SameRun(work, work') /\ UNCHANGED <<db, clock>>
      /\ \E W, Y : Progress(work', a, S, I, W, Y, Z)
  BY <1>2, WorkStepProgress
<1>4. Aim(work', db, clock, a, S, I, Z)
  BY <1>2, <1>3, AimKept
<1> QED BY <1>2, <1>3, <1>4 DEF Open

\* An erase that has returned, within the transaction that began it.
LEMMA AfterEnded ==
  ASSUME NEW step, After(step), step # "clear" \/ ~work.block \/ work.then.targets = {}
  PROVE  Ended(work) /\ work.then.step = step
BY DEF After, Erased, BetweenKeys, Ended, Waiting

LEMMA EndForgetStores ==
  ASSUME work \in WorkType, Open(work, db, clock), EndForget
  PROVE  Next /\ work' = NoWork
<1>1. PICK a \in Database, S \in SUBSET Keys, I \in SUBSET RecIds : \E V, X, Z :
        ProductsAgree(a) /\ Aim(work, db, clock, a, S, I, Z) /\ Progress(work, a, S, I, V, X, Z)
  BY DEF Open
<1>2. PICK V, X, Z : Aim(work, db, clock, a, S, I, Z) /\ Progress(work, a, S, I, V, X, Z)
  BY <1>1
<1>3. /\ After("forget") /\ work' = NoWork /\ UNCHANGED clock
      /\ db' = Bump(Reconcile(work.d, {work.s}, Groups, clock))
  BY DEF EndForget, Commit
<1>4. Ended(work) /\ work.then.step = "forget"
  BY <1>3, AfterEnded
<1>5. Z = {} /\ Forgetting(work, db, a, S, I)
  BY <1>2, <1>4 DEF Aim, Cancelling, Superseding, Invalidating, Refusing
<1>6. work.d = Purge(db, work.s, {}, I, TRUE)
  <2>1. work.d = Purge(a, work.s, S, I, work.block)
    BY <1>2, <1>4, <1>5, EndedPurge
  <2>2. a = db /\ S = {} /\ work.block = TRUE
    BY <1>5 DEF Forgetting, WorkType
  <2> QED BY <2>1, <2>2
<1>7. Forget(work.s, I, [r \in I |-> db.rec[r].rev])
  BY <1>3, <1>5, <1>6 DEF Forget, Forgetting
<1> QED BY <1>3, <1>7 DEF Next, WorkType

LEMMA EndCancelStores ==
  ASSUME work \in WorkType, Open(work, db, clock), EndCancel
  PROVE  Next /\ work' = NoWork
<1>1. PICK a \in Database, S \in SUBSET Keys, I \in SUBSET RecIds : \E V, X, Z :
        ProductsAgree(a) /\ Aim(work, db, clock, a, S, I, Z) /\ Progress(work, a, S, I, V, X, Z)
  BY DEF Open
<1>2. PICK V, X, Z : Aim(work, db, clock, a, S, I, Z) /\ Progress(work, a, S, I, V, X, Z)
  BY <1>1
<1>3. After("cancel") /\ work' = NoWork /\ UNCHANGED clock /\ db' = work.d
  BY DEF EndCancel, Commit
<1>4. Ended(work) /\ work.then.step = "cancel"
  BY <1>3, AfterEnded
<1>5. Z = {} /\ Cancelling(work, db, clock, a, S, I)
  BY <1>2, <1>4 DEF Aim, Forgetting, Superseding, Invalidating, Refusing
<1>6. PICK q \in Deliveries :
        /\ <<work.s, q>> \in NextJobs(db, clock) /\ Blocked(db, work.s, Cites(q))
        /\ a = Sweep(db, clock) /\ S = {q.key} /\ I = {}
  BY <1>5 DEF Cancelling
<1>7. work.d = Purge(a, work.s, S, I, work.block)
  BY <1>2, <1>4, <1>5, EndedPurge
<1>8. work.block = TRUE
  BY <1>5 DEF Cancelling, WorkType
<1>9. db' = Purge(Sweep(db, clock), work.s, {q.key}, {}, TRUE)
  BY <1>3, <1>6, <1>7, <1>8
<1>10. MaintainCancel(work.s, q)
  BY <1>3, <1>6, <1>9 DEF MaintainCancel
<1> QED BY <1>3, <1>10 DEF Next, Maintain, WorkType

LEMMA EndRefuseStores ==
  ASSUME work \in WorkType, Open(work, db, clock), EndRefuse
  PROVE  Next /\ work' = NoWork
<1>1. PICK a \in Database, S \in SUBSET Keys, I \in SUBSET RecIds : \E V, X, Z :
        ProductsAgree(a) /\ Aim(work, db, clock, a, S, I, Z) /\ Progress(work, a, S, I, V, X, Z)
  BY DEF Open
<1>2. PICK V, X, Z : Aim(work, db, clock, a, S, I, Z) /\ Progress(work, a, S, I, V, X, Z)
  BY <1>1
<1>3. After("refuse") /\ work' = NoWork /\ UNCHANGED clock /\ db' = Bump(work.d)
  BY DEF EndRefuse, Commit
<1>4. Ended(work) /\ work.then.step = "refuse"
  BY <1>3, AfterEnded
<1>5. PICK q \in Deliveries : Z = {} /\ Refusing(work, db, clock, q, a, S, I)
  BY <1>2, <1>4 DEF Aim, Forgetting, Cancelling, Superseding, Invalidating
<1>6. work.d = Purge(a, work.s, S, I, work.block)
  BY <1>2, <1>4, <1>5, EndedPurge
<1>7. work.block = TRUE /\ S = {q.key} /\ I = {}
      /\ a = Insert(Invalidated(Superseded(db, work.s, q), work.s, q), work.s, q, clock)
      /\ Arriving(db, clock, work.s, q) /\ Refused(db, work.s, q)
  BY <1>5 DEF Refusing, WorkType
<1>8. db' = Bump(Purge(a, work.s, {q.key}, {}, TRUE))
  BY <1>3, <1>6, <1>7
<1>9. Observe(work.s, q)
  BY <1>3, <1>7, <1>8 DEF Observe, Arriving
<1> QED BY <1>3, <1>9 DEF Next, WorkType

-----------------------------------------------------------------------------
(* An observation: its earlier capture, its targets, its row.              *)

LEMMA ClearThen ==
  ASSUME work \in WorkType, work.then.step = "clear"
  PROVE  /\ work.then \in [step : {"clear"}, delivery : Deliveries, refused : BOOLEAN,
                           cleared : Keys, targets : SUBSET Keys]
         /\ work.d \in Database /\ work.s \in Scopes
BY DEF WorkType, Thens

LEMMA SupersedingEnded ==
  ASSUME TypeInv, work \in WorkType, NEW q \in Deliveries, NEW a, NEW S, NEW I, NEW V, NEW X,
         Superseding(work, db, clock, q, a, S, I), Progress(work, a, S, I, V, X, {}), Ended(work)
  PROVE  ClearSource(work.d, work.s, {work.then.cleared}) = Superseded(db, work.s, q)
<1>1. /\ a = db /\ S = {q.key} /\ I = Previous(db, work.s, q) /\ work.block = FALSE
      /\ work.then.cleared = q.key
  BY DEF Superseding, WorkType
<1>2. a \in Database /\ S \in SUBSET Keys
  BY <1>1, StoreAssumption DEF TypeInv, TypeOK, Delivery
<1>3. work.d = Purge(a, work.s, S, I, work.block)
  BY <1>2, EndedPurge
<1>4. work.d = Purge(db, work.s, {q.key}, Previous(db, work.s, q), FALSE)
  BY <1>1, <1>3
<1> QED BY <1>1, <1>4 DEF Superseded

\* After the first run, or after that of the last target.
LEMMA ClearedForRow ==
  ASSUME TypeInv, Consistent(db), work \in WorkType, Open(work, db, clock), After("clear"),
         work.then.targets = {}
  PROVE  LET q == work.then.delivery IN
         /\ q \in Deliveries /\ Arriving(db, clock, work.s, q)
         /\ work.then.refused = Refused(db, work.s, q)
         /\ ClearSource(work.d, work.s, {work.then.cleared})
              = Invalidated(Superseded(db, work.s, q), work.s, q)
<1>1. PICK a \in Database, S \in SUBSET Keys, I \in SUBSET RecIds : \E V, X, Z :
        ProductsAgree(a) /\ Aim(work, db, clock, a, S, I, Z) /\ Progress(work, a, S, I, V, X, Z)
  BY DEF Open
<1>2. PICK V, X, Z : Aim(work, db, clock, a, S, I, Z) /\ Progress(work, a, S, I, V, X, Z)
  BY <1>1
<1>3. Ended(work) /\ work.then.step = "clear"
  BY AfterEnded
<1>4. PICK q \in Deliveries : \/ Z = {} /\ Superseding(work, db, clock, q, a, S, I)
                              \/ Invalidating(work, db, clock, q, a, S, I, Z)
  BY <1>2, <1>3 DEF Aim, Forgetting, Cancelling, Refusing
<1>5. /\ work.then.delivery = q /\ Arriving(db, clock, work.s, q)
      /\ work.then.refused = Refused(db, work.s, q)
  BY <1>4 DEF Superseding, Invalidating
<1> DEFINE s == work.s
           e == Superseded(db, work.s, q)
           cleared == ClearSource(work.d, work.s, {work.then.cleared})
<1>6. s \in Scopes /\ work.block \in BOOLEAN
  BY DEF WorkType
<1>7. CASE Z = {} /\ Superseding(work, db, clock, q, a, S, I)
  <2>1. cleared = e
    BY <1>2, <1>3, <1>7, SupersedingEnded
  <2>2. q.class = "invalidated" => q.targets = {}
    BY <1>7 DEF Superseding
  <2>3. e \in Database
    BY <1>6, SupersededParts DEF TypeInv, TypeOK
  <2> HIDE DEF e
  <2>4. Invalidated(e, s, q) = e
    <3>1. Purge(e, s, {}, {}, TRUE) = e /\ ClearSource(e, s, {}) = e
      BY <1>6, <2>3, PurgeNothing, ClearNothing
    <3> QED BY <2>2, <3>1 DEF Invalidated
  <2> QED BY <1>5, <2>1, <2>4 DEF e
<1>8. CASE Invalidating(work, db, clock, q, a, S, I, Z)
  <2>1. /\ S = Z \cup {work.then.cleared} /\ a = e /\ S = q.targets /\ I = {}
        /\ work.block = TRUE /\ q.class = "invalidated"
    BY <1>6, <1>8 DEF Invalidating
  <2>2. cleared = ClearSource(Purge(a, s, S, I, work.block), s, S)
    <3>1. PICK Y : Y = {work.then.cleared}
      OBVIOUS
    <3>2. S = Z \cup Y
      BY <2>1, <3>1
    <3> HIDE DEF e
    <3>3. Progress(work, a, S, I, V, X, Z) /\ Ended(work)
      BY <1>2, <1>3
    <3>4. ClearSource(work.d, work.s, Y) = ClearSource(Purge(a, work.s, S, I, work.block), work.s, S)
      BY <3>2, <3>3, EndedCleared
    <3> QED BY <3>1, <3>4
  <2> HIDE DEF e, cleared
  <2>3. cleared = ClearSource(Purge(e, s, q.targets, {}, TRUE), s, q.targets)
    BY <2>1, <2>2
  <2>4. cleared = Invalidated(e, s, q)
    BY <2>1, <2>3 DEF Invalidated
  <2> QED BY <1>5, <2>4 DEF e, cleared
<1> QED BY <1>4, <1>7, <1>8

LEMMA NextTargetOpens ==
  ASSUME TypeInv, Consistent(db), work \in WorkType, Open(work, db, clock), NextTarget
  PROVE  work' \in WorkType /\ Open(work', db, clock) /\ UNCHANGED <<db, clock>>
<1>1. PICK a \in Database, S \in SUBSET Keys, I \in SUBSET RecIds : \E V, X, Z :
        ProductsAgree(a) /\ Aim(work, db, clock, a, S, I, Z) /\ Progress(work, a, S, I, V, X, Z)
  BY DEF Open
<1>2. PICK V, X, Z : Aim(work, db, clock, a, S, I, Z) /\ Progress(work, a, S, I, V, X, Z)
  BY <1>1
<1> DEFINE s == work.s
           e == ClearSource(work.d, work.s, {work.then.cleared})
<1>3. /\ work.then.step = "clear" /\ After("clear") /\ UNCHANGED <<db, clock>>
      /\ work.keys = {} /\ work.seen = {} /\ work.current = NoRec
      /\ work.ids \subseteq work.erased
  BY DEF NextTarget, After, Erased, BetweenKeys
<1>4. PICK t \in work.then.targets :
        Started(work', s, [work.then EXCEPT !.cleared = t, !.targets = @ \ {t}], e, {t}, {}, TRUE)
  BY DEF NextTarget, Begin, Started
<1> DEFINE next == [work.then EXCEPT !.cleared = t, !.targets = @ \ {t}]
<1>5. s \in Scopes /\ work.d \in Database /\ work.block \in BOOLEAN /\ t \in Keys
  BY <1>3, ClearThen DEF WorkType
<1>6. /\ next \in Thens /\ next.step = "clear" /\ next.cleared = t
      /\ next.targets = work.then.targets \ {t} /\ next.delivery = work.then.delivery
      /\ next.refused = work.then.refused
  BY <1>3, <1>5, ClearThen DEF Thens
<1>7. /\ work'.s = s /\ work'.then = next /\ work'.block = TRUE
  BY <1>4 DEF Started
<1> HIDE DEF next
<1>8. Waiting(work') = work.then.targets \ {t}
  BY <1>6, <1>7 DEF Waiting
<1>9. PICK q \in Deliveries : \/ Z = {} /\ Superseding(work, db, clock, q, a, S, I)
                              \/ Invalidating(work, db, clock, q, a, S, I, Z)
  BY <1>2, <1>3 DEF Aim, Forgetting, Cancelling, Refusing
<1>10. CASE Z = {} /\ Superseding(work, db, clock, q, a, S, I)
  <2>1. Ended(work)
    BY <1>3, <1>10 DEF Ended, Waiting, Superseding
  <2>2. e = Superseded(db, s, q)
    BY <1>2, <1>10, <2>1, SupersedingEnded
  <2>3. q.class = "invalidated" /\ work.then.targets = q.targets
    BY <1>10 DEF Superseding
  <2>4. e \in Database /\ ProductsAgree(e)
    BY <1>5, <2>2, SupersededParts DEF TypeInv, TypeOK, Consistent
  <2> HIDE DEF e
  <2>5. Invalidating(work', db, clock, q, e, q.targets, {}, {})
    BY <1>6, <1>7, <1>10, <2>2, <2>3 DEF Invalidating, Superseding
  <2>6. Aim(work', db, clock, e, q.targets, {}, {})
    BY <2>5 DEF Aim
  <2>7. q.targets \in SUBSET Keys /\ q.targets = {t} \cup Waiting(work')
    BY <1>8, <2>3, StoreAssumption DEF Delivery
  <2>8. Started(work', s, next, e, {t}, {}, TRUE)
    BY <1>4 DEF next, e
  <2> QED BY <1>3, <1>5, <1>6, <2>4, <2>6, <2>7, <2>8, StartedOpen
<1>11. CASE Invalidating(work, db, clock, q, a, S, I, Z)
  <2>1. /\ I = {} /\ work.block /\ work.then.targets \subseteq S
        /\ work.then.cleared \in S /\ work.then.cleared \notin work.then.targets
    BY <1>11 DEF Invalidating
  <2>2. Started(work', s, next, e, {t}, {}, TRUE)
    BY <1>4 DEF next
  <2>3. /\ work' \in WorkType
        /\ Progress(work', a, S, {}, V, X, Z \cup {work.then.cleared})
    BY <1>2, <1>3, <1>6, <2>1, <2>2, NextTargetProgress
  <2>4. Invalidating(work', db, clock, q, a, S, I, Z \cup {work.then.cleared})
    BY <1>6, <1>7, <1>11 DEF Invalidating
  <2>5. Aim(work', db, clock, a, S, I, Z \cup {work.then.cleared})
    BY <2>4 DEF Aim
  <2> QED BY <1>1, <1>3, <2>1, <2>3, <2>5 DEF Open
<1> QED BY <1>9, <1>10, <1>11

\* A source that is blocked already sends the new row to an erase of its
\* own; otherwise the observation is complete.
LEMMA InsertRowStores ==
  ASSUME TypeInv, Consistent(db), work \in WorkType, Open(work, db, clock), InsertRow
  PROVE  \/ Next /\ work' = NoWork
         \/ work' \in WorkType /\ Open(work', db, clock) /\ UNCHANGED <<db, clock>>
<1> DEFINE s == work.s
           q == work.then.delivery
           before == Invalidated(Superseded(db, s, q), s, q)
           row == Queued(q, clock)
           fresh == Insert(before, s, q, clock)
<1>1. /\ q \in Deliveries /\ Arriving(db, clock, s, q)
      /\ work.then.refused = Refused(db, s, q)
      /\ ClearSource(work.d, s, {work.then.cleared}) = before
  BY ClearedForRow DEF InsertRow
<1>2. s \in Scopes
  BY DEF WorkType
<1>3. CASE ~Refused(db, s, q)
  <2>1. db' = Bump(fresh) /\ work' = NoWork /\ UNCHANGED clock
    BY <1>1, <1>3 DEF InsertRow, Commit
  <2>2. Observe(s, q)
    BY <1>1, <1>3, <2>1 DEF Observe, Arriving
  <2> QED BY <1>1, <1>2, <2>1, <2>2 DEF Next
<1>4. CASE Refused(db, s, q)
  <2> DEFINE then == [step |-> "refuse"]
  <2>1. Started(work', s, then, fresh, {q.key}, {}, TRUE) /\ UNCHANGED <<db, clock>>
    BY <1>1, <1>4 DEF InsertRow, Begin, Started
  <2>2. then \in Thens /\ {q.key} \in SUBSET Keys
    BY <1>1, StoreAssumption DEF Thens, Delivery
  <2>3. /\ work'.s = s /\ work'.then = then /\ work'.block = TRUE
        /\ {q.key} \cup Waiting(work') = {q.key}
    BY <2>1 DEF Started, Waiting
  <2>4. Refusing(work', db, clock, q, fresh, {q.key}, {})
    BY <1>1, <1>4, <2>3 DEF Refusing
  <2>5. Aim(work', db, clock, fresh, {q.key}, {}, {})
    BY <1>1, <2>4 DEF Aim
  <2>6. Dropped(db, before, s, {q.key})
    BY <1>1, <1>2, ObserveDrops DEF TypeInv, TypeOK
  <2>7. row \in ObsRow /\ JobAgrees(q, row) /\ row.record = NoRec
    <3>1. row \in ObsRow
      BY <1>1, QueuedType, BoundAssumption DEF TypeInv, TypeOK
    <3>2. JobAgrees(q, row) /\ row.record = NoRec
      BY <1>1, StoreAssumption DEF JobAgrees, Queued
    <3> QED BY <3>1, <3>2
  <2>8. fresh = SetObs(before, s, q, row)
    BY DEF Insert
  <2> HIDE DEF before, row, fresh, then
  <2>9. fresh \in Database /\ ProductsAgree(fresh)
    BY <1>1, <1>2, <2>6, <2>7, <2>8, SetObsRowType, SetObsConsistent DEF Dropped, Consistent
  <2> QED BY <1>2, <2>1, <2>2, <2>3, <2>5, <2>9, StartedOpen
<1> QED BY <1>3, <1>4

-----------------------------------------------------------------------------
(* Every transaction is a step of the store, and until it commits, none.   *)

WorkInv ==
  /\ TypeInv /\ Consistent(db)
  /\ work # NoWork => work \in WorkType /\ Open(work, db, clock)

LEMMA WorklistStep ==
  ASSUME WorkInv, [WorklistNext]_worklistVars
  PROVE  WorkInv' /\ [Next]_vars
<1>0. /\ TypeInv /\ Consistent(db)
      /\ work # NoWork => work \in WorkType /\ Open(work, db, clock)
  BY DEF WorkInv
<1>1. \/ Next /\ work' = NoWork
      \/ UNCHANGED vars /\ work' = NoWork
      \/ UNCHANGED vars /\ work' = work
      \/ /\ UNCHANGED vars
         /\ work' \in WorkType /\ Open(work', db, clock)
  <2>1. CASE UNCHANGED worklistVars
    BY <2>1 DEF worklistVars, vars
  <2>2. CASE \E s \in Scopes, ids \in SUBSET RecIds : BeginForget(s, ids)
    BY <1>0, <2>2, BeginForgetOpens DEF vars
  <2>3. CASE \E s \in Scopes, q \in Deliveries : BeginObserve(s, q) \/ BeginCancel(s, q)
    BY <1>0, <2>3, BeginObserveOpens, BeginCancelOpens DEF vars
  <2>4. CASE WorkStep
    <3>1. work # NoWork
      BY <2>4 DEF WorkStep
    <3> QED BY <1>0, <2>4, <3>1, WorkStepOpens DEF vars
  <2>5. CASE EndForget \/ EndCancel \/ EndRefuse
    <3>1. work # NoWork
      BY <2>5 DEF EndForget, EndCancel, EndRefuse, After
    <3> QED BY <1>0, <2>5, <3>1, EndForgetStores, EndCancelStores, EndRefuseStores
  <2>6. CASE NextTarget
    <3>1. work # NoWork
      BY <2>6 DEF NextTarget, After
    <3> QED BY <1>0, <2>6, <3>1, NextTargetOpens DEF vars
  <2>7. CASE InsertRow
    <3>1. work # NoWork
      BY <2>7 DEF InsertRow, After
    <3> QED BY <1>0, <2>7, <3>1, InsertRowStores DEF vars
  <2>8. CASE Rollback
    BY <2>8 DEF Rollback, Stage, vars
  <2>9. CASE Whole
    BY <2>9 DEF Whole
  <2> QED BY <2>1, <2>2, <2>3, <2>4, <2>5, <2>6, <2>7, <2>8, <2>9 DEF WorklistNext
<1>2. [Next]_vars
  BY <1>1
<1>3. TypeInv' /\ Consistent(db)'
  BY <1>0, <1>2, NextInvariant
<1>4. (work # NoWork => work \in WorkType /\ Open(work, db, clock))'
  <2>1. CASE UNCHANGED vars
    <3>1. db' = db /\ clock' = clock
      BY <2>1 DEF vars
    <3> QED BY <1>0, <1>1, <3>1
  <2>2. CASE work' = NoWork
    BY <2>2
  <2> QED BY <1>1, <2>1, <2>2
<1> QED BY <1>2, <1>3, <1>4 DEF WorkInv

\* Whatever order the worklists of erase and clear_lineage_dependents are
\* taken in, and although every visit cuts rows that a later one would have
\* read, a transaction commits exactly what the closure of its starting keys
\* and records removes, and one that fails commits nothing.
THEOREM ImplementsStoreHolds == WorklistSpec => ImplementsStore
<1>1. WorklistInit => InitUpgraded /\ WorkInv
  BY InitInvariant DEF WorklistInit, WorkInv
<1>2. WorkInv /\ [WorklistNext]_worklistVars => WorkInv' /\ [vars' # vars /\ Next]_vars
  BY WorklistStep
<1> QED BY <1>1, <1>2, PTL DEF WorklistSpec, ImplementsStore

=============================================================================
