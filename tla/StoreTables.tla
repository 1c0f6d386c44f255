---------------------------- MODULE StoreTables ----------------------------
(***************************************************************************)
(* The SQLite tables of the memory store (src/schema.sql) as one value d,  *)
(* and the statements that store.rs runs on them inside a transaction, as  *)
(* operators from a database value to the next one.                        *)
(*                                                                         *)
(*   d.rec   records: scope, kind, revision, status, expires and the fact  *)
(*           of the document (its status column is the one in its doc)     *)
(*   d.ver   versions: one row per stored revision of a record, with the   *)
(*           keyed sources that its document cites                         *)
(*   d.idx   search_index: the records that have an FTS entry              *)
(*   d.deps  dependencies: the source keys that a record depends on        *)
(*   d.tomb  tombstones: the source keys that each scope has blocked       *)
(*   d.obs   observations joined with jobs (they share their id): one row  *)
(*           per scope and delivery                                        *)
(*   d.gen   meta.generation, of which only "has changed" is ever used     *)
(***************************************************************************)
EXTENDS Integers, FiniteSets

CONSTANTS
  Scopes,       \* authorised scopes (user, workspace or thread)
  HostScopes,   \* those of kind workspace or thread, which observe accepts
  RecIds,       \* record ids that uid() may draw
  Keys,         \* source keys: event keys, raw aliases, external keys
  Deliveries,   \* observe requests, one per (event key, source_digest)
  Facts,        \* fact values: group is what fact_key() digests
  Never,        \* expires IS NULL
  NoFact, NoRec,
  EpisodeTTL,   \* episode_days * 86400, in ticks of the model's clock
  MaxRevision,  \* bound on corrections of one record
  MaxAttempts,  \* 5 in maintain()
  Backoff       \* 1 << n seconds after the n-th failed attempt

Classes == {"opened", "material", "invalidated"}
Kinds == {"fact", "procedure", "episode"}
LiveStatus == {"active", "contested"}
Statuses == LiveStatus \cup {"absent", "expired", "deleted"}
ObsStates == {"absent", "accepted", "completed", "deleted", "expired"}
JobStates == {"none", "accepted", "completed", "failed"}

Delivery == [key : Keys, digest : Nat, class : Classes, own : SUBSET Keys,
             refs : SUBSET Keys, targets : SUBSET Keys]
Fact == [group : STRING, value : STRING, from : Nat, to : Nat]
Groups == {f.group : f \in Facts}

\* The event key digests the observation type, so a key has one class.
ASSUME StoreAssumption ==
  /\ Scopes # {} /\ HostScopes \subseteq Scopes
  /\ Deliveries \subseteq Delivery
  /\ \A p, q \in Deliveries : p.key = q.key => p.class = q.class
  /\ \A p, q \in Deliveries : p.key = q.key /\ p.digest = q.digest => p = q
  /\ Facts \subseteq Fact
  /\ Never \notin Nat /\ NoFact \notin Facts /\ NoRec \notin RecIds
  /\ EpisodeTTL \in Nat /\ MaxRevision \in Nat \ {0}
  /\ MaxAttempts \in Nat \ {0} /\ Backoff \in [1..MaxAttempts -> Nat]

Row == [scope : Scopes, kind : Kinds, rev : Nat, status : Statuses,
        expires : Nat \cup {Never}, fact : Facts \cup {NoFact}]
Version == [id : RecIds, revision : Nat, cites : SUBSET Keys]
ObsRow == [state : ObsStates, live : BOOLEAN, record : RecIds \cup {NoRec},
           job : JobStates, attempts : 0..MaxAttempts, nextAt : Nat]
Database == [rec : [RecIds -> Row],
             ver : SUBSET Version,
             idx : SUBSET RecIds,
             deps : [RecIds -> SUBSET Keys],
             tomb : [Scopes -> SUBSET Keys],
             obs : [Scopes -> [Deliveries -> ObsRow]],
             gen : BOOLEAN]

NoRow == [scope |-> CHOOSE s \in Scopes : TRUE, kind |-> "episode", rev |-> 0,
          status |-> "absent", expires |-> Never, fact |-> NoFact]
NoObs == [state |-> "absent", live |-> FALSE, record |-> NoRec,
          job |-> "none", attempts |-> 0, nextAt |-> 0]

EmptyDatabase == [rec |-> [r \in RecIds |-> NoRow],
                  ver |-> {},
                  idx |-> {},
                  deps |-> [r \in RecIds |-> {}],
                  tomb |-> [s \in Scopes |-> {}],
                  obs |-> [s \in Scopes |-> [q \in Deliveries |-> NoObs]],
                  gen |-> FALSE]

-----------------------------------------------------------------------------
(* What a delivery is called, and what the record derived from it cites.   *)

\* Its event key and its raw alias (payload.own_source_key, at most one).
Names(q) == {q.key} \cup q.own

\* derived_record_args: sources, alias, lineage keys and the event key.
Cites(q) == Names(q) \cup q.refs

-----------------------------------------------------------------------------
(* Rows.                                                                   *)

\* Mutation: the query forgets its scope.
PresentAnywhere(d, s) == {r \in RecIds : d.rec[r].status # "absent"}

Present(d, s) == {r \in RecIds : d.rec[r].status # "absent" /\ d.rec[r].scope = s}
Live(d) == {r \in RecIds : d.rec[r].status \in LiveStatus}
PastTTL(d, r, now) == d.rec[r].expires # Never /\ d.rec[r].expires <= now

\* The rows that row() and every read query return.
Readable(d, s, now) ==
  {r \in Live(d) : d.rec[r].scope = s /\ ~PastTTL(d, r, now)}

Blocked(d, s, keys) == keys \cap d.tomb[s] # {}
Bump(d) == [d EXCEPT !.gen = ~@]

\* Mutation: a correction's sources replace the earlier ones.
PutReplacing(d, r, row, src) ==
  [rec |-> [d.rec EXCEPT ![r] = row],
   ver |-> {v \in d.ver : v.id # r \/ v.revision # row.rev}
             \cup {[id |-> r, revision |-> row.rev, cites |-> src]},
   idx |-> IF row.status \in LiveStatus THEN d.idx \cup {r} ELSE d.idx \ {r},
   deps |-> [d.deps EXCEPT ![r] = src],
   tomb |-> d.tomb, obs |-> d.obs, gen |-> d.gen]

\* put(): the record, its version, its index entry, and its dependencies,
\* which are only ever added to.
Put(d, r, row, src) ==
  [rec |-> [d.rec EXCEPT ![r] = row],
   ver |-> {v \in d.ver : v.id # r \/ v.revision # row.rev}
             \cup {[id |-> r, revision |-> row.rev, cites |-> src]},
   idx |-> IF row.status \in LiveStatus THEN d.idx \cup {r} ELSE d.idx \ {r},
   deps |-> [d.deps EXCEPT ![r] = @ \cup src],
   tomb |-> d.tomb, obs |-> d.obs, gen |-> d.gen]

-----------------------------------------------------------------------------
(* Facts.                                                                  *)

\* Mutation: only a window inside the other one counts.
OverlapInside(f, g) == f.from <= g.from /\ g.to <= f.to

\* check_kind has rejected windows with valid_to <= valid_from.
Overlap(f, g) == f.from < g.to /\ g.from < f.to

Disputes(f, g) == f.group = g.group /\ f.value # g.value /\ Overlap(f, g)

\* Mutation: facts that are already contested are not compared again.
ReconcileActive(d, ss, gs, now) ==
  LET pool == {r \in UNION {Readable(d, s, now) : s \in ss} :
                 /\ d.rec[r].kind = "fact" /\ d.rec[r].fact.group \in gs
                 /\ d.rec[r].status = "active"}
      conflict(r) == \E o \in pool \ {r} :
                       /\ d.rec[o].scope = d.rec[r].scope
                       /\ Disputes(d.rec[r].fact, d.rec[o].fact)
  IN [d EXCEPT !.rec =
        [r \in RecIds |->
           IF r \in pool /\ conflict(r)
             THEN [d.rec[r] EXCEPT !.status = "contested"] ELSE d.rec[r]]]

\* reconcile_keys over the scopes ss and the fact groups gs. The put() of a
\* record whose status changes also writes that status into the document of
\* its current version, which is not part of a version here, and rewrites the
\* index entry and dependency rows with what they already hold.
Reconcile(d, ss, gs, now) ==
  LET pool == {r \in UNION {Readable(d, s, now) : s \in ss} :
                 d.rec[r].kind = "fact" /\ d.rec[r].fact.group \in gs}
      conflict(r) == \E o \in pool \ {r} :
                       /\ d.rec[o].scope = d.rec[r].scope
                       /\ Disputes(d.rec[r].fact, d.rec[o].fact)
  IN [d EXCEPT !.rec =
        [r \in RecIds |->
           IF r \in pool
             THEN [d.rec[r] EXCEPT !.status =
                     IF conflict(r) THEN "contested" ELSE "active"]
             ELSE d.rec[r]]]

\* valid() and current_status(): what get and search report for a record.
Valid(f, now) == f.from <= now /\ now < f.to
CurrentStatus(d, r, now) ==
  LET me == d.rec[r] IN
  IF me.kind # "fact" THEN me.status
  ELSE IF ~Valid(me.fact, now) THEN "expired"
  ELSE IF \E o \in Readable(d, me.scope, now) :
            /\ d.rec[o].kind = "fact" /\ d.rec[o].fact.group = me.fact.group
            /\ d.rec[o].fact.value # me.fact.value
            /\ Valid(d.rec[o].fact, now)
    THEN "contested" ELSE "active"

-----------------------------------------------------------------------------
(* Lineage: clear_source, clear_lineage_dependents and erase.              *)

\* Mutation: the payload is cleared and its job left in the queue.
ClearedPayload(o) == [o EXCEPT !.state = "deleted", !.live = FALSE]

Cleared(o) == [o EXCEPT !.state = "deleted", !.live = FALSE, !.job = "completed"]

\* The observation and its job, inserted or updated.
SetObs(d, s, q, row) == [d EXCEPT !.obs[s] = [d.obs[s] EXCEPT ![q] = row]]

ClearSource(d, s, keys) ==
  [d EXCEPT !.obs[s] = [q \in Deliveries |->
     IF q.key \in keys /\ d.obs[s][q].state # "absent"
       THEN Cleared(d.obs[s][q]) ELSE d.obs[s][q]]]

\* erase(): the event keys of the observations that produced record r, or
\* all the dependencies of an explicitly saved record.
OwnKeys(d, s, r) ==
  LET produced == {q.key : q \in {p \in Deliveries : d.obs[s][p].record = r}}
  IN IF produced = {} THEN d.deps[r] ELSE produced

\* Mutation: raw aliases are not followed.
ClosedOverEvents(d, s, C) ==
  /\ \A q \in Deliveries :
       d.obs[s][q].live /\ Cites(q) \cap C # {} => q.key \in C
  /\ \A r \in Present(d, s) :
       d.deps[r] \cap C # {} => OwnKeys(d, s, r) \subseteq C

\* Mutation: only the payloads still queued are followed.
ClosedOverQueue(d, s, C) ==
  /\ \A q \in Deliveries :
       d.obs[s][q].job = "accepted" /\ Cites(q) \cap C # {} => Names(q) \subseteq C
  /\ \A r \in Present(d, s) :
       d.deps[r] \cap C # {} => OwnKeys(d, s, r) \subseteq C

\* Nothing that the two worklists would still add to C.
Closed(d, s, C) ==
  /\ \A q \in Deliveries :
       d.obs[s][q].live /\ Cites(q) \cap C # {} => Names(q) \subseteq C
  /\ \A r \in Present(d, s) :
       d.deps[r] \cap C # {} => OwnKeys(d, s, r) \subseteq C

\* The keys the worklists visit from S: the least closed set above S.
Closure(d, s, S) ==
  {k \in Keys : \A C \in SUBSET Keys : S \subseteq C /\ Closed(d, s, C) => k \in C}

\* The keys that erasing I from scope s after invalidating S visits.
Reached(d, s, S, I) ==
  Closure(d, s, S \cup UNION {OwnKeys(d, s, r) : r \in I \cap Present(d, s)})

\* Mutation: erase() takes the records it is given and no dependents.
PurgeSelected(d, s, S, I, block) ==
  LET K == Reached(d, s, S, I)
      R == I \cap Present(d, s)
      lost(q) == \/ d.obs[s][q].live /\ Cites(q) \cap K # {}
                 \/ d.obs[s][q].record \in R
  IN [d EXCEPT
        !.rec = [r \in RecIds |->
           IF r \in R THEN [d.rec[r] EXCEPT !.status = "deleted", !.fact = NoFact]
                      ELSE d.rec[r]],
        !.ver = {v \in @ : v.id \notin R},
        !.idx = @ \ R,
        !.deps = [r \in RecIds |-> IF r \in R THEN {} ELSE d.deps[r]],
        !.tomb[s] = IF block THEN @ \cup K ELSE @,
        !.obs[s] = [q \in Deliveries |->
           IF lost(q) THEN Cleared(d.obs[s][q]) ELSE d.obs[s][q]]]

\* clear_lineage_dependents on every key of S, then erase of the records I
\* and of those that depend on a visited key. A visited key is tombstoned
\* when block is set. Observations that cite one lose their payload, and so
\* do those that produced an erased record.
Purge(d, s, S, I, block) ==
  LET K == Reached(d, s, S, I)
      R == {r \in Present(d, s) : r \in I \/ d.deps[r] \cap K # {}}
      lost(q) == \/ d.obs[s][q].live /\ Cites(q) \cap K # {}
                 \/ d.obs[s][q].record \in R
  IN [rec |-> [r \in RecIds |->
                IF r \in R THEN [d.rec[r] EXCEPT !.status = "deleted", !.fact = NoFact]
                           ELSE d.rec[r]],
      ver |-> {v \in d.ver : v.id \notin R},
      idx |-> d.idx \ R,
      deps |-> [r \in RecIds |-> IF r \in R THEN {} ELSE d.deps[r]],
      tomb |-> [d.tomb EXCEPT ![s] = IF block THEN @ \cup K ELSE @],
      obs |-> [d.obs EXCEPT ![s] = [q \in Deliveries |->
                IF lost(q) THEN Cleared(d.obs[s][q]) ELSE d.obs[s][q]]],
      gen |-> d.gen]

=============================================================================
