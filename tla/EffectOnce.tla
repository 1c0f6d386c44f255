------------------------------ MODULE EffectOnce ------------------------------
(***************************************************************************)
(* What a caller may rely on when it repeats a write: an effect happens at *)
(* most once under each name it was asked for by, and what is answered     *)
(* about a name stays true. No server, lock, transaction or crash here.    *)
(* A write is named by its idempotency key within principal and scope,     *)
(* and by an effect key within its principal when it carries one.          *)
(***************************************************************************)
CONSTANTS
  Writes,   \* write calls: principal, scope, op (idempotency key), key, body
  Queries,  \* reconcile_effect calls: principal, key
  Ids,      \* results, told apart by the operation id they contain
  NoKey     \* a write without effect key

VARIABLES
  effects,  \* what has happened: the result and the write it came from
  names,    \* which result each effect key stands for
  told      \* the answers that callers have received

vars == <<effects, names, told>>

Intent(w) == <<w.principal, w.scope, w.op>>
Digest(w) == <<w.scope, w.op, w.body>>

Unnamed(w) == \A n \in names : ~(n.principal = w.principal /\ n.key = w.key)

Named(w, id) ==
  IF w.key = NoKey THEN names
  ELSE names \cup {[principal |-> w.principal, key |-> w.key, id |-> id]}

\* The same call with the same content, under whatever effect key.
Did(w, id) == \E e \in effects : /\ e.id = id
                                 /\ e.by.principal = w.principal
                                 /\ Digest(e.by) = Digest(w)

Perform(w, id) ==
  /\ \A e \in effects : e.id # id /\ Intent(e.by) # Intent(w)
  /\ Unnamed(w)
  /\ effects' = effects \cup {[id |-> id, by |-> w]}
  /\ names' = Named(w, id)
  /\ UNCHANGED told

\* A repeated write may bring an effect key of its own.
Recognise(w, id) ==
  /\ Unnamed(w) /\ Did(w, id)
  /\ names' = Named(w, id)
  /\ UNCHANGED <<effects, told>>

Report(w, id) ==
  /\ Did(w, id)
  /\ w.key # NoKey => [principal |-> w.principal, key |-> w.key, id |-> id] \in names
  /\ told' = told \cup {[request |-> w, answer |-> id]}
  /\ UNCHANGED <<effects, names>>

Confirm(q, id) ==
  /\ [principal |-> q.principal, key |-> q.key, id |-> id] \in names
  /\ told' = told \cup {[request |-> q, answer |-> id]}
  /\ UNCHANGED <<effects, names>>

\* Not a statement about the future, nor about writes still on their way.
Unconfirmed(q) ==
  /\ told' = told \cup {[request |-> q, answer |-> "not_found"]}
  /\ UNCHANGED <<effects, names>>

Init == effects = {} /\ names = {} /\ told = {}

Next ==
  \/ \E w \in Writes, id \in Ids : Perform(w, id) \/ Recognise(w, id) \/ Report(w, id)
  \/ \E q \in Queries : Unconfirmed(q) \/ \E id \in Ids : Confirm(q, id)

Spec == Init /\ [][Next]_vars

=============================================================================
