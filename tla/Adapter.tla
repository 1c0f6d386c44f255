------------------------------ MODULE Adapter ------------------------------
(***************************************************************************)
(* The kernel hook of adapter.rs. The kernel appends rows to a thread's    *)
(* ledger and runs the hook for an event with the number of the last row   *)
(* the event is about. A hook may run late, when the ledger has grown, and *)
(* again, when its answer was lost or it failed: the event is the same,    *)
(* and so is the idempotency key of what it sends, event_id.               *)
(***************************************************************************)
EXTENDS Integers, Sequences, FiniteSets

CONSTANTS
  Script,    \* the rows the kernel will append: kind, turn, inputs
  Events,    \* the events it raises: event, turn, through, covers, items, record, path
  DirOf,     \* a spelling of a directory to its canonical path below thread_root
  Outside,   \* DirOf a directory that is not below it
  LedgerName,  \* the file's name in its directory; any other name there is a link to it
  KeyLimit   \* lineage keys of an observation (4096)

VARIABLES
  length,  \* rows of the ledger so far
  sent     \* what hooks have sent, and the event they sent it for

adapterVars == <<length, sent>>

ASSUME AdapterAssumption ==
  /\ \A e \in Events : e.through \in 1..Len(Script) /\ e.path.dir \in DOMAIN DirOf
  /\ \A c, d \in DOMAIN DirOf : Outside \notin {DirOf[c], DirOf[d]} => DirOf[c] = DirOf[d]
  /\ KeyLimit \in Nat

AdapterInit == length = 1 /\ sent = {}

-----------------------------------------------------------------------------
(* The ledger *)

\* Mutation: the whole ledger is read.
PrefixWholeLedger(e) == 1..length

\* prefix: the rows up to the event's, whatever has been appended since.
Prefix(e) == 1..e.through

\* The ledger is below thread_root, named by its own name (a link is not
\* followed), and has the rows; it starts with genesis.
Readable(e) ==
  /\ DirOf[e.path.dir] # Outside /\ e.path.name = LedgerName
  /\ e.through <= length /\ Script[1].kind = "genesis"

Opens(e) == {n \in Prefix(e) : Script[n].kind = "turn_open" /\ Script[n].turn = e.turn}

\* The first opening of the turn for an observation, the last for a query.
TurnInputs(e) == UNION {Script[n].inputs : n \in {m \in Opens(e) : \A o \in Opens(e) : m <= o}}
QueryInputs(e) == UNION {Script[n].inputs : n \in {m \in Opens(e) : \A o \in Opens(e) : o <= m}}

Expected == [e \in {"turn.before", "tool.completed", "turn.settled"} |->
               CASE e = "turn.before" -> "turn_open" [] e = "tool.completed" -> "tool_result"
                 [] e = "turn.settled" -> "settle"]

\* The last row is of the event's kind and turn, and is the record that the
\* event carries, if it carries one (both scrubbed).
AboutItsRow(e) ==
  /\ e.event \in DOMAIN Expected =>
       Script[e.through].kind = Expected[e.event] /\ Script[e.through].turn = e.turn
  /\ \A row \in e.record : row = Script[e.through]

\* The rows that are copied into the summary.
Evidence(e) ==
  CASE e.event = "tool.completed" -> {e.through}
    [] e.event = "context.before_compact" ->
         {n \in Prefix(e) \cap e.covers :
            Script[n].kind \in {"input", "output", "tool_result", "settle"}}
    [] OTHER ->
         {n \in Prefix(e) : \/ n \in TurnInputs(e)
                            \/ /\ Script[n].turn = e.turn
                               /\ Script[n].kind \in {"output", "tool_result", "settle"}}

-----------------------------------------------------------------------------
(* What a hook sends *)

\* Mutation: the path is taken as the event spells it.
LineAsSpelt(e) == <<e.path.dir, e.path.name>>

\* The canonical directory, below the canonical root, and the last component
\* as the event spells it.
Line(e) == <<DirOf[e.path.dir], e.path.name>>

SourceKey(e, n) == <<Line(e), n>>

\* memory.observe: the source event, the rows copied, their keys and its own.
Observation(e) ==
  [line |-> Line(e), through |-> e.through, copied |-> Evidence(e),
   own |-> SourceKey(e, e.through), lineage |-> {SourceKey(e, n) : n \in Evidence(e)}]

\* memory.search: the user's items of the event, or the turn's inputs.
Question(e) ==
  [items |-> e.items, rows |-> IF e.items # {} THEN {} ELSE QueryInputs(e) \cap Prefix(e)]

Send(e, arguments) == sent' = sent \cup {[event |-> e, arguments |-> arguments]}

-----------------------------------------------------------------------------
(* Actions *)

\* The kernel: external.
AppendRow == length < Len(Script) /\ length' = length + 1 /\ UNCHANGED sent

\* A hook that is refused its source, or cannot reach the service, sends
\* nothing; whether an answer comes back makes no difference to what it sent.
Observe(e) ==
  /\ e.event # "context.prepare" /\ Readable(e) /\ AboutItsRow(e)
  /\ Cardinality(Observation(e).lineage) <= KeyLimit
  /\ Send(e, Observation(e)) /\ UNCHANGED length

\* The ledger is read only when the event has no usable item; an empty query
\* asks nothing. The answer is only reference material for the host.
Prepare(e) ==
  /\ e.event = "context.prepare"
  /\ e.through <= length
  /\ e.items # {} \/ (Readable(e) /\ Question(e).rows # {})
  /\ Send(e, Question(e)) /\ UNCHANGED length

AdapterNext == AppendRow \/ \E e \in Events : Observe(e) \/ Prepare(e)

AdapterSpec == AdapterInit /\ [][AdapterNext]_adapterVars

-----------------------------------------------------------------------------
(* Properties *)

\* Whenever a hook runs for an event, and however often, it sends the same:
\* the service never meets the event's idempotency key with another content,
\* which it would refuse for ever (adapter.rs:126-147, 302-397;
\* store.rs idempotency_conflict).
RedeliverySame ==
  \A a, b \in sent : a.event = b.event => a.arguments = b.arguments

\* A row that one observation is about and another one copies has one key:
\* the own key of the first is in the lineage of the second, under whatever
\* spelling of its directory either event named the ledger, so that
\* invalidating the first reaches the second (adapter.rs:66-105, 322-347).
CopiesTraced ==
  \A a, b \in {s \in sent : s.event.event # "context.prepare"} :
    a.arguments.through \in b.arguments.copied
      => a.arguments.own \in b.arguments.lineage

=============================================================================
