------------------------------- MODULE Search -------------------------------
(***************************************************************************)
(* memory.search of store.rs and the budget the kernel adapter asks it     *)
(* for. A search reads one page of the matching rows, ordered by rank, and *)
(* hands out a cursor that names the query, the generation of the store    *)
(* and the number of rows consumed so far. The clock, the maintenance      *)
(* task, other writers and the configuration file move between two pages.  *)
(***************************************************************************)
EXTENDS Integers, Sequences, FiniteSets, SequencesExt

CONSTANTS
  Rank,       \* every row that may be stored, best match first
  Catalog,    \* row to its scope, queries matched, times, fact and sizes
  Requests,   \* query to its scope, budget and whether the adapter sends it
  GrantSets,  \* what the configuration file may grant
  NoFact, NoAnswer, NoCursor,
  PageLimit,  \* LIMIT of the statement
  EmptyBytes, HostEmptyBytes,     \* the empty reference, of store and host
  MinBytes, MinTokens,            \* schema minima of a budget
  HostMaxBytes, HostMaxTokens,    \* what the adapter never exceeds
  MaxClock, MaxWrites             \* bounds

VARIABLES
  stored,  \* the rows whose status is active or contested
  clock, generation, grants,
  answer,  \* the page the last step answered, if it answered one
  chain    \* history: the pages a client has followed since a first page

vars == <<stored, clock, generation, grants, answer, chain>>

RowIds == ToSet(Rank)
Queries == DOMAIN Requests
Least(a, b) == IF a <= b THEN a ELSE b
Most(a, b) == IF a <= b THEN b ELSE a

ASSUME SearchAssumption ==
  /\ Rank \in Seq(RowIds) /\ IsInjective(Rank) /\ DOMAIN Catalog = RowIds
  /\ \A id \in RowIds :
       {Catalog[id].least, Catalog[id].passage, Catalog[id].full} \subseteq Nat \ {0}
  /\ PageLimit \in Nat \ {0} /\ GrantSets # {}
  /\ {EmptyBytes, HostEmptyBytes, MinBytes, MinTokens, HostMaxBytes, HostMaxTokens} \subseteq Nat
  /\ EmptyBytes <= HostEmptyBytes /\ EmptyBytes <= MinBytes /\ EmptyBytes <= MinTokens
  /\ \A q \in Queries :
       /\ {Requests[q].bytes, Requests[q].tokens, Requests[q].items} \subseteq Nat
       /\ Requests[q].bytes >= MinBytes /\ Requests[q].tokens >= MinTokens
       /\ Requests[q].items >= 1
  /\ NoCursor \notin [query : Queries, generation : Nat, offset : Nat]
  /\ MaxClock \in Nat /\ MaxWrites \in Nat

-----------------------------------------------------------------------------
(* Scopes *)

\* One owner: a scope of another owner is denied before anything is read.
Workspace(s) == [kind |-> "workspace", ws |-> s.ws, thread |-> "-"]
User == [kind |-> "user", ws |-> "-", thread |-> "-"]

Authorized(granted, s) ==
  \/ s \in granted
  \/ s.kind = "thread" /\ Workspace(s) \in granted

Widened(s) ==
  {s} \cup {w \in {Workspace(s)} : s.kind = "thread"} \cup {u \in {User} : s.kind # "user"}

Searched(q) == {s \in Widened(Requests[q].scope) : Authorized(grants, s)}

-----------------------------------------------------------------------------
(* Rows *)

Unexpired(id) == clock < Catalog[id].expires
Valid(id) == Catalog[id].from <= clock /\ clock < Catalog[id].to

Contested(id) ==
  /\ Catalog[id].fact # NoFact
  /\ \E o \in stored :
       /\ Catalog[o].fact # NoFact /\ Catalog[o].scope = Catalog[id].scope
       /\ Catalog[o].fact.key = Catalog[id].fact.key
       /\ Catalog[o].fact.value # Catalog[id].fact.value
       /\ Unexpired(o) /\ Valid(o)

\* WHERE
Due(q) ==
  {id \in stored : Unexpired(id) /\ q \in Catalog[id].queries
                   /\ Catalog[id].scope \in Searched(q)}

\* ORDER BY
Ordered(ids) ==
  LET best[n \in 0..Len(Rank)] ==
        IF n = 0 THEN <<>>
        ELSE IF Rank[n] \in ids THEN Append(best[n - 1], Rank[n])
        ELSE best[n - 1]
  IN best[Len(Rank)]

Matching(q) == Ordered(Due(q))

-----------------------------------------------------------------------------
(* The budget *)

\* The adapter takes the wrapper's overhead off both limits, because the
\* store applies the smaller one, and stays within the schema.
Overhead == HostEmptyBytes - EmptyBytes
HostLimit(q) ==
  Least(Least(Requests[q].bytes, HostMaxBytes), Least(Requests[q].tokens, HostMaxTokens))
HostBudget(q) ==
  Least(Most(Least(Requests[q].bytes, HostMaxBytes) - Overhead, MinBytes),
        Most(Least(Requests[q].tokens, HostMaxTokens) - Overhead, MinTokens))

Cap(q) ==
  IF Requests[q].host THEN HostBudget(q) ELSE Least(Requests[q].bytes, Requests[q].tokens)

\* The hits of a list, and a comma between two of them.
Bytes(hits) ==
  LET sum[n \in 0..Len(hits)] ==
        IF n = 0 THEN 0
        ELSE sum[n - 1] + hits[n].bytes + (IF n = 1 THEN 0 ELSE 1)
  IN sum[Len(hits)]

\* Canonical size of {"items": ..., "conflicts": ...}.
Size(items, conflicts) == EmptyBytes + Bytes(items) + Bytes(conflicts)

\* search_hit: the whole record, or the longest passage from the first match
\* (a character is one byte here). "least" is the record with no content.
Fits(id, room) == Catalog[id].full <= room \/ Catalog[id].least <= room
Hit(id, room) ==
  [id |-> id, cut |-> Catalog[id].full > room,
   bytes |-> IF Catalog[id].full <= room THEN Catalog[id].full
             ELSE Least(room, Catalog[id].passage)]

\* Mutation: the room left for a record forgets the comma before it.
RoomWithoutComma(q, items, conflicts) == Cap(q) - Size(items, conflicts)

\* What a page leaves for one more record, with the comma before it.
Room(q, items, conflicts) == Cap(q) - (Size(items, conflicts) + 1)
FreshRoom(q) == Room(q, <<>>, <<>>)

-----------------------------------------------------------------------------
(* A page *)

EmptyPage == [items |-> <<>>, conflicts |-> <<>>, consumed |-> 0, full |-> FALSE, omitted |-> {}]

Consume(page) == [page EXCEPT !.consumed = @ + 1]
\* Mutation: a row too large for any page is consumed without a trace.
OmitSilently(page, id) == Consume(page)

Omit(page, id) == [Consume(page) EXCEPT !.omitted = @ \cup {id}]
Return(page, id, hit) ==
  IF Contested(id) THEN [Consume(page) EXCEPT !.conflicts = Append(@, hit)]
  ELSE [Consume(page) EXCEPT !.items = Append(@, hit)]

\* The loop body for one row; a full page takes nothing more.
Take(q, page, id) ==
  LET room == Room(q, page.items, page.conflicts) IN
  IF page.full THEN page
  ELSE IF ~Valid(id) THEN Consume(page)
  ELSE IF Len(page.items) + Len(page.conflicts) >= Requests[q].items
    THEN [page EXCEPT !.full = TRUE]
  ELSE IF Fits(id, room) THEN Return(page, id, Hit(id, room))
  ELSE IF Fits(id, FreshRoom(q)) THEN [page EXCEPT !.full = TRUE]
  ELSE Omit(page, id)

Rows(q, offset) ==
  LET all == Matching(q)
  IN SubSeq(all, offset + 1, Least(Len(all), offset + PageLimit))

Page(q, offset) ==
  LET rows == Rows(q, offset)
      page[n \in 0..Len(rows)] ==
        IF n = 0 THEN EmptyPage ELSE Take(q, page[n - 1], rows[n])
  IN page[Len(rows)]

\* Mutation: only a full LIMIT counts as more.
MoreAtLimit(q, offset) == Len(Rows(q, offset)) = PageLimit

More(q, offset) ==
  Page(q, offset).consumed < Len(Rows(q, offset)) \/ Len(Rows(q, offset)) = PageLimit

Hits(page) == page.items \o page.conflicts

Answer(q, offset) ==
  LET page == Page(q, offset)
      more == More(q, offset)
      cut == \E i \in DOMAIN Hits(page) : Hits(page)[i].cut
  IN [query |-> q, offset |-> offset, items |-> page.items, conflicts |-> page.conflicts,
      truncated |-> more \/ cut \/ page.omitted # {},
      next |-> IF more /\ page.consumed > 0
               THEN [query |-> q, generation |-> generation, offset |-> offset + page.consumed]
               ELSE NoCursor]

-----------------------------------------------------------------------------
(* Actions *)

NoChain ==
  [query |-> "none", cursor |-> NoCursor, due |-> {}, valid |-> {}, got |-> <<>>,
   steady |-> TRUE, ended |-> FALSE]

Init ==
  /\ stored \in SUBSET RowIds /\ clock = 0 /\ generation = 0 /\ grants \in GrantSets
  /\ answer = NoAnswer /\ chain = NoChain

Got(reply) == [i \in DOMAIN Hits(reply) |-> Hits(reply)[i].id]

\* A first page, without a cursor.
Search(q) ==
  /\ Authorized(grants, Requests[q].scope)
  /\ answer' = Answer(q, 0)
  /\ chain' = [query |-> q, cursor |-> answer'.next, due |-> Due(q),
               valid |-> {id \in Due(q) : Valid(id)}, got |-> Got(answer'),
               steady |-> TRUE, ended |-> answer'.next = NoCursor]
  /\ UNCHANGED <<stored, clock, generation, grants>>

Accepted(q, cursor) == cursor.query = q /\ cursor.generation = generation

\* The next page: the scopes are authorised again, the rows read again.
Resume(q) ==
  /\ chain.cursor # NoCursor /\ Authorized(grants, Requests[q].scope)
  /\ Accepted(q, chain.cursor)
  /\ answer' = Answer(q, chain.cursor.offset)
  /\ chain' = [chain EXCEPT !.cursor = answer'.next, !.got = @ \o Got(answer'),
                            !.valid = {id \in @ \cap Due(q) : Valid(id)},
                            !.steady = @ /\ Due(q) = chain.due,
                            !.ended = answer'.next = NoCursor]
  /\ UNCHANGED <<stored, clock, generation, grants>>

\* Another query, or a store that has changed: the client starts again.
RefuseCursor(q) ==
  /\ chain.cursor # NoCursor /\ Authorized(grants, Requests[q].scope)
  /\ ~Accepted(q, chain.cursor)
  /\ answer' = NoAnswer /\ chain' = NoChain
  /\ UNCHANGED <<stored, clock, generation, grants>>

Tick ==
  /\ clock < MaxClock /\ clock' = clock + 1 /\ answer' = NoAnswer
  /\ UNCHANGED <<stored, generation, grants, chain>>

\* A write publishes or removes rows and moves the generation.
Write ==
  /\ generation < MaxWrites
  /\ \E id \in RowIds : stored' = (stored \ {id}) \cup ({id} \ stored)
  /\ generation' = generation + 1 /\ answer' = NoAnswer
  /\ UNCHANGED <<clock, grants, chain>>

\* Maintenance marks expired rows; not necessarily before the next page.
Sweep ==
  /\ \E id \in stored : ~Unexpired(id)
  /\ stored' = {id \in stored : Unexpired(id)}
  /\ generation' = generation + 1 /\ answer' = NoAnswer
  /\ UNCHANGED <<clock, grants, chain>>

Regrant ==
  /\ grants' \in GrantSets \ {grants} /\ answer' = NoAnswer
  /\ UNCHANGED <<stored, clock, generation, chain>>

Next ==
  \/ \E q \in Queries : Search(q) \/ Resume(q) \/ RefuseCursor(q)
  \/ Tick \/ Write \/ Sweep \/ Regrant

Spec == Init /\ [][Next]_vars

=============================================================================
