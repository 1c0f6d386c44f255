-------------------------- MODULE SearchProperties --------------------------
(* What a client of memory.search may rely on, page by page and over a chain. *)
EXTENDS Search

Served == answer # NoAnswer
Times(id, ids) == Cardinality({i \in DOMAIN ids : ids[i] = id})
Everything == Hits(answer)

\* A chain of cursors that is followed to its end returns, exactly once,
\* every row that matched and was valid on all its pages and that fits a page
\* of its own, provided no row entered or left the matching set meanwhile
\* (store.rs:1166-1236: OFFSET counts what earlier pages consumed).
PagesCover ==
  chain.ended /\ chain.steady =>
    \A id \in chain.valid : Fits(id, FreshRoom(chain.query)) => Times(id, chain.got) = 1

\* A page that does not say "truncated" is the whole rest of the result: it
\* has no cursor, and every valid row from its offset on is there, uncut
\* (store.rs:1209-1235).
UntruncatedIsWhole ==
  Served /\ ~answer.truncated =>
    /\ answer.next = NoCursor
    /\ LET all == Matching(answer.query) IN
       \A i \in answer.offset + 1 .. Len(all) : Valid(all[i]) =>
         \E h \in ToSet(Everything) : h.id = all[i] /\ ~h.cut

\* What the adapter asks for leaves exactly enough for its wrapper: unless
\* the schema minimum was in the way, the reference it builds from a page
\* with a hit is within both of the host's limits, so that no page is
\* fetched only to be dropped (adapter.rs:239-268).
HostFits ==
  Served =>
    LET q == answer.query
        clamped == Least(Requests[q].bytes, HostMaxBytes) - Overhead < MinBytes
                   \/ Least(Requests[q].tokens, HostMaxTokens) - Overhead < MinTokens
    IN Requests[q].host /\ ~clamped =>
         Size(answer.items, answer.conflicts) + Overhead <= HostLimit(q)

\* A chain followed to its end loses no row that matched and was valid on all
\* its pages: a row that does not fit is left unconsumed "so the signed cursor
\* resumes at this row instead of losing it" (store.rs:1203-1204).
NothingLost ==
  chain.ended =>
    \A id \in chain.valid : Fits(id, FreshRoom(chain.query)) => id \in ToSet(chain.got)

=============================================================================
