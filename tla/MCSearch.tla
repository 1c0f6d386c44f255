------------------------------ MODULE MCSearch ------------------------------
(* Instances of the search for TLC: rows that fit, are cut, do not fit what a *)
(* page has left, or do not fit at all; facts that dispute for a while.       *)
EXTENDS SearchProperties

Ever == 99
Thread == [kind |-> "thread", ws |-> "w", thread |-> "t"]
Space == Workspace(Thread)

Row(scope, queries, expires, from, to, fact, least, passage, full) ==
  [scope |-> scope, queries |-> queries, expires |-> expires, from |-> from, to |-> to,
   fact |-> fact, least |-> least, passage |-> passage, full |-> full]
Note(scope, queries, expires, least, full) ==
  Row(scope, queries, expires, 0, Ever, NoFact, least, full, full)
Value(v) == [key |-> "k", value |-> v]

Both == {"call", "hook"}

\* Best match first.
PageRank == <<"brief", "early", "late", "whole", "rigid", "huge">>
PageCatalog ==
  [brief |-> Note(User, Both, 1, 2, 3),
   early |-> Row(Space, Both, Ever, 0, 1, Value("x"), 3, 4, 4),
   late  |-> Row(Space, Both, Ever, 0, Ever, Value("y"), 3, 4, 4),
   whole |-> Note(Space, Both, Ever, 2, 6),
   rigid |-> Note(Space, {"call"}, Ever, 7, 7),
   huge  |-> Note(Thread, Both, Ever, 9, 12)]

PageRequests ==
  [call |-> [scope |-> Thread, items |-> 2, bytes |-> 10, tokens |-> 12, host |-> FALSE],
   hook |-> [scope |-> Space, items |-> 3, bytes |-> 13, tokens |-> 20, host |-> TRUE]]

AllGrants == {{Space, User}, {Space}, {Thread, User}}
OneGrant == {{Space, User}}

=============================================================================
