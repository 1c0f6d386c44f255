----------------------------- MODULE MCWorklist -----------------------------
(* An upgraded database for TLC, with the worklists opened up. A and B cite *)
(* each other's aliases and are queued in every scope; A cites ext as well, *)
(* which is blocked in one scope. A revision of A cites ext and not B.      *)
EXTENDS Worklist, MCStore

CaptureExt == Deliver("evA", 1, "material", {"rawA"}, {"ext", "rawB"}, {})
ReviseExt == Deliver("evA", 2, "material", {"rawA"}, {"ext"}, {})
DropTwo == Deliver("evI", 1, "invalidated", {}, {}, {"evA", "evB"})
UpgradeDeliveries == {CaptureExt, CaptureB, ReviseExt, DropTwo}
BlockedScope == CHOOSE s \in HostScopes : TRUE
ExtTombs == [s \in Scopes |-> IF s = BlockedScope THEN {"ext"} ELSE {}]
QueuedBoth == HostScopes \X {CaptureExt, CaptureB}
OnlyExt == {{"ext"}}

=============================================================================
