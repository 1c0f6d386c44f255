------------------------------ MODULE MCStore ------------------------------
(***************************************************************************)
(* Instances of the store for TLC. Keys: evA, evB, evC are event keys,     *)
(* rawA and rawB raw aliases of A and B, ext is a source outside the       *)
(* memory.                                                                 *)
(***************************************************************************)
EXTENDS StoreProperties, TLC

Symmetry == Permutations(RecIds)

Deliver(key, digest, class, own, refs, targets) ==
  [key |-> key, digest |-> digest, class |-> class, own |-> own,
   refs |-> refs, targets |-> targets]

\* A is captured; B derives from A's raw alias and C from B's; a revision of
\* A cites C, and is refused when C has been blocked.
CaptureA == Deliver("evA", 1, "material", {"rawA"}, {}, {})
ReviseA == Deliver("evA", 2, "material", {"rawA"}, {"evC"}, {})
CaptureB == Deliver("evB", 1, "material", {"rawB"}, {"rawA"}, {})
CaptureC == Deliver("evC", 1, "material", {}, {"rawB"}, {})
OpenA == Deliver("evO", 1, "opened", {"rawA"}, {}, {})
DropA == Deliver("evI", 1, "invalidated", {}, {}, {"evA"})
DropExt == Deliver("evI", 1, "invalidated", {}, {}, {"ext"})

AllDeliveries == {CaptureA, ReviseA, CaptureB, CaptureC, DropA}
ExtDrop == {DropExt}

\* B was queued by an earlier version although its event is blocked.
QueuedB == Deliver("evB", 1, "material", {}, {}, {})
RetryDeliveries == {CaptureA, OpenA, QueuedB}
BlockedB == [s \in Scopes |-> {"evB"}]
RetryQueue == HostScopes \X {QueuedB}

NoTombs == [s \in Scopes |-> {}]
NoFacts == {}
OnlyRawB == {{"rawB"}}
Unsourced == {{}}
ExtOrNone == {{}, {"ext"}}

\* Facts of one group that agree, disagree, and disagree at another time;
\* and one of another group.
FactOf(group, value, from, to) ==
  [group |-> group, value |-> value, from |-> from, to |-> to]
AllFacts == {FactOf("g", "x", 0, 9), FactOf("g", "y", 0, 9),
             FactOf("g", "x", 1, 2), FactOf("h", "x", 0, 9)}

\* 1 << n.
CodeBackoff == [n \in 1..MaxAttempts |-> 2 ^ n]
=============================================================================
