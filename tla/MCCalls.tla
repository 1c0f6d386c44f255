------------------------------- MODULE MCCalls -------------------------------
(***************************************************************************)
(* Instances of the write calls for TLC. The calls share keys in the ways  *)
(* that matter: repeated as they are, under another effect key or none,    *)
(* and the same keys for another content, scope or principal.              *)
(***************************************************************************)
EXTENDS CallsProperties, TLC

Symmetry == Permutations(Workers) \cup Permutations(Ids)

Call(principal, scope, op, key, body) ==
  [principal |-> principal, scope |-> scope, op |-> op, key |-> key, body |-> body]
Query(principal, key) == [principal |-> principal, key |-> key]

First == Call("p", "s", "o1", "k1", "x")
Unkeyed == Call("p", "s", "o1", NoKey, "x")
Rekeyed == Call("p", "s", "o1", "k2", "x")
OtherBody == Call("p", "s", "o1", "k2", "y")
OtherOp == Call("p", "s", "o2", "k1", "x")
OtherScope == Call("p", "t", "o1", "k1", "x")
OtherCaller == Call("q", "s", "o1", "k1", "x")

AllWrites == {First, Unkeyed, Rekeyed, OtherBody, OtherOp, OtherScope, OtherCaller}
LookUps == {Query("p", "k1"), Query("p", "k2"), Query("q", "k1")}

\* Both scopes are granted, or one.
Revoking == {[p \in Principals |-> Scopes], [p \in Principals |-> {"s"}]}

=============================================================================
