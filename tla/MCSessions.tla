------------------------------ MODULE MCSessions ------------------------------
(* Instances of Sessions for TLC: their values are in the configurations. *)
EXTENDS SessionsProperties, TLC

\* Used where no liveness property is checked.
Symmetry == Permutations(Principals) \cup Permutations(Sids) \cup Permutations(Handlers)

=============================================================================
