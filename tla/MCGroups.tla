------------------------------- MODULE MCGroups -------------------------------
(* An instance of Groups for TLC. *)
EXTENDS Groups, TLC

\* No action tells one group, or one creation, from another.
Symmetry == Permutations(Groups) \cup Permutations(Creates)
=============================================================================
