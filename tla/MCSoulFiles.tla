----------------------------- MODULE MCSoulFiles -----------------------------
(* Instances of SoulFiles for TLC. *)
EXTENDS SoulFiles, TLC

\* Calls are interchangeable, and so are the entries they write.
Symmetry == Permutations(Ops)

\* A template in which one section stands between a heading and the place where another
\* spelling of that heading would be added.
MCTemplate == <<Short, CHOOSE h \in Longer : TRUE>>
=============================================================================
