------------------------------- MODULE MCAccess -------------------------------
(* An instance of Access for TLC. *)
EXTENDS Access

CONSTANTS Key, Word

\* An arbitrary text, the text of a password, and the empty one.
MCSecrets == {Key, Derived(Word), Empty}

\* What needs no knowledge: the secret without any settings, and that of an empty password.
MCKnown == {Empty, Derived(Empty)}
=============================================================================
