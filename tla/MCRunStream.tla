----------------------------- MODULE MCRunStream -----------------------------
(* An instance of RunStream for TLC. *)
EXTENDS RunStream

\* A call that is still going on when a text comes.
MCCalls == {<<1, 3>>}
=============================================================================
