--------------------------- MODULE ThreadHistories ---------------------------
(***************************************************************************)
(* What the message store promises for each thread: its history is a        *)
(* sequence that grows at its end, one message at a time, or is emptied.    *)
(* No thread is touched by what is done to another one.  AgentStore.tla is  *)
(* shown to implement this specification.                                   *)
(***************************************************************************)
EXTENDS Sequences

CONSTANTS
    Threads,   \* thread ids
    Messages   \* messages

VARIABLE log   \* [Threads -> the history of the thread, oldest message first]

Init == log = [t \in Threads |-> <<>>]

Extend(t, m) == log' = [log EXCEPT ![t] = Append(@, m)]

Empty(t) == log' = [log EXCEPT ![t] = <<>>]

Next == \E t \in Threads : Empty(t) \/ \E m \in Messages : Extend(t, m)

Spec == Init /\ [][Next]_log
=============================================================================
