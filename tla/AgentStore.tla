------------------------------ MODULE AgentStore ------------------------------
(***************************************************************************)
(* The messages that agent loops keep in the table agent_messages, one      *)
(* history for each thread.  The thread of a chat run is its session, so    *)
(* two runs of one session, and a scheduled task in that session's context, *)
(* work on the same history, and nothing orders their calls.                *)
(*                                                                         *)
(* Each statement is made under the database mutex and is one action.       *)
(* replace_history is a DELETE and then an INSERT for every message, with   *)
(* the mutex released in between and no transaction.  A call may stop for   *)
(* good between two statements: that is all that a crash, or the end of its *)
(* loop, does to it.                                                        *)
(***************************************************************************)
EXTENDS Naturals, Sequences, FiniteSets, FiniteSetsExt

CONSTANTS
    Threads,    \* thread ids
    Calls,      \* calls of the store, by any of the loops
    MaxNew,     \* bound on the messages of one replacement
    None,       \* the last DELETE of a thread that had none
    DbMayFail   \* whether a statement may return an error

ASSUME AgentStoreAssumption ==
    /\ None \notin Calls
    /\ MaxNew \in Nat \ {0}
    /\ DbMayFail \in BOOLEAN

VARIABLES
    table,       \* agent_messages: [the rowids in use -> their rows]
    stage,       \* [Calls -> where the call stands]
    thread,      \* [Calls -> the thread_id it is about]
    size,        \* [Calls -> how many messages it is to insert]
    stored,      \* [Calls -> how many of them it has inserted]
    lastDelete   \* history: [Threads -> the last call that deleted the thread's rows]

vars == <<table, stage, thread, size, stored, lastDelete>>

\* The i-th message that a call is given.
Messages == [call : Calls, index : 1..MaxNew]

Rows == [thread : Threads, message : Messages]

Stages == {"none", "inserting", "done", "failed"}

TypeOK ==
    /\ DOMAIN table \subseteq Nat
    /\ IsFiniteSet(DOMAIN table)
    /\ table \in [DOMAIN table -> Rows]
    /\ stage \in [Calls -> Stages]
    /\ thread \in [Calls -> Threads \cup {None}]
    /\ size \in [Calls -> 0..MaxNew]
    /\ stored \in [Calls -> 0..MaxNew]
    /\ \A c \in Calls : stage[c] = "inserting" => stored[c] < size[c]
    /\ lastDelete \in [Threads -> Calls \cup {None}]

Init ==
    /\ table = [k \in {} |-> None]
    /\ stage = [c \in Calls |-> "none"]
    /\ thread = [c \in Calls |-> None]
    /\ size = [c \in Calls |-> 0]
    /\ stored = [c \in Calls |-> 0]
    /\ lastDelete = [t \in Threads |-> None]

-----------------------------------------------------------------------------
(* The statements *)

\* The rowids of the thread's rows.
RowsOf(t) == {k \in DOMAIN table : table[k].thread = t}

\* Mutant: the lowest number that is free is issued.
InsertFirstFree(row) ==
    LET rowid == Min((1..Cardinality(DOMAIN table) + 1) \ DOMAIN table)
    IN  table' = [k \in DOMAIN table \cup {rowid} |-> IF k = rowid THEN row ELSE table[k]]

\* SQLite's choice: one more than the largest rowid in use, by any thread.
NewRowid == IF DOMAIN table = {} THEN 1 ELSE Max(DOMAIN table) + 1

Insert(row) ==
    table' = [k \in DOMAIN table \cup {NewRowid} |-> IF k = NewRowid THEN row ELSE table[k]]

\* When the last rows of the table are among them, their rowids will be issued again.
DeleteThread(t) == table' = [k \in DOMAIN table \ RowsOf(t) |-> table[k]]

\* ORDER BY rowid: the i-th rowid is the one with i of them up to it.
InOrder(rowids) ==
    [i \in 1..Cardinality(rowids) |->
        CHOOSE k \in rowids : Cardinality({j \in rowids : j <= k}) = i]

GetHistory(t) ==
    [i \in 1..Cardinality(RowsOf(t)) |-> table[InOrder(RowsOf(t))[i]].message]

-----------------------------------------------------------------------------
(* The calls.  One whose first statement fails leaves no trace. *)

AppendMessage(c, t) ==
    /\ stage[c] = "none"
    /\ Insert([thread |-> t, message |-> [call |-> c, index |-> 1]])
    /\ stage' = [stage EXCEPT ![c] = "done"]
    /\ UNCHANGED <<thread, size, stored, lastDelete>>

\* replace_history first calls clear, and clear alone is a replacement by nothing: n is
\* the number of the new messages.
ClearAndReplace(c, t, n) ==
    /\ stage[c] = "none"
    /\ DeleteThread(t)
    /\ lastDelete' = [lastDelete EXCEPT ![t] = c]
    /\ thread' = [thread EXCEPT ![c] = t]
    /\ size' = [size EXCEPT ![c] = n]
    /\ stage' = [stage EXCEPT ![c] = IF n = 0 THEN "done" ELSE "inserting"]
    /\ UNCHANGED stored

\* Mutant: a message that cannot be stored is left out.
InsertNextOrSkip(c) ==
    /\ stage[c] = "inserting"
    /\ \/ Insert([thread |-> thread[c], message |-> [call |-> c, index |-> stored[c] + 1]])
       \/ DbMayFail /\ UNCHANGED table
    /\ stored' = [stored EXCEPT ![c] = @ + 1]
    /\ stage' = [stage EXCEPT ![c] = IF stored'[c] = size[c] THEN "done" ELSE "inserting"]
    /\ UNCHANGED <<thread, size, lastDelete>>

\* Mutant: the end is looked for before the message is counted.
InsertNextLate(c) ==
    /\ stage[c] = "inserting"
    /\ Insert([thread |-> thread[c], message |-> [call |-> c, index |-> stored[c] + 1]])
    /\ stored' = [stored EXCEPT ![c] = @ + 1]
    /\ stage' = [stage EXCEPT ![c] = IF stored[c] = size[c] THEN "done" ELSE "inserting"]
    /\ UNCHANGED <<thread, size, lastDelete>>

\* The INSERT of the next message.
InsertNext(c) ==
    /\ stage[c] = "inserting"
    /\ Insert([thread |-> thread[c], message |-> [call |-> c, index |-> stored[c] + 1]])
    /\ stored' = [stored EXCEPT ![c] = @ + 1]
    /\ stage' = [stage EXCEPT ![c] = IF stored'[c] = size[c] THEN "done" ELSE "inserting"]
    /\ UNCHANGED <<thread, size, lastDelete>>

\* The INSERT fails, and the replacement ends there with its error.
InsertFails(c) ==
    /\ DbMayFail
    /\ stage[c] = "inserting"
    /\ stage' = [stage EXCEPT ![c] = "failed"]
    /\ UNCHANGED <<table, thread, size, stored, lastDelete>>

Next ==
    \E c \in Calls :
        \/ \E t \in Threads : AppendMessage(c, t)
        \/ \E t \in Threads, n \in 0..MaxNew : ClearAndReplace(c, t, n)
        \/ InsertNext(c)
        \/ InsertFails(c)

Spec == Init /\ [][Next]_vars

-----------------------------------------------------------------------------
(* Properties *)

\* The numbers of the call's messages in the thread's history, in its order.
Surviving(c, t) ==
    LET mine == {k \in RowsOf(t) : table[k].message.call = c}
    IN  [i \in 1..Cardinality(mine) |-> table[InOrder(mine)[i]].message.index]

\* Unless another call deletes the thread's rows meanwhile or later, the messages of a
\* replacement are in the history in their order and without a hole, all of them when it
\* has returned, and a beginning of them when it is under way or was cut short.  Appends of
\* other loops may stand between them, and calls on other threads reuse rowids.
ReplacementIsWhole ==
    \A t \in Threads, c \in Calls :
        lastDelete[t] = c =>
            /\ Surviving(c, t) = [i \in 1..stored[c] |-> i]
            /\ stage[c] = "done" => stored[c] = size[c]

\* The history of each thread only grows at its end or is emptied, whatever happens to
\* the rows of other threads: the order of the rowids is the order of insertion, although
\* a rowid is issued again after a deletion.
Histories == INSTANCE ThreadHistories WITH log <- [t \in Threads |-> GetHistory(t)]

ImplementsHistories == Histories!Spec
=============================================================================
