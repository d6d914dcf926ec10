----------------------------- MODULE TaskRegistry -----------------------------
(***************************************************************************)
(* What the task scheduler promises, without its tables, loop, semaphore    *)
(* and tokio tasks: tasks are added and removed at any time; an occurrence  *)
(* of a task, once owed, stays owed until a run of that very task has       *)
(* ended, or the task is removed; the owed tasks are queued together, when  *)
(* nothing is queued or running; at most Limit of them run at a time; a     *)
(* crash ends every run and loses no occurrence.                            *)
(* Scheduler.tla is shown to implement this specification.                  *)
(***************************************************************************)
EXTENDS Naturals, FiniteSets

CONSTANTS
    Tasks,   \* task ids
    Limit    \* how many tasks may run at a time

VARIABLES
    task,    \* [Tasks -> "unborn", "listed" or "gone"]
    owed,    \* [Tasks -> whether an occurrence waits to be run]
    run      \* [Tasks -> "idle", "queued" or "running"]

vars == <<task, owed, run>>

Init ==
    /\ task = [t \in Tasks |-> "unborn"]
    /\ owed = [t \in Tasks |-> FALSE]
    /\ run = [t \in Tasks |-> "idle"]

\* A task is added, with an occurrence that is owed at once or not.
Add(t) ==
    /\ task[t] = "unborn"
    /\ task' = [task EXCEPT ![t] = "listed"]
    /\ \E now \in BOOLEAN : owed' = [owed EXCEPT ![t] = now]
    /\ UNCHANGED run

\* The time of an occurrence comes.
Occur(t) ==
    /\ task[t] = "listed"
    /\ owed' = [owed EXCEPT ![t] = TRUE]
    /\ UNCHANGED <<task, run>>

\* A removed task is owed nothing; a run of it that is queued or under way goes on.
Remove(t) ==
    /\ task[t] = "listed"
    /\ task' = [task EXCEPT ![t] = "gone"]
    /\ owed' = [owed EXCEPT ![t] = FALSE]
    /\ UNCHANGED run

\* Tasks that are owed an occurrence are queued, when the previous ones have all ended.
Queue(S) ==
    /\ \A t \in Tasks : run[t] = "idle"
    /\ \A t \in S : task[t] = "listed" /\ owed[t]
    /\ run' = [t \in Tasks |-> IF t \in S THEN "queued" ELSE "idle"]
    /\ UNCHANGED <<task, owed>>

Start(t) ==
    /\ run[t] = "queued"
    /\ Cardinality({u \in Tasks : run[u] = "running"}) < Limit
    /\ run' = [run EXCEPT ![t] = "running"]
    /\ UNCHANGED <<task, owed>>

\* The run of a task ends, and with it the occurrence it was queued for, unless the end
\* of the run could not be recorded.
End(t) ==
    /\ run[t] = "running"
    /\ run' = [run EXCEPT ![t] = "idle"]
    /\ owed' \in {owed, [owed EXCEPT ![t] = FALSE]}
    /\ UNCHANGED task

Crash ==
    /\ run' = [t \in Tasks |-> "idle"]
    /\ UNCHANGED <<task, owed>>

Next ==
    \/ \E t \in Tasks : Add(t) \/ Occur(t) \/ Remove(t) \/ Start(t) \/ End(t)
    \/ \E S \in SUBSET Tasks : Queue(S)
    \/ Crash

Spec == Init /\ [][Next]_vars
=============================================================================
