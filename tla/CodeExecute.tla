----------------------------- MODULE CodeExecute -----------------------------
(***************************************************************************)
(* The tool code_execute: it spawns an interpreter with a pipe for each of  *)
(* its two outputs, waits with a time limit until the process has exited,   *)
(* and only then reads the pipes to their ends, stdout first.               *)
(*                                                                         *)
(* The process is external: it writes, blocks on a full pipe, may leave a   *)
(* descendant behind that holds the pipes open, and exits or does not.      *)
(***************************************************************************)
EXTENDS Naturals

CONSTANTS
    PipeCap,    \* what a pipe holds
    MaxOutput   \* bound on what the process writes to each output

VARIABLES
    step,       \* where the call stands
    result,     \* what it returned
    process,    \* the interpreter
    descendant, \* whether another process holds the write ends of the pipes
    written,    \* [Outputs -> what the process has written]
    pipe,       \* [Outputs -> what is in the pipe]
    got         \* [Outputs -> what the tool has read]

codeVars == <<step, result, process, descendant, written, pipe, got>>

Outputs == {"stdout", "stderr"}

CodeTypeOK ==
    /\ step \in {"idle", "waiting", "stdout", "stderr", "returned"}
    /\ result \in {"none", "exited", "notSpawned", "waitFailed", "timedOut"}
    /\ process \in {"none", "running", "exited", "killed"}
    /\ descendant \in BOOLEAN
    /\ written \in [Outputs -> 0..MaxOutput]
    /\ pipe \in [Outputs -> 0..PipeCap]
    /\ got \in [Outputs -> 0..MaxOutput]

Zero == [o \in Outputs |-> 0]

CodeInit ==
    /\ step = "idle"
    /\ result = "none"
    /\ process = "none"
    /\ descendant = FALSE
    /\ written = Zero /\ pipe = Zero /\ got = Zero

\* The call begins; the interpreter may be missing.
Execute ==
    /\ \/ step' = "waiting" /\ process' = "running" /\ result' = "none"
       \/ step' = "returned" /\ process' = "none" /\ result' = "notSpawned"
    /\ descendant' = FALSE
    /\ written' = Zero /\ pipe' = Zero /\ got' = Zero

-----------------------------------------------------------------------------
(* The process *)

ProcessWrites(o) ==
    /\ process = "running"
    /\ written[o] < MaxOutput
    /\ pipe[o] < PipeCap
    /\ written' = [written EXCEPT ![o] = @ + 1]
    /\ pipe' = [pipe EXCEPT ![o] = @ + 1]
    /\ UNCHANGED <<step, result, process, descendant, got>>

\* A command in the background inherits the pipes.
ProcessForks ==
    /\ process = "running"
    /\ descendant' = TRUE
    /\ UNCHANGED <<step, result, process, written, pipe, got>>

DescendantExits ==
    /\ descendant
    /\ descendant' = FALSE
    /\ UNCHANGED <<step, result, process, written, pipe, got>>

ProcessExits ==
    /\ process = "running"
    /\ process' = "exited"
    /\ UNCHANGED <<step, result, descendant, written, pipe, got>>

ProcessStep ==
    \/ \E o \in Outputs : ProcessWrites(o)
    \/ ProcessForks \/ DescendantExits \/ ProcessExits

-----------------------------------------------------------------------------
(* The tool *)

\* child.wait() yields the exit status.
ChildExited ==
    /\ step = "waiting"
    /\ process = "exited"
    /\ step' = "stdout"
    /\ UNCHANGED <<result, process, descendant, written, pipe, got>>

\* The time limit: the process is killed, its output is never read.
Kill ==
    /\ step = "waiting"
    /\ step' = "returned"
    /\ result' = "timedOut"
    /\ process' = "killed"
    /\ UNCHANGED <<descendant, written, pipe, got>>

\* Waiting ends with an error, and the process is left to itself.
WaitFails ==
    /\ step = "waiting"
    /\ step' = "returned"
    /\ result' = "waitFailed"
    /\ UNCHANGED <<process, descendant, written, pipe, got>>

\* Mutant: one read is taken to yield everything.
ReadOnce(o) ==
    /\ step = o
    /\ pipe[o] > 0
    /\ \E n \in 1..pipe[o] :
          /\ got' = [got EXCEPT ![o] = @ + n]
          /\ pipe' = [pipe EXCEPT ![o] = @ - n]
    /\ step' = IF o = "stdout" THEN "stderr" ELSE "returned"
    /\ result' = IF o = "stdout" THEN "none" ELSE "exited"
    /\ UNCHANGED <<process, descendant, written>>

\* read_to_end reads what there is (the error of a read would be dropped; pipes have none) ...
Read(o) ==
    /\ step = o
    /\ pipe[o] > 0
    /\ \E n \in 1..pipe[o] :
          /\ got' = [got EXCEPT ![o] = @ + n]
          /\ pipe' = [pipe EXCEPT ![o] = @ - n]
    /\ UNCHANGED <<step, result, process, descendant, written>>

\* ... until every write end is closed.
EndOfFile(o) ==
    /\ step = o
    /\ pipe[o] = 0
    /\ process = "exited" /\ ~descendant
    /\ step' = IF o = "stdout" THEN "stderr" ELSE "returned"
    /\ result' = IF o = "stdout" THEN "none" ELSE "exited"
    /\ UNCHANGED <<process, descendant, written, pipe, got>>

ReadStep == ChildExited \/ \E o \in Outputs : Read(o) \/ EndOfFile(o)

CodeNext == ProcessStep \/ ReadStep \/ Kill \/ WaitFails
=============================================================================
