------------------------------ MODULE AgentTools ------------------------------
(***************************************************************************)
(* The tool calls of one run: the loop of the agent_sdk library (external)  *)
(* carries out calls of run_subagent and code_execute one after another,    *)
(* sends an event before and after each of them into a channel, and         *)
(* run_agent takes the events out of it and broadcasts them.  A stop        *)
(* request ends run_agent, and its end of the channel with it.              *)
(***************************************************************************)
EXTENDS Naturals, Sequences

CONSTANTS
    MaxCalls,                           \* bound on the calls of the run
    MaxTexts, MaxUses, InCap, OutCap,   \* see Subagent
    PipeCap, MaxOutput                  \* see CodeExecute

ASSUME AgentToolsAssumption ==
    /\ MaxCalls \in Nat
    /\ MaxTexts \in Nat /\ MaxUses \in Nat /\ InCap \in Nat /\ OutCap \in Nat
    /\ PipeCap \in Nat /\ MaxOutput \in Nat

VARIABLES
    loop,      \* what the loop of the run does
    call,      \* the number of its call
    outbox,    \* its events that have not been forwarded
    run,       \* run_agent
    shown,     \* the events broadcast to clients
    tool, outcome, heard, count, progress, child, said, used, inbox,   \* see Subagent
    step, result, process, descendant, written, pipe, got              \* see CodeExecute

Sub == INSTANCE Subagent

Code == INSTANCE CodeExecute

subVars == <<tool, outcome, heard, count, progress, child, said, used, inbox>>
codeVars == <<step, result, process, descendant, written, pipe, got>>
vars == <<loop, call, outbox, run, shown, subVars, codeVars>>

Events == [call : 1..MaxCalls, what : {"begin", "end", "use", "result"}, id : 0..MaxUses]

ToolsTypeOK ==
    /\ Sub!SubagentTypeOK
    /\ Code!CodeTypeOK
    /\ loop \in {"thinking", "subagent", "code", "dead"}
    /\ call \in 0..MaxCalls
    /\ outbox \in Seq(Events) /\ Len(outbox) <= OutCap
    /\ shown \in Seq(Events)
    /\ run \in {"forwarding", "gone"}

Init ==
    /\ Sub!SubagentInit
    /\ Code!CodeInit
    /\ loop = "thinking"
    /\ call = 0
    /\ outbox = <<>>
    /\ run = "forwarding"
    /\ shown = <<>>

\* The loop sends an event of the call, or finds its channel closed.
Announces(n, what) ==
    \/ /\ run = "forwarding" /\ Len(outbox) < OutCap
       /\ outbox' = Append(outbox, [call |-> n, what |-> what, id |-> 0])
    \/ run = "gone" /\ UNCHANGED outbox

BeginCall(n) ==
    /\ loop = "thinking"
    /\ call < MaxCalls
    /\ n = call + 1
    /\ call' = n
    /\ Announces(n, "begin")
    /\ UNCHANGED <<run, shown>>

CallSubagent == BeginCall(call + 1) /\ Sub!Spawn /\ loop' = "subagent" /\ UNCHANGED codeVars

CallCode == BeginCall(call + 1) /\ Code!Execute /\ loop' = "code" /\ UNCHANGED subVars

\* The tool has returned, and its result goes into the conversation.
EndCall ==
    /\ \/ loop = "subagent" /\ tool = "returned"
       \/ loop = "code" /\ step = "returned"
    /\ Announces(call, "end")
    /\ loop' = "thinking"
    /\ UNCHANGED <<call, run, shown, subVars, codeVars>>

\* A panic of a tool ends the loop that called it.
LoopDies ==
    /\ loop = "subagent" /\ tool = "panicked"
    /\ loop' = "dead"
    /\ UNCHANGED <<call, outbox, run, shown, subVars, codeVars>>

\* run_agent receives an event and broadcasts it.
Forward ==
    /\ run = "forwarding"
    /\ outbox # <<>>
    /\ outbox' = Tail(outbox)
    /\ shown' = Append(shown, Head(outbox))
    /\ UNCHANGED <<loop, call, run, subVars, codeVars>>

\* POST /api/chat/stop: run_agent is dropped, while the loop is a task of its own.
StopRun ==
    /\ run = "forwarding"
    /\ run' = "gone"
    /\ outbox' = <<>>
    /\ UNCHANGED <<loop, call, shown, subVars, codeVars>>

SubagentStep(A) == loop = "subagent" /\ A /\ UNCHANGED <<loop, shown, codeVars>>

CodeStep(A) == loop = "code" /\ A /\ UNCHANGED <<loop, call, outbox, run, shown, subVars>>

Next ==
    \/ CallSubagent \/ CallCode \/ EndCall \/ LoopDies
    \/ Forward \/ StopRun
    \/ SubagentStep(Sub!SubagentNext)
    \/ CodeStep(Code!CodeNext)

\* Tasks that can go on do, and time limits run out.  Children and processes may hang, and
\* nothing makes a descendant let go of the pipes.
Fairness ==
    /\ WF_vars(EndCall) /\ WF_vars(LoopDies) /\ WF_vars(Forward)
    /\ WF_vars(SubagentStep(Sub!ToolStep)) /\ WF_vars(SubagentStep(Sub!TimeOut))
    /\ WF_vars(CodeStep(Code!ReadStep)) /\ WF_vars(CodeStep(Code!Kill))

Spec == Init /\ [][Next]_vars /\ Fairness

-----------------------------------------------------------------------------
(* Properties *)

\* An event of a call, other than its beginning, comes after the beginning and before the
\* end of the call, and a result after the use of its tool.
Bracketed(events) ==
    \A i \in DOMAIN events :
        LET before == {events[k] : k \in 1..(i - 1)}
            event(what, id) == [call |-> events[i].call, what |-> what, id |-> id]
        IN  events[i].what # "begin" =>
                /\ event("begin", 0) \in before
                /\ event("end", 0) \notin before
                /\ events[i].what = "result" => event("use", events[i].id) \in before

\* What clients are shown of a subagent stands between the beginning and the end of the
\* call that ran it, and a result has its tool before it: no progress of a child, which has
\* a task and a channel of its own, comes late or in the wrong order, also when the call
\* timed out, failed or panicked and the run went on with another call.
ProgressIsBracketed == Bracketed(shown)

\* A call that reports success has the whole answer: all the text that the child sent, or
\* all that the process wrote to both of its outputs.
ResultIsWhole ==
    /\ tool = "returned" /\ outcome = "success" => heard = said
    /\ step = "returned" /\ result = "exited" => got = written

\* Every call returns or ends its loop, although its child or process hangs, writes more
\* than a pipe holds, dies, or the run is stopped and nobody takes the events any more;
\* except while a descendant of the process that exited keeps the pipes open, as no limit
\* covers the reading.
CallsReturn ==
    loop \in {"subagent", "code"} ~>
        loop \in {"thinking", "dead"} \/ (descendant /\ step \in Code!Outputs)
=============================================================================
