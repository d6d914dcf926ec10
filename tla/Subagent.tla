------------------------------- MODULE Subagent -------------------------------
(***************************************************************************)
(* The tool run_subagent: it starts an agent loop of its own, receives the  *)
(* events of that loop with a limit on the time of the whole call, keeps    *)
(* the text, and sends what the child does with its tools, as progress,     *)
(* into the channel of the events of the parent's loop.                     *)
(*                                                                         *)
(* The child is the loop of the agent_sdk library and external: it speaks,  *)
(* uses tools one at a time, ends, reports an error, dies without a word,   *)
(* or does nothing for ever.  When the tool returns it drops the channel of *)
(* the child, which may still be at work; nothing here can tell.            *)
(***************************************************************************)
EXTENDS Naturals, Sequences

CONSTANTS
    MaxTexts,   \* bound on the pieces of text of a child
    MaxUses,    \* bound on the tools a child uses
    InCap,      \* capacity of the channel of the child's events
    OutCap      \* capacity of the channel of the parent's events

VARIABLES
    tool,       \* where the call stands
    outcome,    \* what it returned
    heard,      \* pieces of text received: final_response
    count,      \* tool_count
    progress,   \* the progress event to be sent
    child,      \* what the child does
    said,       \* pieces of text it has sent
    used,       \* tools it has begun to use
    inbox,      \* its events that have not been received
    call,       \* the number of this call in the parent's run
    outbox,     \* events of the parent's run that have not been forwarded
    run         \* whether run_agent forwards them, or is gone with its end of the channel

mine == <<tool, outcome, heard, count, progress>>
childs == <<child, said, used>>
parents == <<call, outbox, run>>

NoProgress == [what |-> "none", id |-> 0]

Progress == [what : {"use", "result"}, id : 0..MaxUses]

SubagentTypeOK ==
    /\ tool \in {"idle", "receiving", "sending", "returned", "panicked"}
    /\ outcome \in {"none", "success", "error", "timedOut"}
    /\ heard \in 0..MaxTexts
    /\ count \in 0..MaxUses
    /\ progress \in Progress \cup {NoProgress}
    /\ child \in {"none", "thinking", "using", "over"}
    /\ said \in 0..MaxTexts
    /\ used \in 0..MaxUses
    /\ inbox \in Seq({"text", "use", "result", "done", "error"})
    /\ Len(inbox) <= InCap

SubagentInit ==
    /\ tool = "idle"
    /\ outcome = "none"
    /\ heard = 0 /\ count = 0
    /\ progress = NoProgress
    /\ child = "none"
    /\ said = 0 /\ used = 0
    /\ inbox = <<>>

\* The call begins: the child is started with an empty history, unless the key of its
\* provider is missing, which is a panic.
Spawn ==
    /\ \/ tool' = "receiving" /\ child' = "thinking"
       \/ tool' = "panicked" /\ child' = "none"
    /\ outcome' = "none"
    /\ heard' = 0 /\ count' = 0
    /\ progress' = NoProgress
    /\ said' = 0 /\ used' = 0
    /\ inbox' = <<>>

-----------------------------------------------------------------------------
(* The child *)

Emits(event) ==
    /\ tool \in {"receiving", "sending"}
    /\ Len(inbox) < InCap
    /\ inbox' = Append(inbox, event)
    /\ UNCHANGED <<mine, parents>>

ChildSpeaks ==
    /\ child = "thinking" /\ said < MaxTexts
    /\ said' = said + 1
    /\ Emits("text")
    /\ UNCHANGED <<child, used>>

ChildUsesTool ==
    /\ child = "thinking" /\ used < MaxUses
    /\ child' = "using"
    /\ used' = used + 1
    /\ Emits("use")
    /\ UNCHANGED said

ChildHasResult ==
    /\ child = "using"
    /\ child' = "thinking"
    /\ Emits("result")
    /\ UNCHANGED <<said, used>>

ChildEnds(event) ==
    /\ child = "thinking"
    /\ child' = "over"
    /\ Emits(event)
    /\ UNCHANGED <<said, used>>

\* A panic of the child's loop closes its channel.
ChildDies ==
    /\ tool \in {"receiving", "sending"}
    /\ child \in {"thinking", "using"}
    /\ child' = "over"
    /\ UNCHANGED <<said, used, inbox, mine, parents>>

ChildStep ==
    \/ ChildSpeaks \/ ChildUsesTool \/ ChildHasResult \/ ChildDies
    \/ \E event \in {"done", "error"} : ChildEnds(event)

-----------------------------------------------------------------------------
(* The receive loop of run_subagent *)

Returns(how) == tool' = "returned" /\ outcome' = how

Take(event) ==
    /\ tool = "receiving"
    /\ inbox # <<>>
    /\ Head(inbox) = event
    /\ inbox' = Tail(inbox)
    /\ UNCHANGED <<childs, parents>>

ReceiveText ==
    /\ Take("text")
    /\ heard' = heard + 1
    /\ UNCHANGED <<tool, outcome, count, progress>>

\* Mutant: the tool does not wait until its progress has been sent.
ReceiveUseInPassing ==
    /\ Take("use")
    /\ count' = count + 1
    /\ progress' = [what |-> "use", id |-> count + 1]
    /\ UNCHANGED <<tool, outcome, heard>>

\* The id of the progress that clients are shown is the number of the tool.
ReceiveUse ==
    /\ Take("use")
    /\ count' = count + 1
    /\ progress' = [what |-> "use", id |-> count + 1]
    /\ tool' = "sending"
    /\ UNCHANGED <<outcome, heard>>

ReceiveResult ==
    /\ Take("result")
    /\ progress' = [what |-> "result", id |-> count]
    /\ tool' = "sending"
    /\ UNCHANGED <<outcome, heard, count>>

ReceiveDone == Take("done") /\ Returns("success") /\ UNCHANGED <<heard, count, progress>>

ReceiveError == Take("error") /\ Returns("error") /\ UNCHANGED <<heard, count, progress>>

\* A command or a line of more than 60 bytes is cut at byte 57, and the cut may fall inside
\* a character.
CutPanics ==
    /\ Take("use") \/ Take("result")
    /\ tool' = "panicked"
    /\ UNCHANGED <<outcome, heard, count, progress>>

\* The channel is closed without "done": that counts as success.
ReceiveNone ==
    /\ tool = "receiving"
    /\ inbox = <<>> /\ child = "over"
    /\ Returns("success")
    /\ UNCHANGED <<heard, count, progress, childs, inbox, parents>>

\* Mutant: the time limit counts only while nothing has been received.
TimeOutIfSilent ==
    /\ tool = "receiving"
    /\ heard = 0
    /\ Returns("timedOut")
    /\ UNCHANGED <<heard, count, progress, childs, inbox, parents>>

\* The limit is looked at before each event; a child with nothing to say does not delay it.
TimeOut ==
    /\ tool = "receiving"
    /\ Returns("timedOut")
    /\ UNCHANGED <<heard, count, progress, childs, inbox, parents>>

\* The progress waits for a place in the channel, however long that takes; when nobody
\* receives any more it is dropped.
SendProgress ==
    /\ progress # NoProgress
    /\ \/ /\ run = "forwarding" /\ Len(outbox) < OutCap
          /\ outbox' = Append(outbox, [call |-> call, what |-> progress.what, id |-> progress.id])
       \/ run = "gone" /\ UNCHANGED outbox
    /\ progress' = NoProgress
    /\ tool' = IF tool = "sending" THEN "receiving" ELSE tool
    /\ UNCHANGED <<outcome, heard, count, childs, inbox, call, run>>

ToolStep ==
    \/ ReceiveText \/ ReceiveUse \/ ReceiveResult \/ ReceiveDone \/ ReceiveError \/ CutPanics
    \/ ReceiveNone \/ SendProgress

SubagentNext == ChildStep \/ ToolStep \/ TimeOut
=============================================================================
