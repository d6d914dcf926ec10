------------------------------ MODULE RunStream ------------------------------
(***************************************************************************)
(* How the events of one chat run reach its listeners: run_agent takes them *)
(* from the agent loop of the library and sends them to a tokio broadcast   *)
(* channel of bounded capacity; the accumulator task records texts and tool *)
(* calls for replay; the client of POST /api/chat listens from the start;   *)
(* clients of GET /api/chat/stream/:run_id replay the accumulator and then  *)
(* listen.  A response merges this channel with the channel of custom        *)
(* events, and ends when both have lost their last sender: run_agent's, the *)
(* ones in active_runs and custom_events, the clones that reconnecting      *)
(* handlers hold for a moment, and those the library's task holds in the    *)
(* hooks (ClawHooks) and in the context of the tools (ClawContext).         *)
(*                                                                         *)
(* Events are numbered in the order run_agent sends them.  The last one,    *)
(* NumEvents, is Done.  An event that transform_event maps to nothing       *)
(* counts as delivered and shows nothing.                                   *)
(***************************************************************************)
EXTENDS Naturals, Sequences, SequencesExt

CONSTANTS
    NumEvents,  \* events of a run that is not cut short, the last one Done
    Texts,      \* events that are text deltas
    Calls,      \* tool calls, pairs of the event of the start and that of the end
    Capacity,   \* of the broadcast channel (256 in the code)
    First,      \* the client of POST /api/chat
    Returning   \* clients of GET /api/chat/stream/:run_id

Events == 1..NumEvents
Starts == {call[1] : call \in Calls}
Ends == {call[2] : call \in Calls}

\* What the accumulator records; thinking, progress, errors and Done it does not.
Recordable == Texts \cup Starts \cup Ends

CallOf(s) == {s} \cup {e \in Ends : <<s, e>> \in Calls}

ASSUME RunStreamAssumption ==
    /\ NumEvents \in Nat \ {0}
    /\ Capacity \in Nat \ {0}
    /\ Texts \subseteq Events
    /\ Calls \subseteq Events \X Events
    /\ \A call \in Calls : call[1] < call[2]
    /\ \A call, other \in Calls :
            call[1] = other[1] \/ call[2] = other[2] => call = other
    /\ Starts \cap Ends = {} /\ Texts \cap (Starts \cup Ends) = {}
    /\ NumEvents \notin Recordable
    /\ First \notin Returning

Clients == Returning \cup {First}

VARIABLES
    sent,        \* events sent so far
    runner,      \* the agent task: "running", "aborted" and still in its last poll, "over"
                 \* (dropped, its senders with it), or "panicked"
    loop,        \* the library's task: "none", "running" (its senders held), "ended"
    listed,      \* active_runs holds a sender of the channel
    asking,      \* custom_events holds a sender of the channel of custom events
    replayable,  \* run_accumulators holds the accumulator
    text,        \* the accumulator's text, by the events it is made of
    calls,       \* its tool calls in order, each the set of its start and, if any, its end
    accPos,      \* events the accumulator's receiver has consumed
    accAlive,    \* the accumulator task is in its loop
    stage,       \* [Clients -> where the client's request stands]
    pos,         \* [Clients -> events the client's receiver has consumed or skipped]
    replayed,    \* [Clients -> what the client was shown first, in order]
    view,        \* [Clients -> events it was shown live after that, in order]
    lagged       \* history: clients whose receiver has skipped events

run == <<sent, runner, loop, listed, asking, replayable>>
accumulator == <<text, calls, accPos, accAlive>>
listeners == <<stage, pos, replayed, view, lagged>>
vars == <<run, accumulator, listeners>>

Stages == {"none", "opened", "replayed", "live", "closed"}

TypeOK ==
    /\ sent \in 0..NumEvents
    /\ runner \in {"running", "aborted", "over", "panicked"}
    /\ loop \in {"none", "running", "ended"}
    /\ listed \in BOOLEAN
    /\ asking \in BOOLEAN
    /\ replayable \in BOOLEAN
    /\ text \in Seq(Events)
    /\ calls \in Seq(SUBSET Events)
    /\ accPos \in 0..sent
    /\ accAlive \in BOOLEAN
    /\ stage \in [Clients -> Stages]
    /\ pos \in [Clients -> 0..NumEvents]
    /\ replayed \in [Clients -> Seq(SUBSET Events)]
    /\ view \in [Clients -> Seq(Events)]
    /\ lagged \subseteq Clients

\* create_chat has registered the run and spawned the agent; the first client stands at
\* the given stage.
Registered(firstStage) ==
    /\ sent = 0
    /\ runner = "running"
    /\ loop = "none"
    /\ listed = TRUE
    /\ asking = TRUE
    /\ replayable = TRUE
    /\ text = <<>>
    /\ calls = <<>>
    /\ accPos = 0
    /\ accAlive = TRUE
    /\ stage = [c \in Clients |-> IF c = First THEN firstStage ELSE "none"]
    /\ pos = [c \in Clients |-> 0]
    /\ replayed = [c \in Clients |-> <<>>]
    /\ view = [c \in Clients |-> <<>>]
    /\ lagged = {}

\* Mutant: the first client subscribes after the agent is spawned.
InitSubscribingLate == Registered("replayed")

\* The first client and the accumulator subscribed before the agent was spawned.
Init == Registered("live")

\* A receiver at position p has been overtaken by the channel's window.
Overrun(p) == sent - p > Capacity

\* Neither the agent task nor the library's task holds senders any more.
RunHasLetGo == runner \in {"over", "panicked"} /\ loop # "running"

\* Every sender of the events is dropped.  A handler that has looked the run up holds a
\* clone until it has subscribed.
ChannelClosed ==
    /\ RunHasLetGo
    /\ ~listed
    /\ \A c \in Returning : stage[c] \notin {"opened", "replayed"}

\* Every sender of custom events is dropped.  A client that found none in the map listens
\* to a channel that is closed from the start; its stream still ends with the other one.
CustomClosed == RunHasLetGo /\ ~asking

-----------------------------------------------------------------------------
(* The run *)

\* run_agent has put its prompt, provider and tools together and starts the library's
\* task, with a sender in the hooks and one in the context of the tools.
LoopStarts ==
    /\ runner \in {"running", "aborted"}
    /\ loop = "none"
    /\ loop' = "running"
    /\ UNCHANGED <<sent, runner, listed, asking, replayable, accumulator, listeners>>

\* The library's task returns, or is dropped.
LoopEnds ==
    /\ loop = "running"
    /\ loop' = "ended"
    /\ UNCHANGED <<sent, runner, listed, asking, replayable, accumulator, listeners>>

\* run_agent forwards an event; after Done it leaves the loop.
SendEvent ==
    /\ runner \in {"running", "aborted"}
    /\ loop # "none"
    /\ sent < NumEvents
    /\ sent' = sent + 1
    /\ UNCHANGED <<runner, loop, listed, asking, replayable, accumulator, listeners>>

\* A stop request aborts the task, which takes effect at its next await.
RunnerIsAborted ==
    /\ runner = "running"
    /\ runner' = "aborted"
    /\ UNCHANGED <<sent, loop, listed, asking, replayable, accumulator, listeners>>

\* run_agent returns after Done or because the loop's own channel closed, or the abort
\* takes effect, wherever the library's task stands then.
RunnerEnds ==
    /\ \/ runner = "running" /\ loop # "none"
       \/ runner = "aborted"
    /\ runner' = "over"
    /\ UNCHANGED <<sent, loop, listed, asking, replayable, accumulator, listeners>>

RunnerPanics ==
    /\ runner \in {"running", "aborted"}
    /\ runner' = "panicked"
    /\ UNCHANGED <<sent, loop, listed, asking, replayable, accumulator, listeners>>

\* Mutant: the run is left in active_runs and custom_events.
UnlistAccumulatorOnly ==
    /\ runner # "running"
    /\ replayable
    /\ replayable' = FALSE
    /\ UNCHANGED <<sent, runner, loop, listed, asking, accumulator, listeners>>

\* The clean-up of the agent task, or of the stop request that aborted it or that finds it
\* panicked: active_runs, then custom_events, run_accumulators last.
Unlist ==
    /\ runner # "running"
    /\ \/ listed /\ listed' = FALSE /\ UNCHANGED <<asking, replayable>>
       \/ ~listed /\ asking /\ asking' = FALSE /\ UNCHANGED <<listed, replayable>>
       \/ ~asking /\ replayable /\ replayable' = FALSE /\ UNCHANGED <<listed, asking>>
    /\ UNCHANGED <<sent, runner, loop, accumulator, listeners>>

-----------------------------------------------------------------------------
(* The accumulator task *)

\* The text grows, a call is added, or the call that has begun with the end's id gets its
\* output.
Record(e) ==
    /\ text' = IF e \in Texts THEN Append(text, e) ELSE text
    /\ calls' = IF e \in Starts THEN Append(calls, {e})
                ELSE [i \in DOMAIN calls |->
                        IF \E s \in calls[i] : <<s, e>> \in Calls
                        THEN calls[i] \cup {e} ELSE calls[i]]

\* Mutant: a Lagged error is skipped, as the SSE streams skip it.
AccumulatorSkipsLag ==
    /\ accAlive
    /\ accPos < sent
    /\ IF Overrun(accPos)
       THEN /\ accPos' = sent - Capacity
            /\ UNCHANGED <<text, calls, accAlive>>
       ELSE /\ accPos' = accPos + 1
            /\ accAlive' = (accPos' # NumEvents)
            /\ Record(accPos')
    /\ UNCHANGED <<run, listeners>>

\* while let Some(Ok(..)): records an event, leaves the loop at Done, and leaves it for
\* good when the channel has overrun it.
AccumulatorReceives ==
    /\ accAlive
    /\ accPos < sent
    /\ IF Overrun(accPos)
       THEN /\ accAlive' = FALSE
            /\ UNCHANGED <<text, calls, accPos>>
       ELSE /\ accPos' = accPos + 1
            /\ accAlive' = (accPos' # NumEvents)
            /\ Record(accPos')
    /\ UNCHANGED <<run, listeners>>

AccumulatorEnds ==
    /\ accAlive
    /\ accPos = sent
    /\ ChannelClosed
    /\ accAlive' = FALSE
    /\ UNCHANGED <<run, text, calls, accPos, listeners>>

-----------------------------------------------------------------------------
(* stream_events, and the SSE streams *)

\* The run is looked up in active_runs; 404 when it is not there.
Open(c) ==
    /\ stage[c] = "none"
    /\ listed
    /\ stage' = [stage EXCEPT ![c] = "opened"]
    /\ UNCHANGED <<run, accumulator, pos, replayed, view, lagged>>

\* The replay is built from the accumulator, when it is still there: first all the text,
\* as one text_delta, then each tool call with its result, if there is one.
Replay(c) ==
    /\ stage[c] = "opened"
    /\ replayed' = [replayed EXCEPT ![c] =
                        IF replayable THEN [i \in DOMAIN text |-> {text[i]}] \o calls ELSE <<>>]
    /\ stage' = [stage EXCEPT ![c] = "replayed"]
    /\ UNCHANGED <<run, accumulator, pos, view, lagged>>

\* Mutant: the live stream starts with the run and repeats what was replayed.
SubscribeFromStart(c) ==
    /\ stage[c] = "replayed"
    /\ pos' = [pos EXCEPT ![c] = 0]
    /\ stage' = [stage EXCEPT ![c] = "live"]
    /\ UNCHANGED <<run, accumulator, replayed, view, lagged>>

\* subscribe: the receiver sees what is sent from now on.
Subscribe(c) ==
    /\ stage[c] = "replayed"
    /\ pos' = [pos EXCEPT ![c] = sent]
    /\ stage' = [stage EXCEPT ![c] = "live"]
    /\ UNCHANGED <<run, accumulator, replayed, view, lagged>>

\* The stream delivers the next event; a Lagged error is filtered out and the receiver
\* goes on from the oldest event the channel still holds.
Deliver(c) ==
    /\ stage[c] = "live"
    /\ pos[c] < sent
    /\ IF Overrun(pos[c])
       THEN /\ pos' = [pos EXCEPT ![c] = sent - Capacity]
            /\ lagged' = lagged \cup {c}
            /\ UNCHANGED view
       ELSE /\ pos' = [pos EXCEPT ![c] = @ + 1]
            /\ view' = [view EXCEPT ![c] = Append(@, pos'[c])]
            /\ UNCHANGED lagged
    /\ UNCHANGED <<run, accumulator, stage, replayed>>

\* The response ends when both channels are closed and the events are drained.
Close(c) ==
    /\ stage[c] = "live"
    /\ pos[c] = sent
    /\ ChannelClosed /\ CustomClosed
    /\ stage' = [stage EXCEPT ![c] = "closed"]
    /\ UNCHANGED <<run, accumulator, pos, replayed, view, lagged>>

RunStep ==
    \/ LoopStarts \/ LoopEnds \/ SendEvent
    \/ RunnerIsAborted \/ RunnerEnds \/ RunnerPanics \/ Unlist

AccumulatorStep == AccumulatorReceives \/ AccumulatorEnds

ClientStep(c) == Replay(c) \/ Subscribe(c) \/ Deliver(c) \/ Close(c)

Next ==
    \/ RunStep
    \/ AccumulatorStep
    \/ \E c \in Returning : Open(c)
    \/ \E c \in Clients : ClientStep(c)

\* The agent task ends or panics (how long the agent takes is up to the library and the
\* provider), clean-ups and receivers go on; a panicked run is cleaned up only if somebody
\* stops it.  Nothing is assumed of the end of the library's task.
Fairness ==
    /\ WF_vars(LoopStarts \/ RunnerEnds \/ RunnerPanics)
    /\ WF_vars(runner # "panicked" /\ Unlist)
    /\ WF_vars(AccumulatorStep)
    /\ \A c \in Clients : WF_vars(ClientStep(c))

Spec == Init /\ [][Next]_vars /\ Fairness

-----------------------------------------------------------------------------
(* Properties *)

Recorded == ToSet(text) \cup (UNION ToSet(calls))

\* What the accumulator holds, and a stop request stores as the partial answer, is a
\* prefix of what the agent said and of the tools it called, each in its order and no
\* result without its call: when the channel overruns the accumulator it stops for good
\* rather than record a text with a hole in it.
RecordIsPrefix ==
    /\ \A e \in Recorded, f \in Recordable : f < e => f \in Recorded
    /\ \A i, j \in DOMAIN text : i < j => text[i] < text[j]
    /\ \A i, j \in DOMAIN calls : \A s \in Starts \cap calls[i], t \in Starts \cap calls[j] :
            i < j => s < t
    /\ \A i \in DOMAIN calls : \E s \in Starts \cap calls[i] : calls[i] \subseteq CallOf(s)

\* In a replay nothing is there twice; texts are in order and before every call, and the
\* calls in the order of their starts.
ReplayIsOrderly(r) ==
    /\ \A i, j \in DOMAIN r : i < j => r[i] \cap r[j] = {}
    /\ \A i, j \in DOMAIN r : \A e \in r[i], f \in r[j] :
           /\ i < j /\ ({e, f} \subseteq Texts \/ {e, f} \subseteq Starts) => e < f
           /\ e \in Texts /\ f \notin Texts => i < j

\* No client is shown an event twice, replay and live stream together, and what it is shown
\* live is in order and later than all that was replayed.  The replay itself is not in the
\* order of the run: it has the texts and then the calls, each with its result, so a text
\* can stand before a call that preceded it, and a result before an earlier one.
NothingShownTwice ==
    \A c \in Clients :
        /\ ReplayIsOrderly(replayed[c])
        /\ \A i \in DOMAIN replayed[c], j \in DOMAIN view[c] :
               \A e \in replayed[c][i] : e < view[c][j]
        /\ \A i, j \in DOMAIN view[c] : i < j => view[c][i] < view[c][j]

\* The client of POST /api/chat is shown every event up to where it stands, unless the
\* channel has overrun it.
FirstClientMissesNothing ==
    First \notin lagged => ToSet(view[First]) = 1..pos[First]

\* If the library's task lets go of its senders, every response ends, unless the agent task
\* panicked: no other sender of either channel survives the clean-up and the handlers that
\* were looking at the run, also when a stop aborts the run halfway.
StreamsEnd ==
    <>[](loop # "running") =>
        \A c \in Clients : stage[c] # "none" ~> stage[c] = "closed" \/ runner = "panicked"

\* As the README has it: a reconnecting client that did not lag has been shown, once it
\* has consumed what was sent, all the text and tool calls of the run so far.
ReplayIsFull ==
    \A c \in Returning :
        stage[c] \in {"live", "closed"} /\ pos[c] = sent /\ c \notin lagged
            => 1..sent \cap Recordable \subseteq (UNION ToSet(replayed[c])) \cup ToSet(view[c])
=============================================================================
