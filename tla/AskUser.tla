------------------------------- MODULE AskUser -------------------------------
(***************************************************************************)
(* The ask_user tool and POST /api/chat/respond: a question is sent to the  *)
(* user, a oneshot sender is put into a map under the question's id, and    *)
(* the tool waits for the answer with a time limit; a response takes the    *)
(* sender out of the map and uses it.                                       *)
(*                                                                         *)
(* A run started from the chat shares the map of AppState and sends its     *)
(* questions to the event stream of the run.  A scheduled run has a map of  *)
(* its own, that no route can reach, and sends to chat_tx, to which nothing *)
(* subscribes.                                                              *)
(***************************************************************************)
EXTENDS Naturals, FiniteSets

CONSTANTS
    Questions,   \* question ids
    Scheduled,   \* the questions asked by scheduled runs
    Answers,     \* what a user can respond
    Responses,   \* POST /api/chat/respond requests
    NoAnswer,    \* no value in the channel, or no answer returned by the tool
    NoQuestion   \* the question of a response that has not been made

ASSUME AskUserAssumption ==
    /\ Scheduled \subseteq Questions
    /\ NoAnswer \notin Answers
    /\ NoQuestion \notin Questions

VARIABLES
    stage,      \* [Questions -> where the tool call stands]
    shown,      \* the questions some client has been shown
    pending,    \* pending_questions of AppState
    value,      \* [Questions -> the value in the oneshot channel]
    result,     \* [Questions -> what the tool returned to the agent]
    response,   \* [Responses -> where the request stands]
    about,      \* [Responses -> question_id]
    reply       \* [Responses -> the answer it carries]

vars == <<stage, shown, pending, value, result, response, about, reply>>

\* "expired": the time limit has been found exceeded, the receiver is not dropped yet;
\* "timedOut": it is dropped, the map entry is not removed yet; "aborted": the run was
\* stopped and its future dropped.
Stages == {"none", "sent", "waiting", "expired", "timedOut", "answered", "noAnswer", "aborted"}

ReceiverAlive(q) == stage[q] \in {"waiting", "expired"}

Over(q) == stage[q] \in {"answered", "noAnswer", "aborted"}

TypeOK ==
    /\ stage \in [Questions -> Stages]
    /\ shown \subseteq Questions \ Scheduled
    /\ pending \subseteq Questions \ Scheduled
    /\ value \in [Questions -> Answers \cup {NoAnswer}]
    /\ result \in [Questions -> Answers \cup {NoAnswer}]
    /\ response \in [Responses -> {"none", "holding", "ok", "notFound", "failed"}]
    /\ about \in [Responses -> Questions \cup {NoQuestion}]
    /\ reply \in [Responses -> Answers \cup {NoAnswer}]

Init ==
    /\ stage = [q \in Questions |-> "none"]
    /\ shown = {}
    /\ pending = {}
    /\ value = [q \in Questions |-> NoAnswer]
    /\ result = [q \in Questions |-> NoAnswer]
    /\ response = [x \in Responses |-> "none"]
    /\ about = [x \in Responses |-> NoQuestion]
    /\ reply = [x \in Responses |-> NoAnswer]

-----------------------------------------------------------------------------
(* AskUserTool *)

\* The question goes to the event stream of the run, where it is lost when no client is
\* connected, or to chat_tx, where it is always lost.
SendQuestion(q) ==
    /\ stage[q] = "none"
    /\ stage' = [stage EXCEPT ![q] = "sent"]
    /\ \/ UNCHANGED shown
       \/ q \notin Scheduled /\ shown' = shown \cup {q}
    /\ UNCHANGED <<pending, value, result, response, about, reply>>

\* Mutant: scheduled runs register in the map of AppState too.
RegisterAnywhere(q) ==
    /\ stage[q] = "sent"
    /\ stage' = [stage EXCEPT ![q] = "waiting"]
    /\ pending' = pending \cup {q}
    /\ UNCHANGED <<shown, value, result, response, about, reply>>

\* Only now is the sender registered, and the tool begins to wait.
Register(q) ==
    /\ stage[q] = "sent"
    /\ stage' = [stage EXCEPT ![q] = "waiting"]
    /\ pending' = IF q \in Scheduled THEN pending ELSE pending \cup {q}
    /\ UNCHANGED <<shown, value, result, response, about, reply>>

\* The receiver yields the answer.
ReceiveAnswer(q) ==
    /\ stage[q] = "waiting"
    /\ value[q] # NoAnswer
    /\ stage' = [stage EXCEPT ![q] = "answered"]
    /\ result' = [result EXCEPT ![q] = value[q]]
    /\ UNCHANGED <<shown, pending, value, response, about, reply>>

\* Mutant: no time limit for questions whose sender has been taken.
ExpireIfPending(q) ==
    /\ stage[q] = "waiting"
    /\ value[q] = NoAnswer
    /\ q \in pending
    /\ stage' = [stage EXCEPT ![q] = "expired"]
    /\ UNCHANGED <<shown, pending, value, result, response, about, reply>>

\* Mutant: the clock is looked at before the receiver.
ExpireClockFirst(q) ==
    /\ stage[q] = "waiting"
    /\ stage' = [stage EXCEPT ![q] = "expired"]
    /\ UNCHANGED <<shown, pending, value, result, response, about, reply>>

\* timeout() polls the receiver first, then the clock.
Expire(q) ==
    /\ stage[q] = "waiting"
    /\ value[q] = NoAnswer
    /\ stage' = [stage EXCEPT ![q] = "expired"]
    /\ UNCHANGED <<shown, pending, value, result, response, about, reply>>

\* The timeout future is dropped, and the receiver with it.
DropReceiver(q) ==
    /\ stage[q] = "expired"
    /\ stage' = [stage EXCEPT ![q] = "timedOut"]
    /\ UNCHANGED <<shown, pending, value, result, response, about, reply>>

\* Mutant: a question that times out stays in the map.
GiveUpKeepingEntry(q) ==
    /\ stage[q] = "timedOut"
    /\ stage' = [stage EXCEPT ![q] = "noAnswer"]
    /\ UNCHANGED <<shown, pending, value, result, response, about, reply>>

\* The entry is removed and the tool returns an error.
GiveUp(q) ==
    /\ stage[q] = "timedOut"
    /\ stage' = [stage EXCEPT ![q] = "noAnswer"]
    /\ pending' = pending \ {q}
    /\ UNCHANGED <<shown, value, result, response, about, reply>>

\* POST /api/chat/stop: the waiting future is dropped; its map entry stays.
Abort(q) ==
    /\ stage[q] \in {"sent", "waiting"}
    /\ q \notin Scheduled
    /\ stage' = [stage EXCEPT ![q] = "aborted"]
    /\ UNCHANGED <<shown, pending, value, result, response, about, reply>>

-----------------------------------------------------------------------------
(* respond_to_question *)

\* Mutant: the sender is used without being removed.
TakeSenderByReference(x) ==
    /\ response[x] = "none"
    /\ \E q \in shown, a \in Answers :
          /\ about' = [about EXCEPT ![x] = q]
          /\ reply' = [reply EXCEPT ![x] = a]
          /\ response' = [response EXCEPT ![x] = IF q \in pending THEN "holding" ELSE "notFound"]
    /\ UNCHANGED <<stage, shown, pending, value, result>>

\* The sender is removed from the map; 404 when there is none.  A user can answer only a
\* question that was shown.
TakeSender(x) ==
    /\ response[x] = "none"
    /\ \E q \in shown, a \in Answers :
          /\ about' = [about EXCEPT ![x] = q]
          /\ reply' = [reply EXCEPT ![x] = a]
          /\ response' = [response EXCEPT ![x] = IF q \in pending THEN "holding" ELSE "notFound"]
          /\ pending' = pending \ {q}
    /\ UNCHANGED <<stage, shown, value, result>>

\* Mutant: the request answers ok without looking whether the answer could be sent.
SendUnseen(x) ==
    /\ response[x] = "holding"
    /\ value' = [value EXCEPT ![about[x]] = reply[x]]
    /\ response' = [response EXCEPT ![x] = "ok"]
    /\ UNCHANGED <<stage, shown, pending, result, about, reply>>

\* send: fails when the receiver is dropped, and the request answers 500.
SendAnswer(x) ==
    /\ response[x] = "holding"
    /\ IF ReceiverAlive(about[x])
       THEN /\ value' = [value EXCEPT ![about[x]] = reply[x]]
            /\ response' = [response EXCEPT ![x] = "ok"]
       ELSE /\ response' = [response EXCEPT ![x] = "failed"]
            /\ UNCHANGED value
    /\ UNCHANGED <<stage, shown, pending, result, about, reply>>

ToolStep(q) == Register(q) \/ ReceiveAnswer(q) \/ Expire(q) \/ DropReceiver(q) \/ GiveUp(q)

Next ==
    \/ \E q \in Questions : SendQuestion(q) \/ ToolStep(q) \/ Abort(q)
    \/ \E x \in Responses : TakeSender(x) \/ SendAnswer(x)

\* The tool goes on when it can, and time passes; a request that holds a sender uses it.
\* Users need not answer, nor stop a run.
Fairness ==
    /\ \A q \in Questions : WF_vars(ToolStep(q))
    /\ \A x \in Responses : WF_vars(SendAnswer(x))

Spec == Init /\ [][Next]_vars /\ Fairness

-----------------------------------------------------------------------------
(* Properties *)

\* Of several responses to one question at most one is accepted, and the agent is given
\* the answer of that one.
OneAnswerAccepted ==
    \A x \in Responses : response[x] = "ok" =>
        /\ \A y \in Responses : response[y] = "ok" /\ about[y] = about[x] => y = x
        /\ stage[about[x]] = "answered" => result[about[x]] = reply[x]

\* A question over without an answer leaves no sender in the map that a late response
\* would find; only stopping the run does.
NoStaleEntry == \A q \in pending : Over(q) => stage[q] = "aborted"

\* An answer accepted while the tool still waits reaches the agent, unless the run is
\* stopped: the time limit that runs out at the same moment does not discard it.  (One
\* accepted after the limit was found exceeded, before the receiver is dropped, is lost.)
AcceptedAnswerArrives ==
    \A x \in Responses, q \in Questions :
        response[x] = "ok" /\ about[x] = q /\ stage[q] = "waiting"
            ~> result[q] = reply[x] \/ stage[q] = "aborted"

\* Every question comes to an end, answered or not, also those no user can see: the tool
\* call never blocks its run for ever.
EveryQuestionEnds == \A q \in Questions : stage[q] = "sent" ~> Over(q)

\* The question as the agent and the users see it: open while the tool holds the receiver.
\* Whatever times out, is stopped or is answered twice meanwhile, one answer is accepted, while
\* the question is open, and the agent is given that one or none.
Turn(q) ==
    IF stage[q] \in {"none", "sent"} THEN "before"
    ELSE IF ReceiverAlive(q) THEN "open" ELSE "over"

Once == INSTANCE AnswerOnce WITH
            Answerable <- Questions \ Scheduled,
            turn <- [q \in Questions |-> Turn(q)],
            accepted <- value,
            given <- result

ImplementsAnswerOnce == Once!Spec
=============================================================================
