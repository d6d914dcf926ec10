------------------------------ MODULE AnswerOnce ------------------------------
(***************************************************************************)
(* What ask_user and respond promise together for each question: while it   *)
(* is open one answer may be accepted, never a second one and none before    *)
(* or after, and the agent is given the answer that was accepted or none.   *)
(* A question that no user can see accepts nothing.  AskUser.tla is shown    *)
(* to implement this specification.                                         *)
(***************************************************************************)
CONSTANTS
    Questions,    \* question ids
    Answerable,   \* the questions that users can answer
    Answers,      \* what a user can respond
    NoAnswer      \* no answer yet, or none at all

VARIABLES
    turn,         \* [Questions -> {"before", "open", "over"}]
    accepted,     \* [Questions -> the answer that was accepted]
    given         \* [Questions -> the answer that the agent was given]

Init ==
    /\ turn = [q \in Questions |-> "before"]
    /\ accepted = [q \in Questions |-> NoAnswer]
    /\ given = [q \in Questions |-> NoAnswer]

Open(q) ==
    /\ turn[q] = "before"
    /\ turn' = [turn EXCEPT ![q] = "open"]
    /\ UNCHANGED <<accepted, given>>

Accept(q, a) ==
    /\ turn[q] = "open"
    /\ q \in Answerable
    /\ accepted[q] = NoAnswer
    /\ accepted' = [accepted EXCEPT ![q] = a]
    /\ UNCHANGED <<turn, given>>

Give(q) ==
    /\ turn[q] = "open"
    /\ accepted[q] # NoAnswer
    /\ turn' = [turn EXCEPT ![q] = "over"]
    /\ given' = [given EXCEPT ![q] = accepted[q]]
    /\ UNCHANGED accepted

\* Time is up, or the run was stopped, before the question was open or after.
Close(q) ==
    /\ turn[q] # "over"
    /\ turn' = [turn EXCEPT ![q] = "over"]
    /\ UNCHANGED <<accepted, given>>

Next ==
    \E q \in Questions : \/ Open(q) \/ Give(q) \/ Close(q)
                         \/ \E a \in Answers : Accept(q, a)

Spec == Init /\ [][Next]_<<turn, accepted, given>>
=============================================================================
