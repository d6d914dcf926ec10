--------------------------- MODULE ToolStateProofs ---------------------------
(***************************************************************************)
(* Theorems about the two tools whose state outlives their calls.           *)
(*                                                                         *)
(* AskUser, for any sets of questions, answers and responses.  The argument *)
(* is one of ownership: the sender of a question is in the map, or held by   *)
(* the one request that took it out, or used by that request, or dropped;   *)
(* and before it is registered nobody has it.                               *)
(*                                                                         *)
(* SoulFiles, for any sets of calls and headings and any template.  As long *)
(* as nothing disturbs them, a call at work is alone on its file, so what it *)
(* has read of the file is still so when it writes: the text it has prepared *)
(* keeps every entry that it may not remove, and none that was forgotten.    *)
(***************************************************************************)
EXTENDS AskUser, SoulFiles, FiniteSetTheorems, WellFoundedInduction, TLAPS

-----------------------------------------------------------------------------
(* AskUser *)


\* The responses that have taken the sender of q out of the map and may use it or have.
Took(q) == {x \in Responses : response[x] \in {"holding", "ok"} /\ about[x] = q}

\* A sender is in the map only after it was registered, unused, and taken by nobody.
PendingIsUnused ==
    \A q \in pending : /\ stage[q] \notin {"none", "sent"}
                       /\ value[q] = NoAnswer
                       /\ Took(q) = {}

\* Nobody can have taken or used a sender that does not exist yet.
TakenIsRegistered ==
    \A q \in Questions : stage[q] \in {"none", "sent"} => Took(q) = {} /\ value[q] = NoAnswer

\* A sender is taken once, a request that holds it has not used it, and the value in the
\* channel is that of the request that has.
TakenOnce ==
    /\ \A q \in Questions : \A x, y \in Took(q) : x = y
    /\ \A x \in Responses :
          response[x] = "holding" => about[x] \in Questions /\ value[about[x]] = NoAnswer
    /\ \A x \in Responses :
          response[x] = "ok" => about[x] \in Questions /\ value[about[x]] = reply[x]
    /\ \A x \in Responses : response[x] \in {"holding", "ok"} => reply[x] \in Answers

\* What the tool returned is what the channel held.
ResultIsValue ==
    \A q \in Questions : stage[q] = "answered" => /\ value[q] # NoAnswer
                                                  /\ result[q] = value[q]

IInv ==
    /\ TypeOK
    /\ PendingIsUnused
    /\ TakenIsRegistered
    /\ TakenOnce
    /\ ResultIsValue
    /\ NoStaleEntry

-----------------------------------------------------------------------------

\* At the start there are no questions and no responses.
LEMMA InitEstablishes == Init => IInv
  BY AskUserAssumption
     DEF Init, IInv, TypeOK, PendingIsUnused, TakenIsRegistered, TakenOnce, ResultIsValue,
         NoStaleEntry, Took, Stages, Over

\* A step of the tool that neither registers the sender nor touches the channel: asking,
\* giving up, dropping the receiver, being stopped.
LEMMA ToolMovesOn ==
  ASSUME IInv, NEW q \in Questions,
         SendQuestion(q) \/ Expire(q) \/ DropReceiver(q) \/ GiveUp(q) \/ Abort(q)
  PROVE  IInv'
<1>. USE DEF IInv
<1>1. UNCHANGED <<value, result, response, about, reply>>
  BY DEF SendQuestion, Expire, DropReceiver, GiveUp, Abort
<1>2. pending' \subseteq pending
  BY DEF SendQuestion, Expire, DropReceiver, GiveUp, Abort
<1>3. \E s \in Stages : /\ stage' = [stage EXCEPT ![q] = s]
                        /\ s \notin {"none", "answered"}
                        /\ s = "sent" => stage[q] = "none"
                        /\ s = "noAnswer" => q \notin pending'
  BY DEF SendQuestion, Expire, DropReceiver, GiveUp, Abort, Stages
<1>4. TypeOK'
  BY <1>1, <1>2, <1>3 DEF TypeOK, SendQuestion, Expire, DropReceiver, GiveUp, Abort
<1>5. \A p \in Questions : Took(p)' = Took(p)
  BY <1>1 DEF Took
<1>6. \A p \in Questions : stage[p] \notin {"none", "sent"} => stage'[p] \notin {"none", "sent"}
  BY <1>3 DEF TypeOK
<1>7. PendingIsUnused'
  BY <1>1, <1>2, <1>5, <1>6 DEF PendingIsUnused, TypeOK
<1>8. TakenIsRegistered'
  BY <1>1, <1>5, <1>6 DEF TakenIsRegistered
<1>9. TakenOnce'
  BY <1>1, <1>5 DEF TakenOnce
<1>10. ResultIsValue' /\ NoStaleEntry'
  BY <1>1, <1>2, <1>3 DEF ResultIsValue, NoStaleEntry, Over, TypeOK
<1>. QED
  BY <1>4, <1>7, <1>8, <1>9, <1>10

\* Registering puts a sender into the map that nobody had.
LEMMA RegisterPreserves ==
  ASSUME IInv, NEW q \in Questions, Register(q)
  PROVE  IInv'
<1>. USE DEF IInv
<1>1. /\ UNCHANGED <<value, result, response, about, reply>>
      /\ stage[q] = "sent"
      /\ stage' = [stage EXCEPT ![q] = "waiting"]
      /\ pending' \subseteq pending \cup {q}
  BY DEF Register
<1>2. TypeOK'
  BY <1>1 DEF TypeOK, Register, Stages
<1>3. \A p \in Questions : Took(p)' = Took(p)
  BY <1>1 DEF Took
<1>4. Took(q) = {} /\ value[q] = NoAnswer
  BY <1>1 DEF TakenIsRegistered
<1>5. PendingIsUnused'
  BY <1>1, <1>3, <1>4 DEF PendingIsUnused, TypeOK
<1>6. TakenIsRegistered'
  BY <1>1, <1>3 DEF TakenIsRegistered, TypeOK
<1>7. TakenOnce'
  BY <1>1, <1>3 DEF TakenOnce
<1>8. ResultIsValue' /\ NoStaleEntry'
  BY <1>1 DEF ResultIsValue, NoStaleEntry, Over, TypeOK
<1>. QED
  BY <1>2, <1>5, <1>6, <1>7, <1>8

\* The tool receives a value, so the sender has been taken and is not in the map.
LEMMA ReceivePreserves ==
  ASSUME IInv, NEW q \in Questions, ReceiveAnswer(q)
  PROVE  IInv'
<1>. USE DEF IInv
<1>1. /\ UNCHANGED <<pending, value, response, about, reply>>
      /\ value[q] # NoAnswer
      /\ stage' = [stage EXCEPT ![q] = "answered"]
      /\ result' = [result EXCEPT ![q] = value[q]]
  BY DEF ReceiveAnswer
<1>2. TypeOK'
  BY <1>1 DEF TypeOK, ReceiveAnswer, Stages
<1>3. \A p \in Questions : Took(p)' = Took(p)
  BY <1>1 DEF Took
<1>4. q \notin pending
  BY <1>1 DEF PendingIsUnused
<1>5. PendingIsUnused'
  BY <1>1, <1>3, <1>4 DEF PendingIsUnused, TypeOK
<1>6. TakenIsRegistered'
  BY <1>1, <1>3 DEF TakenIsRegistered, TypeOK
<1>7. TakenOnce'
  BY <1>1, <1>3 DEF TakenOnce
<1>8. ResultIsValue' /\ NoStaleEntry'
  BY <1>1, <1>4 DEF ResultIsValue, NoStaleEntry, Over, TypeOK
<1>. QED
  BY <1>2, <1>5, <1>6, <1>7, <1>8

\* A response takes the sender out of the map, and is from then on the only one to have it;
\* or it finds none.
LEMMA TakePreserves ==
  ASSUME IInv, NEW x \in Responses, TakeSender(x)
  PROVE  IInv'
<1>. USE DEF IInv
<1>1. PICK q \in shown, a \in Answers :
        /\ about' = [about EXCEPT ![x] = q]
        /\ reply' = [reply EXCEPT ![x] = a]
        /\ response' = [response EXCEPT ![x] = IF q \in pending THEN "holding" ELSE "notFound"]
        /\ pending' = pending \ {q}
  BY DEF TakeSender
<1>2. /\ UNCHANGED <<stage, shown, value, result>>
      /\ response[x] = "none"
      /\ q \in Questions
  BY <1>1 DEF TakeSender, TypeOK
<1>3. TypeOK'
  BY <1>1, <1>2 DEF TypeOK
<1>4. \A p \in Questions : Took(p)' = IF p = q /\ q \in pending THEN {x} \cup Took(p) ELSE Took(p)
  BY <1>1, <1>2 DEF Took, TypeOK
<1>5. q \in pending => /\ stage[q] \notin {"none", "sent"}
                       /\ value[q] = NoAnswer
                       /\ Took(q)' = {x}
  BY <1>2, <1>4 DEF PendingIsUnused
<1>6. PendingIsUnused'
  BY <1>1, <1>2, <1>4 DEF PendingIsUnused, TypeOK
<1>7. TakenIsRegistered'
  BY <1>2, <1>4, <1>5 DEF TakenIsRegistered
<1>8. TakenOnce'
  <2>1. \A p \in Questions : \A y, z \in Took(p)' : y = z
    BY <1>4, <1>5 DEF TakenOnce
  <2>2. \A y \in Responses : y # x =>
          response'[y] = response[y] /\ about'[y] = about[y] /\ reply'[y] = reply[y]
    BY <1>1 DEF TypeOK
  <2>3. /\ about'[x] = q /\ reply'[x] = a
        /\ response'[x] = IF q \in pending THEN "holding" ELSE "notFound"
    BY <1>1 DEF TypeOK
  <2>. QED
    BY <1>2, <1>5, <2>1, <2>2, <2>3 DEF TakenOnce
<1>9. ResultIsValue' /\ NoStaleEntry'
  BY <1>1, <1>2 DEF ResultIsValue, NoStaleEntry, Over, TypeOK
<1>. QED
  BY <1>3, <1>6, <1>7, <1>8, <1>9

\* The holder of a sender uses it; when the receiver is alive its reply is the value of the
\* channel, and nobody else has a reply there.
LEMMA SendPreserves ==
  ASSUME IInv, NEW x \in Responses, SendAnswer(x)
  PROVE  IInv'
<1>. USE DEF IInv
<1>. DEFINE q == about[x]
<1>1. /\ UNCHANGED <<stage, shown, pending, result, about, reply>>
      /\ response[x] = "holding"
      /\ q \in Questions /\ x \in Took(q) /\ reply[x] \in Answers
  BY DEF SendAnswer, TakenOnce, Took
<1>2. q \notin pending /\ stage[q] \notin {"none", "sent"}
  BY <1>1 DEF PendingIsUnused, TakenIsRegistered
<1>3. CASE ReceiverAlive(q)
  <2>1. /\ value' = [value EXCEPT ![q] = reply[x]]
        /\ response' = [response EXCEPT ![x] = "ok"]
    BY <1>3 DEF SendAnswer
  <2>2. TypeOK'
    BY <1>1, <2>1 DEF TypeOK
  <2>3. \A p \in Questions : Took(p)' = Took(p)
    BY <1>1, <2>1 DEF Took, TypeOK
  <2>4. PendingIsUnused' /\ TakenIsRegistered'
    BY <1>1, <1>2, <2>1, <2>3 DEF PendingIsUnused, TakenIsRegistered, TypeOK
  <2>5. \A y \in Responses : response[y] \in {"holding", "ok"} /\ about[y] = q => y = x
    BY <1>1 DEF TakenOnce, Took
  <2>6. TakenOnce'
    BY <1>1, <2>1, <2>3, <2>5 DEF TakenOnce, TypeOK
  <2>7. ResultIsValue' /\ NoStaleEntry'
    BY <1>1, <1>3, <2>1 DEF ResultIsValue, NoStaleEntry, Over, ReceiverAlive, TypeOK
  <2>. QED
    BY <2>2, <2>4, <2>6, <2>7
<1>4. CASE ~ReceiverAlive(q)
  <2>1. UNCHANGED value /\ response' = [response EXCEPT ![x] = "failed"]
    BY <1>4 DEF SendAnswer
  <2>2. TypeOK'
    BY <1>1, <2>1 DEF TypeOK
  <2>3. \A p \in Questions : Took(p)' \subseteq Took(p)
    BY <1>1, <2>1 DEF Took, TypeOK
  <2>4. PendingIsUnused' /\ TakenIsRegistered'
    BY <1>1, <2>1, <2>3 DEF PendingIsUnused, TakenIsRegistered, TypeOK
  <2>5. TakenOnce'
    BY <1>1, <2>1, <2>3 DEF TakenOnce, TypeOK
  <2>6. ResultIsValue' /\ NoStaleEntry'
    BY <1>1, <2>1 DEF ResultIsValue, NoStaleEntry, Over
  <2>. QED
    BY <2>2, <2>4, <2>5, <2>6
<1>. QED
  BY <1>3, <1>4

-----------------------------------------------------------------------------

\* Every step preserves the invariant: one case per lemma.
LEMMA NextPreserves == IInv /\ [Next]_vars => IInv'
<1>1. SUFFICES ASSUME IInv, [Next]_vars
               PROVE  IInv'
  OBVIOUS
<1>2. CASE Next
  BY <1>1, <1>2, ToolMovesOn, RegisterPreserves, ReceivePreserves, TakePreserves, SendPreserves
     DEF Next, ToolStep
<1>3. CASE UNCHANGED vars
  BY <1>1, <1>3
     DEF vars, IInv, TypeOK, PendingIsUnused, TakenIsRegistered, TakenOnce, ResultIsValue,
         NoStaleEntry, Took, Over
<1>. QED
  BY <1>1, <1>2, <1>3

\* The invariant holds in every reachable state.
THEOREM InvariantHolds == Spec => []IInv
  BY InitEstablishes, NextPreserves, PTL DEF Spec

\* Type correctness of the questions, the map, the channels and the responses.
THEOREM TypeCorrect == Spec => []TypeOK
<1>1. IInv => TypeOK
  BY DEF IInv
<1>. QED
  BY <1>1, InvariantHolds, PTL

\* respond_to_question: however many requests answer a question, at most one is told "ok",
\* and if the tool returns an answer it is the reply of that one.
THEOREM OneAnswerIsAccepted == Spec => []OneAnswerAccepted
<1>1. IInv => OneAnswerAccepted
  BY DEF IInv, OneAnswerAccepted, TakenOnce, ResultIsValue, Took
<1>. QED
  BY <1>1, InvariantHolds, PTL

\* AskUserTool::execute removes its sender whenever it ends without an answer; what stays in
\* the map after the end belongs to a run that was stopped.
THEOREM NoEntryIsStale == Spec => []NoStaleEntry
<1>1. IInv => NoStaleEntry
  BY DEF IInv
<1>. QED
  BY <1>1, InvariantHolds, PTL

-----------------------------------------------------------------------------
(* AskUser implements AnswerOnce *)

Turns == [q \in Questions |-> Turn(q)]

\* A response is about a question that was shown, and so not about one of a scheduled run.
HeldIsAnswerable == \A x \in Responses : response[x] = "holding" => about[x] \notin Scheduled

LEMMA HeldStaysAnswerable == TypeOK /\ HeldIsAnswerable /\ [Next]_vars => HeldIsAnswerable'
<1>. SUFFICES ASSUME TypeOK, HeldIsAnswerable, [Next]_vars PROVE HeldIsAnswerable'
  OBVIOUS
<1>1. CASE UNCHANGED <<response, about>>
  BY <1>1 DEF HeldIsAnswerable
<1>2. ASSUME NEW x \in Responses, TakeSender(x) PROVE HeldIsAnswerable'
  BY <1>2 DEF HeldIsAnswerable, TakeSender, TypeOK
<1>3. ASSUME NEW x \in Responses, SendAnswer(x) PROVE HeldIsAnswerable'
  BY <1>3 DEF HeldIsAnswerable, SendAnswer, TypeOK
<1>4. ASSUME NEW q \in Questions, SendQuestion(q) \/ ToolStep(q) \/ Abort(q)
      PROVE  UNCHANGED <<response, about>>
  BY <1>4 DEF SendQuestion, ToolStep, Register, ReceiveAnswer, Expire, DropReceiver, GiveUp, Abort
<1>. QED
  BY <1>1, <1>2, <1>3, <1>4 DEF Next, vars

\* What a step of one question does to its turn, the turns of the others stay.
LEMMA TurnMoves ==
  ASSUME TypeOK, NEW q \in Questions, NEW s \in Stages, stage' = [stage EXCEPT ![q] = s]
  PROVE  /\ Turns' = [Turns EXCEPT ![q] = IF s \in {"none", "sent"} THEN "before"
                                          ELSE IF s \in {"waiting", "expired"} THEN "open"
                                          ELSE "over"]
         /\ Turns[q] = Turn(q)
<1>1. /\ stage'[q] = s
      /\ \A p \in Questions : p # q => stage'[p] = stage[p]
  BY DEF TypeOK
<1>2. Turn(q)' = IF s \in {"none", "sent"} THEN "before"
                 ELSE IF s \in {"waiting", "expired"} THEN "open" ELSE "over"
  BY <1>1 DEF Turn, ReceiverAlive
<1>3. \A p \in Questions : p # q => Turn(p)' = Turn(p)
  BY <1>1 DEF Turn, ReceiverAlive
<1>. QED
  BY <1>2, <1>3 DEF Turns

\* A step that leaves the tool calls alone leaves the turns.
LEMMA TurnsStay == stage' = stage => Turns' = Turns
  BY DEF Turns, Turn, ReceiverAlive

\* The steps of the tool.
LEMMA ToolMaps ==
  ASSUME IInv, NEW q \in Questions, SendQuestion(q) \/ ToolStep(q) \/ Abort(q)
  PROVE  Once!Open(q) \/ Once!Give(q) \/ Once!Close(q) \/ UNCHANGED <<Turns, value, result>>
<1>1. TypeOK
  BY DEF IInv
<1>. USE DEF Turns
<1>2. CASE SendQuestion(q)
  <2>1. Turns' = [Turns EXCEPT ![q] = "before"] /\ Turns[q] = Turn(q)
    BY <1>1, <1>2, TurnMoves DEF SendQuestion, Stages
  <2>2. Turns[q] = "before"
    BY <1>2, <2>1 DEF SendQuestion, Turn
  <2>. QED
    BY <1>2, <2>1, <2>2 DEF SendQuestion
<1>3. CASE Register(q)
  <2>1. Turns' = [Turns EXCEPT ![q] = "open"] /\ Turns[q] = Turn(q)
    BY <1>1, <1>3, TurnMoves DEF Register, Stages
  <2>2. Turns[q] = "before"
    BY <1>3, <2>1 DEF Register, Turn
  <2>. QED
    BY <1>3, <2>1, <2>2 DEF Register, Once!Open
<1>4. CASE ReceiveAnswer(q)
  <2>1. Turns' = [Turns EXCEPT ![q] = "over"] /\ Turns[q] = Turn(q)
    BY <1>1, <1>4, TurnMoves DEF ReceiveAnswer, Stages
  <2>2. Turns[q] = "open"
    BY <1>4, <2>1 DEF ReceiveAnswer, Turn, ReceiverAlive
  <2>. QED
    BY <1>4, <2>1, <2>2 DEF ReceiveAnswer, Once!Give
<1>5. CASE Expire(q)
  <2>1. Turns' = [Turns EXCEPT ![q] = "open"] /\ Turns[q] = Turn(q)
    BY <1>1, <1>5, TurnMoves DEF Expire, Stages
  <2>2. Turns[q] = "open"
    BY <1>5, <2>1 DEF Expire, Turn, ReceiverAlive
  <2>. QED
    BY <1>5, <2>1, <2>2 DEF Expire
<1>6. CASE DropReceiver(q)
  <2>1. Turns' = [Turns EXCEPT ![q] = "over"] /\ Turns[q] = Turn(q)
    BY <1>1, <1>6, TurnMoves DEF DropReceiver, Stages
  <2>2. Turns[q] = "open"
    BY <1>6, <2>1 DEF DropReceiver, Turn, ReceiverAlive
  <2>. QED
    BY <1>6, <2>1, <2>2 DEF DropReceiver, Once!Close
<1>7. CASE GiveUp(q)
  <2>1. Turns' = [Turns EXCEPT ![q] = "over"] /\ Turns[q] = Turn(q)
    BY <1>1, <1>7, TurnMoves DEF GiveUp, Stages
  <2>2. Turns[q] = "over"
    BY <1>7, <2>1 DEF GiveUp, Turn, ReceiverAlive
  <2>. QED
    BY <1>7, <2>1, <2>2 DEF GiveUp
<1>8. CASE Abort(q)
  <2>1. Turns' = [Turns EXCEPT ![q] = "over"] /\ Turns[q] = Turn(q)
    BY <1>1, <1>8, TurnMoves DEF Abort, Stages
  <2>2. Turns[q] # "over"
    BY <1>8, <2>1 DEF Abort, Turn, ReceiverAlive
  <2>. QED
    BY <1>8, <2>1, <2>2 DEF Abort, Once!Close
<1>. QED
  BY <1>2, <1>3, <1>4, <1>5, <1>6, <1>7, <1>8 DEF ToolStep

\* The steps of a response: who holds a sender is the only one to use it, so the question has
\* no answer yet; and the sender of a scheduled run's question is held by nobody.
LEMMA ResponseMaps ==
  ASSUME IInv, HeldIsAnswerable, NEW x \in Responses, TakeSender(x) \/ SendAnswer(x)
  PROVE  \/ \E q \in Questions, a \in Answers : Once!Accept(q, a)
         \/ UNCHANGED <<Turns, value, result>>
<1>1. stage' = stage /\ result' = result
  BY DEF TakeSender, SendAnswer
<1>2. Turns' = Turns
  BY <1>1, TurnsStay
<1>3. CASE value' = value
  BY <1>1, <1>2, <1>3
<1>4. CASE value' # value
  <2>. DEFINE q == about[x]
              a == reply[x]
  <2>1. /\ response[x] = "holding" /\ ReceiverAlive(q)
        /\ value' = [value EXCEPT ![q] = a]
    BY <1>4 DEF TakeSender, SendAnswer
  <2>2. q \in Questions /\ a \in Answers /\ value[q] = NoAnswer
    BY <2>1 DEF IInv, TakenOnce
  <2>3. q \in Questions \ Scheduled
    BY <2>1, <2>2 DEF HeldIsAnswerable
  <2>4. Turns[q] = "open"
    BY <2>1, <2>2 DEF Turns, Turn, ReceiverAlive
  <2>. HIDE DEF q, a
  <2>5. Once!Accept(q, a)
    BY <1>1, <1>2, <2>1, <2>2, <2>3, <2>4 DEF Once!Accept, Turns
  <2>. QED
    BY <2>2, <2>5
<1>. QED
  BY <1>3, <1>4

\* However answers, the time limit and stops race, a question takes one answer while it is
\* open, none before or after, none at all if no user can see it, and the agent is given
\* that answer or none.
THEOREM AskUserImplementsAnswerOnce == Spec => ImplementsAnswerOnce
<1>1. Init => Once!Init
  BY DEF Init, Once!Init, Turn
<1>2. ASSUME IInv, HeldIsAnswerable, [Next]_vars
      PROVE  [Once!Next]_(<<[q \in Questions |-> Turn(q)], value, result>>)
  <2>. DEFINE Mapped == Once!Next \/ UNCHANGED <<Turns, value, result>>
  <2>1. ASSUME NEW q \in Questions, SendQuestion(q) \/ ToolStep(q) \/ Abort(q)
        PROVE  Mapped
    BY <1>2, <2>1, ToolMaps DEF Once!Next
  <2>2. ASSUME NEW x \in Responses, TakeSender(x) \/ SendAnswer(x)
        PROVE  Mapped
    BY <1>2, <2>2, ResponseMaps DEF Once!Next
  <2>3. ASSUME UNCHANGED vars PROVE Mapped
    BY <2>3, TurnsStay DEF vars
  <2>4. Mapped => [Once!Next]_(<<[q \in Questions |-> Turn(q)], value, result>>)
    BY DEF Turns
  <2>. HIDE DEF Mapped
  <2>5. Mapped
    BY <1>2, <2>1, <2>2, <2>3 DEF Next
  <2>. QED
    BY <2>4, <2>5
<1>3. Init => HeldIsAnswerable
  BY DEF Init, HeldIsAnswerable
<1>4. IInv => TypeOK
  BY DEF IInv
<1>. QED
  BY <1>1, <1>2, <1>3, <1>4, HeldStaysAnswerable, InvariantHolds, PTL
     DEF Spec, ImplementsAnswerOnce, Once!Spec

-----------------------------------------------------------------------------
(* SoulFiles: texts *)

\* Spelling alike up to case is an equivalence.
LEMMA SpellsIsEquivalence ==
  /\ \A h : Spells(h, h)
  /\ \A g, h : Spells(g, h) => Spells(h, g)
  /\ \A f, g, h : Spells(f, g) /\ Spells(g, h) => Spells(f, h)
  BY DEF Spells

LEMMA InBodies == \A e, c : e \in Bodies(c) <=> \E i \in DOMAIN c : e \in c[i].body
  BY DEF Bodies

LEMMA NothingInEmpty == Bodies(<<>>) = {}
<1>1. DOMAIN <<>> = {}
  OBVIOUS
<1>. QED
  BY <1>1, InBodies, Zenon

LEMMA InExtract ==
  \A e, c, h : e \in Extract(c, h) <=>
     \E k \in DOMAIN c : Spells(c[k].head, h) /\ ~Apart(c, h, k) /\ e \in c[k].body
  BY DEF Extract

LEMMA SectionFields ==
  /\ \A s \in Section : s.head \in Headings \cup {LogHeading} /\ s.body \subseteq Ops
  /\ \A h \in Headings \cup {LogHeading}, b \in SUBSET Ops :
        [head |-> h, body |-> b] \in Section
  BY DEF Section

\* A set of positions has a least one.
LEMMA LeastPosition ==
  ASSUME NEW S \in SUBSET Nat, S # {}
  PROVE  Min(S) \in S
<1>. DEFINE R == OpToRel(<, Nat)
<1>1. IsWellFoundedOn(R, Nat)
  BY NatLessThanWellFounded
<1>2. \A x, y \in Nat : <<x, y>> \in R <=> x < y
  BY DEF OpToRel
<1>. HIDE DEF R
<1>3. PICK x \in S : \A y \in S : ~(<<y, x>> \in R)
  BY <1>1, WFMin, Zenon
<1>4. \A y \in S : ~(y < x)
  BY <1>2, <1>3, Zenon
<1>5. \A y \in S : x <= y
  BY <1>4
<1>. QED
  BY <1>5 DEF Min

LEMMA FoundIsPosition ==
  ASSUME NEW c \in Seq(Section), NEW h
  PROVE  Found(c, h) = 0 \/ Found(c, h) \in DOMAIN c
<1>. DEFINE S == {i \in 1..Len(c) : Opens(c[i].head, h)}
<1>1. Found(c, h) = IF S # {} THEN Min(S) ELSE 0
  BY DEF Found, SelectInSeq
<1>2. S \in SUBSET Nat /\ S \subseteq DOMAIN c
  OBVIOUS
<1>. HIDE DEF S
<1>. QED
  BY <1>1, <1>2, LeastPosition

\* A section with a heading and a body is in the text u.
HasSection(u, h, b) == \E i \in DOMAIN u : u[i].head = h /\ u[i].body = b

\* The text u has the sections of the text c, but for the k-th, and perhaps one more.
SectionsOf(u, c, k, h, b) ==
    /\ \A i \in DOMAIN u : \/ u[i].head = h /\ u[i].body = b
                           \/ i \in DOMAIN c /\ u[i] = c[i]
    /\ \A i \in DOMAIN c : i # k => i \in DOMAIN u /\ u[i] = c[i]

\* update_section puts in one section, and keeps all but the one that it found.
LEMMA UpdateIsLocal ==
  ASSUME NEW c \in Seq(Section), NEW h \in Headings, NEW b \in SUBSET Ops
  PROVE  /\ UpdateSection(c, h, b) \in Seq(Section)
         /\ SectionsOf(UpdateSection(c, h, b), c, Found(c, h), h, b)
         /\ HasSection(UpdateSection(c, h, b), h, b)
<1>. DEFINE s == [head |-> h, body |-> b]
            k == Found(c, h)
            u == UpdateSection(c, h, b)
<1>1. s \in Section /\ s.head = h /\ s.body = b
  BY SectionFields
<1>2. u = IF k = 0 THEN Append(c, s) ELSE [c EXCEPT ![k] = s]
  BY DEF UpdateSection
<1>3. k = 0 \/ k \in DOMAIN c
  BY FoundIsPosition
<1>. HIDE DEF s, k, u
<1>4. /\ u \in Seq(Section)
      /\ \A i \in DOMAIN u : u[i] = s \/ (i \in DOMAIN c /\ u[i] = c[i])
      /\ \A i \in DOMAIN c : i # k => i \in DOMAIN u /\ u[i] = c[i]
      /\ \E i \in DOMAIN u : u[i] = s
  <2>1. CASE k = 0
    <3>1. u = Append(c, s)
      BY <1>2, <2>1
    <3>2. /\ u \in Seq(Section) /\ Len(c) \in Nat /\ DOMAIN u = 1..(Len(c) + 1)
          /\ DOMAIN c = 1..Len(c) /\ u[Len(c) + 1] = s /\ \A i \in 1..Len(c) : u[i] = c[i]
      BY <1>1, <3>1
    <3>. QED
      BY <3>2
  <2>2. CASE k # 0
    <3>1. u = [c EXCEPT ![k] = s] /\ k \in DOMAIN c
      BY <1>2, <1>3, <2>2
    <3>2. DOMAIN u = DOMAIN c /\ u[k] = s /\ \A i \in DOMAIN c : i # k => u[i] = c[i]
      BY <3>1
    <3>3. u \in Seq(Section)
      BY <1>1, <3>1
    <3>. QED
      BY <3>1, <3>2, <3>3
  <2>. QED
    BY <2>1, <2>2
<1>5. SectionsOf(u, c, k, h, b)
  BY <1>1, <1>4, Zenon DEF SectionsOf
<1>6. HasSection(u, h, b)
  BY <1>1, <1>4, Zenon DEF HasSection
<1>. QED
  BY <1>4, <1>5, <1>6 DEF k, u

\* forget keeps the sections and their headings, and what else is in them.
LEMMA ForgetIsLocal ==
  ASSUME NEW c \in Seq(Section), NEW h, NEW e
  PROVE  /\ Forget(c, h, e) \in Seq(Section)
         /\ DOMAIN Forget(c, h, e) = DOMAIN c
         /\ \A i \in DOMAIN c :
               /\ Forget(c, h, e)[i].head = c[i].head
               /\ Forget(c, h, e)[i].body \subseteq c[i].body
               /\ c[i].body \subseteq Forget(c, h, e)[i].body \cup {e}
               /\ Spells(c[i].head, h) => e \notin Forget(c, h, e)[i].body
         /\ Forget(c, h, e) # c => e \in Bodies(c)
<1>. DEFINE u == Forget(c, h, e)
<1>1. u = [i \in DOMAIN c |-> IF Spells(c[i].head, h) THEN [c[i] EXCEPT !.body = @ \ {e}]
                             ELSE c[i]]
  BY DEF Forget
<1>. HIDE DEF u
<1>2. DOMAIN u = DOMAIN c /\ DOMAIN c = 1..Len(c) /\ Len(c) \in Nat
  BY <1>1
<1>3. ASSUME NEW i \in DOMAIN c
      PROVE  /\ u[i] \in Section
             /\ u[i].head = c[i].head
             /\ u[i].body \subseteq c[i].body
             /\ c[i].body \subseteq u[i].body \cup {e}
             /\ Spells(c[i].head, h) => e \notin u[i].body
             /\ u[i] # c[i] => e \in c[i].body
  <2>1. c[i] \in Section
    OBVIOUS
  <2>2. CASE Spells(c[i].head, h)
    <3>1. u[i] = [c[i] EXCEPT !.body = @ \ {e}]
      BY <1>1, <2>2
    <3>2. u[i] = [head |-> c[i].head, body |-> c[i].body \ {e}]
      BY <2>1, <3>1 DEF Section
    <3>3. c[i] = [head |-> c[i].head, body |-> c[i].body]
      BY <2>1 DEF Section
    <3>4. u[i].head = c[i].head /\ u[i].body = c[i].body \ {e}
      BY <3>2
    <3>5. u[i] \in Section
      BY <2>1, <3>2 DEF Section
    <3>6. e \notin c[i].body => c[i].body \ {e} = c[i].body
      OBVIOUS
    <3>. QED
      BY <3>2, <3>3, <3>4, <3>5, <3>6
  <2>3. CASE ~Spells(c[i].head, h)
    BY <1>1, <2>1, <2>3
  <2>. QED
    BY <2>2, <2>3
<1>4. u \in Seq(Section)
  <2>1. u \in [1..Len(c) -> Section]
    BY <1>1, <1>2, <1>3
  <2>. QED
    BY <1>2, <2>1
<1>5. u # c => e \in Bodies(c)
  <2>1. SUFFICES ASSUME \A i \in DOMAIN c : u[i] = c[i]
                 PROVE  u = c
    BY <1>3, InBodies
  <2>. QED
    BY <1>2, <1>4, <2>1
<1>. QED
  BY <1>2, <1>3, <1>4, <1>5 DEF u

\* The text t is a followed by b.
Joins(t, a, b) ==
    /\ t \in Seq(Section)
    /\ Len(t) = Len(a) + Len(b)
    /\ \A i \in 1..Len(a) : t[i] = a[i]
    /\ \A i \in (Len(a) + 1)..(Len(a) + Len(b)) : t[i] = b[i - Len(a)]

LEMMA Concatenation ==
  ASSUME NEW a \in Seq(Section), NEW b \in Seq(Section)
  PROVE  Joins(a \o b, a, b)
  BY DEF Joins

\* A write over a text that another has put there leaves sections of both.
LEMMA OverlaidIsText ==
  ASSUME NEW mine \in Seq(Section), NEW theirs \in Seq(Section), NEW t \in Overlaid(mine, theirs)
  PROVE  /\ t \in Seq(Section)
         /\ \A i \in DOMAIN t : \/ \E j \in DOMAIN mine : t[i].head = mine[j].head
                                \/ \E j \in DOMAIN theirs : t[i].head = theirs[j].head
<1>1. CASE mine = <<>> /\ t = theirs
  BY <1>1
<1>2. CASE t = mine
  BY <1>2
<1>3. CASE mine # <<>> /\ t \notin {mine, theirs}
  <2>. DEFINE n == Len(mine)
  <2>1a. t \in UNION {{[mine EXCEPT ![Len(mine)].body = @ \cup r]
                          \o SubSeq(theirs, x + 1, Len(theirs)) :
                          r \in SUBSET theirs[x].body} : x \in DOMAIN theirs}
    BY <1>3 DEF Overlaid
  <2>1b. PICK k \in DOMAIN theirs :
           t \in {[mine EXCEPT ![Len(mine)].body = @ \cup r]
                     \o SubSeq(theirs, k + 1, Len(theirs)) : r \in SUBSET theirs[k].body}
    BY <2>1a, Zenon
  <2>1. PICK rest \in SUBSET theirs[k].body :
           t = [mine EXCEPT ![Len(mine)].body = @ \cup rest] \o SubSeq(theirs, k + 1, Len(theirs))
    BY <2>1b, Zenon
  <2>. DEFINE a == [mine EXCEPT ![n].body = @ \cup rest]
              b == SubSeq(theirs, k + 1, Len(theirs))
  <2>2. n \in DOMAIN mine /\ n \in Nat /\ DOMAIN mine = 1..n /\ mine[n] \in Section
    BY <1>3
  <2>3. theirs[k] \in Section /\ rest \subseteq Ops
    BY SectionFields
  <2>4. [mine[n] EXCEPT !.body = @ \cup rest] \in Section
    BY <2>2, <2>3 DEF Section
  <2>5. a = [mine EXCEPT ![n] = [mine[n] EXCEPT !.body = @ \cup rest]]
    BY <2>2
  <2>6. /\ a \in Seq(Section) /\ Len(a) = n
        /\ \A i \in 1..n : a[i].head = mine[i].head
    <3>1. a \in Seq(Section) /\ DOMAIN a = DOMAIN mine
      BY <2>2, <2>4, <2>5
    <3>2. \A i \in 1..n : i # n => a[i] = mine[i]
      BY <2>2, <2>5
    <3>3. a[n].head = mine[n].head
      BY <2>2, <2>5 DEF Section
    <3>. QED
      BY <2>2, <3>1, <3>2, <3>3
  <2>7. /\ b \in Seq(Section) /\ Len(b) \in Nat
        /\ \A i \in 1..Len(b) : k + i \in DOMAIN theirs /\ b[i] = theirs[k + i]
    <3>1. k \in 1..Len(theirs) /\ Len(theirs) \in Nat
      OBVIOUS
    <3>2. b \in Seq(Section) /\ Len(b) = Len(theirs) - k
      BY <3>1
    <3>3. \A i \in 1..(Len(theirs) - k) : b[i] = theirs[k + i]
      BY <3>1
    <3>. QED
      BY <3>1, <3>2, <3>3
  <2>. HIDE DEF a, b, n
  <2>8. t = a \o b
    BY <2>1 DEF a, b, n
  <2>9. /\ t \in Seq(Section) /\ DOMAIN t = 1..(n + Len(b))
        /\ \A i \in 1..n : t[i] = a[i]
        /\ \A i \in (n + 1)..(n + Len(b)) : t[i] = b[i - n]
    <3>1. a \in Seq(Section) /\ b \in Seq(Section) /\ Len(a) = n
      BY <2>6, <2>7
    <3>2. Joins(t, a, b)
      BY <2>8, <3>1, Concatenation
    <3>3. /\ t \in Seq(Section) /\ Len(t) = n + Len(b)
          /\ \A i \in 1..n : t[i] = a[i]
          /\ \A i \in (n + 1)..(n + Len(b)) : t[i] = b[i - n]
      BY <3>1, <3>2 DEF Joins
    <3>. QED
      BY <3>1, <3>3
  <2>10. ASSUME NEW i \in DOMAIN t
         PROVE  \/ \E j \in DOMAIN mine : t[i].head = mine[j].head
                \/ \E j \in DOMAIN theirs : t[i].head = theirs[j].head
    <3>1. CASE i \in 1..n
      BY <2>2, <2>6, <2>9, <3>1
    <3>2. CASE i \in (n + 1)..(n + Len(b))
      <4>1. i - n \in 1..Len(b)
        BY <2>2, <2>7, <3>2
      <4>. QED
        BY <2>7, <2>9, <3>2, <4>1
    <3>. QED
      BY <2>2, <2>7, <2>9, <3>1, <3>2
  <2>. QED
    BY <2>9, <2>10
<1>. QED
  BY <1>1, <1>2, <1>3 DEF Overlaid

\* A write over the empty file.
LEMMA OverlaidOnNothing ==
  ASSUME NEW mine, NEW t \in Overlaid(mine, <<>>)
  PROVE  t = mine
<1>1. CASE mine = <<>>
  BY <1>1 DEF Overlaid
<1>2. CASE mine # <<>>
  <2>1. DOMAIN <<>> = {}
    OBVIOUS
  <2>2. \A f : UNION {f[k] : k \in DOMAIN <<>>} = {}
    BY <2>1
  <2>3. t = mine \/ \E k \in DOMAIN <<>> : TRUE
    BY <1>2 DEF Overlaid
  <2>. QED
    BY <2>1, <2>3
<1>. QED
  BY <1>1, <1>2

\* update_section puts no entry into the text but those of the new section.
LEMMA UpdatedBodies ==
  ASSUME NEW c \in Seq(Section), NEW h \in Headings, NEW b \in SUBSET Ops
  PROVE  Bodies(UpdateSection(c, h, b)) \subseteq Bodies(c) \cup b
<1>. DEFINE u == UpdateSection(c, h, b)
<1>1. SectionsOf(u, c, Found(c, h), h, b)
  BY UpdateIsLocal
<1>. HIDE DEF u
<1>2. \A i \in DOMAIN u : u[i].body = b \/ (i \in DOMAIN c /\ u[i].body = c[i].body)
  BY <1>1 DEF SectionsOf
<1>. QED
  BY <1>2, InBodies DEF u

\* An entry that stands in MEMORY.md stands there after a section was put in, unless it was in
\* the section that had to go and is not in the new one, or the headings differ.
LEMMA StandsAfterUpdate ==
  ASSUME NEW c \in Seq(Section), NEW h \in Headings, NEW b \in SUBSET Ops, NEW e,
         Stands(e, Memory, c),
         Found(c, h) = 0 \/ c[Found(c, h)].head = h,
         Found(c, h) # 0 /\ e \in c[Found(c, h)].body => e \in b
  PROVE  Stands(e, Memory, UpdateSection(c, h, b))
<1>. DEFINE u == UpdateSection(c, h, b)
<1>1. Memory # DailyLog
  BY DEF Memory, DailyLog
<1>2. PICK i \in DOMAIN c : Spells(c[i].head, call[e].head) /\ e \in c[i].body
  BY <1>1 DEF Stands
<1>3. SectionsOf(u, c, Found(c, h), h, b) /\ HasSection(u, h, b)
  BY UpdateIsLocal
<1>. HIDE DEF u
<1>4. SUFFICES \E j \in DOMAIN u : Spells(u[j].head, call[e].head) /\ e \in u[j].body
  BY <1>1 DEF Stands, u
<1>5. CASE i # Found(c, h)
  BY <1>2, <1>3, <1>5 DEF SectionsOf
<1>6. CASE i = Found(c, h)
  <2>1. Found(c, h) # 0
    BY <1>6
  <2>2. PICK j \in DOMAIN u : u[j].head = h /\ u[j].body = b
    BY <1>3 DEF HasSection
  <2>. QED
    BY <1>2, <1>6, <2>1, <2>2
<1>. QED
  BY <1>5, <1>6

\* What was forgotten is not in the text after a section was put in that holds, of the
\* forgotten, only what a section of its name did.
LEMMA ForgottenAfterUpdate ==
  ASSUME NEW c \in Seq(Section), NEW h \in Headings, NEW b \in SUBSET Ops, NEW x,
         Forgotten(x, c),
         call[x].entry \in b => call[x].entry \in Extract(c, h)
  PROVE  Forgotten(x, UpdateSection(c, h, b))
<1>. DEFINE u == UpdateSection(c, h, b)
            e == call[x].entry
            g == call[x].head
<1>1. \A i \in DOMAIN u : (u[i].head = h /\ u[i].body = b) \/ (i \in DOMAIN c /\ u[i] = c[i])
  BY UpdateIsLocal DEF SectionsOf
<1>. HIDE DEF u
<1>2. SUFFICES ASSUME NEW i \in DOMAIN u, Spells(u[i].head, g)
               PROVE  e \notin u[i].body
  BY DEF Forgotten, u
<1>3. CASE i \in DOMAIN c /\ u[i] = c[i]
  BY <1>2, <1>3 DEF Forgotten
<1>4. CASE u[i].head = h /\ u[i].body = b
  <2>2. SUFFICES ASSUME e \in b PROVE FALSE
    BY <1>4
  <2>3. PICK k \in DOMAIN c : Spells(c[k].head, h) /\ e \in c[k].body
    BY <2>2, InExtract
  <2>4. Spells(c[k].head, g)
    BY <1>2, <1>4, <2>3, SpellsIsEquivalence, Zenon
  <2>. QED
    BY <2>3, <2>4 DEF Forgotten
<1>. QED
  BY <1>1, <1>3, <1>4

\* An entry that stands in MEMORY.md is still there when another was forgotten.
LEMMA StandsAfterForget ==
  ASSUME NEW c \in Seq(Section), NEW h, NEW x, NEW e, Stands(e, Memory, c), e # x
  PROVE  Stands(e, Memory, Forget(c, h, x))
<1>. DEFINE u == Forget(c, h, x)
<1>1. Memory # DailyLog
  BY DEF Memory, DailyLog
<1>2. /\ DOMAIN u = DOMAIN c
      /\ \A i \in DOMAIN c : u[i].head = c[i].head /\ c[i].body \subseteq u[i].body \cup {x}
  BY ForgetIsLocal
<1>. HIDE DEF u
<1>. QED
  BY <1>1, <1>2 DEF Stands, u

\* What was forgotten is not in the text after something else was.
LEMMA ForgottenAfterForget ==
  ASSUME NEW c \in Seq(Section), NEW h, NEW e, NEW x, Forgotten(x, c)
  PROVE  Forgotten(x, Forget(c, h, e))
<1>. DEFINE u == Forget(c, h, e)
<1>1. /\ DOMAIN u = DOMAIN c
      /\ \A i \in DOMAIN c : u[i].head = c[i].head /\ u[i].body \subseteq c[i].body
  BY ForgetIsLocal
<1>. HIDE DEF u
<1>. QED
  BY <1>1 DEF Forgotten, u

\* forget leaves its entry in no section that spells its heading.
LEMMA ForgetForgets ==
  ASSUME NEW c \in Seq(Section), NEW x
  PROVE  Forgotten(x, Forget(c, call[x].head, call[x].entry))
<1>. DEFINE u == Forget(c, call[x].head, call[x].entry)
<1>1. /\ DOMAIN u = DOMAIN c
      /\ \A i \in DOMAIN c : /\ u[i].head = c[i].head
                             /\ Spells(c[i].head, call[x].head) => call[x].entry \notin u[i].body
  BY ForgetIsLocal
<1>. HIDE DEF u
<1>. QED
  BY <1>1 DEF Forgotten, u

-----------------------------------------------------------------------------
(* SoulFiles: the invariant *)

Done == {o \in Ops : phase[o] = "done"}

Writes(o) == phase[o] \in {"ready", "truncated"}

\* A call that is to forget something, or has: what it read did hold its entry.
Forgets(o) == call[o].kind = "forget" /\ removable[o] # {}

\* What a call of each kind is asked to leave or to forget; only an append is "located".
CallFits(o) ==
    /\ phase[o] = "none" <=> call[o] = NoCall
    /\ call[o].kind \in {"append", "log"} => call[o].entry = o
    /\ call[o].kind \in {"replace", "write"} => call[o].entry \in {o, Blank}
    /\ call[o].kind = "forget" => call[o].entry \in Ops
    /\ phase[o] = "located" => call[o].kind = "append"

\* What is written to MEMORY.md has the headings of MEMORY.md.
OutFits(o) == FileOf(o) = Memory => \A i \in DOMAIN out[o] : out[o][i].head \in Headings

KeptIsDone == \A f \in Files : kept[f] \subseteq Done

\* No two calls are at work on one file.
Alone == \A o, p \in Ops : Busy(o) /\ Busy(p) /\ FileOf(o) = FileOf(p) => o = p

\* What a call has taken from the file is still so.
Fresh(o) ==
    /\ phase[o] = "truncated" => file[FileOf(o)] = <<>>
    /\ phase[o] = "located" => text[o] = Extract(file[Memory], call[o].head) \cup {o}

\* Entries are in a file, or about to be forgotten, only when their calls are over.
FilesAreDone == \A f \in Files : Bodies(file[f]) \subseteq Done

EntriesDone(o) ==
    /\ Writes(o) => Bodies(out[o]) \subseteq Done \cup {o}
    /\ Forgets(o) /\ phase[o] \in {"ready", "truncated", "done"} => call[o].entry \in Done

\* The text about to be written has nothing that was forgotten ...
OutForgets(o) ==
    Writes(o) /\ FileOf(o) = Memory =>
        \A x \in Ops : Forgets(x) /\ (x \in Done \/ x = o) => Forgotten(x, out[o])

\* ... and what is to stay.
OutKeeps(o) ==
    Writes(o) => \A e \in (kept[FileOf(o)] \ removable[o]) \cup Leaves(o) :
                     Stands(e, FileOf(o), out[o])

SoulInv ==
    /\ SoulTypeOK
    /\ \A o \in Ops : CallFits(o) /\ OutFits(o)
    /\ KeptIsDone
    /\ ~disturbed => /\ Alone
                     /\ FilesAreDone
                     /\ \A o \in Ops : Fresh(o) /\ EntriesDone(o) /\ OutForgets(o)
                     /\ ~detached => \A o \in Ops : OutKeeps(o)
    /\ EntriesStay
    /\ ForgottenIsGone

\* At the start the files hold no entries and no call has begun.
LEMMA SoulInitEstablishes == SoulInit => SoulInv
<1>. SUFFICES ASSUME SoulInit PROVE SoulInv
  OBVIOUS
<1>. DEFINE t == [i \in DOMAIN Template |-> [head |-> Template[i], body |-> {}]]
<1>1. Memory # DailyLog /\ Files = {Memory, DailyLog}
  BY DEF Memory, DailyLog, Files
<1>2. Template \in Seq(Headings) /\ MaxCrashes \in Nat
  BY SoulFilesAssumption
<1>3. t \in Seq(Section)
  <2>1. \A i \in DOMAIN Template : [head |-> Template[i], body |-> {}] \in Section
    BY <1>2, SectionFields
  <2>2. t \in [DOMAIN Template -> Section]
    BY <2>1
  <2>3. DOMAIN Template = 1..Len(Template) /\ Len(Template) \in Nat
    BY <1>2
  <2>. QED
    BY <2>2, <2>3
<1>4. \A i \in DOMAIN t : t[i].head \in Headings /\ t[i].body = {}
  BY <1>2
<1>. HIDE DEF t
<1>5. file = [f \in Files |-> IF f = DailyLog THEN <<>> ELSE t]
  BY DEF SoulInit, t
<1>6. file[Memory] = t /\ file[DailyLog] = <<>>
  BY <1>1, <1>5
<1>7. file \in [Files -> Seq(Section)]
  BY <1>3, <1>5
<1>8. SoulTypeOK
  <2>1. \A i \in DOMAIN file[Memory] : file[Memory][i].head \in Headings
    BY <1>4, <1>6
  <2>2. 0 \in 0..MaxCrashes
    BY <1>2
  <2>3. out \in [Ops -> Seq(Section)]
    BY DEF SoulInit
  <2>. QED
    BY <1>7, <2>1, <2>2, <2>3 DEF SoulInit, SoulTypeOK, Phases
<1>9. \A o \in Ops : CallFits(o) /\ OutFits(o)
  BY DEF SoulInit, CallFits, OutFits, NoCall
<1>10. KeptIsDone /\ EntriesStay /\ ForgottenIsGone
  BY DEF SoulInit, KeptIsDone, EntriesStay, ForgottenIsGone
<1>11. Alone /\ \A o \in Ops : Fresh(o) /\ EntriesDone(o) /\ OutForgets(o) /\ OutKeeps(o)
  BY DEF SoulInit, Alone, Busy, Fresh, EntriesDone, OutForgets, OutKeeps, Writes
<1>12. FilesAreDone
  <2>1. Bodies(file[Memory]) = {}
    BY <1>4, <1>6, InBodies
  <2>. QED
    BY <1>1, <1>6, <2>1, NothingInEmpty DEF FilesAreDone
<1>. QED
  BY <1>8, <1>9, <1>10, <1>11, <1>12 DEF SoulInv

-----------------------------------------------------------------------------
(* SoulFiles: the steps that leave the files alone *)

\* What the invariant asks of one call.
Own(o) ==
    /\ CallFits(o) /\ OutFits(o)
    /\ ~disturbed => /\ Fresh(o) /\ EntriesDone(o) /\ OutForgets(o)
                     /\ ~detached => OutKeeps(o)

OthersStay(o) ==
    \A p \in Ops \ {o} : /\ phase'[p] = phase[p]
                         /\ call'[p] = call[p]
                         /\ text'[p] = text[p]
                         /\ out'[p] = out[p]
                         /\ removable'[p] = removable[p]

\* A step of o before it writes: the files and what is kept in them stay, and if it ends
\* the call it has nothing to forget.
Quiet(o) ==
    /\ OthersStay(o)
    /\ UNCHANGED <<file, kept>>
    /\ phase[o] \notin {"done", "truncated"} /\ phase'[o] # "truncated"
    /\ phase'[o] = "done" => removable'[o] = {}
    /\ disturbed => disturbed'
    /\ detached => detached'
    /\ ~disturbed' => (Busy(o)' => \A p \in Ops \ {o} : Busy(p) => FileOf(p) # FileOf(o)')

LEMMA OthersKeepTheirPlaces ==
  ASSUME NEW o \in Ops, OthersStay(o), NEW p \in Ops \ {o}
  PROVE  /\ FileOf(p)' = FileOf(p)
         /\ Leaves(p)' = Leaves(p)
         /\ Forgets(p)' = Forgets(p)
         /\ Writes(p)' = Writes(p)
         /\ Busy(p)' = Busy(p)
         /\ CallFits(p)' = CallFits(p)
         /\ OutFits(p)' = OutFits(p)
         /\ p \in Done' <=> p \in Done
         /\ \A f, c : Stands(p, f, c)' = Stands(p, f, c)
         /\ \A c : Forgotten(p, c)' = Forgotten(p, c)
<1>1. /\ phase'[p] = phase[p] /\ call'[p] = call[p]
      /\ out'[p] = out[p] /\ removable'[p] = removable[p]
  BY DEF OthersStay
<1>2. FileOf(p)' = FileOf(p)
  BY <1>1 DEF FileOf
<1>. QED
  BY <1>1, <1>2 DEF Leaves, Forgets, Writes, Busy, CallFits, OutFits, Done, Stands, Forgotten

\* A call that has begun has its arguments, and leaves no entry but its own.
LEMMA CallHasBegun ==
  ASSUME SoulInv, NEW p \in Ops, phase[p] # "none"
  PROVE  call[p] \in Calls /\ Leaves(p) \subseteq {p} /\ FileOf(p) \in Files
<1>1. FileOf(p) \in Files
  BY DEF FileOf, Files
<1>2. call[p] \in Calls \cup {NoCall} /\ CallFits(p)
  BY DEF SoulInv, SoulTypeOK
<1>3. call[p] \in Calls
  BY <1>2 DEF CallFits
<1>4. call[p].kind \in Kinds
  BY <1>3 DEF Calls
<1>5. Leaves(p) \subseteq {p}
  BY <1>2, <1>4 DEF Leaves, CallFits, Kinds
<1>. QED
  BY <1>1, <1>3, <1>5

LEMMA QuietStep ==
  ASSUME SoulInv, NEW o \in Ops, SoulTypeOK', Quiet(o), Own(o)'
  PROVE  SoulInv'
<1>1. OthersStay(o)
  BY DEF Quiet
<1>2. \A p \in Ops \ {o} :
         /\ FileOf(p)' = FileOf(p)
         /\ Leaves(p)' = Leaves(p)
         /\ Forgets(p)' = Forgets(p)
         /\ Writes(p)' = Writes(p)
         /\ Busy(p)' = Busy(p)
         /\ CallFits(p)' = CallFits(p)
         /\ OutFits(p)' = OutFits(p)
         /\ p \in Done' <=> p \in Done
         /\ \A f, c : Stands(p, f, c)' = Stands(p, f, c)
         /\ \A c : Forgotten(p, c)' = Forgotten(p, c)
  BY <1>1, OthersKeepTheirPlaces
<1>3. o \notin Done /\ Done \subseteq Done' /\ Done' \subseteq Done \cup {o}
  BY <1>2 DEF Quiet, Done
<1>4. o \in Done' => ~Forgets(o)'
  BY DEF Quiet, Done, Forgets
<1>5. file' = file /\ kept' = kept /\ (disturbed => disturbed') /\ (detached => detached')
  BY DEF Quiet
<1>6. \A p \in Ops : CallFits(p)' /\ OutFits(p)'
  BY <1>2 DEF SoulInv, Own
<1>7. KeptIsDone'
  BY <1>3, <1>5 DEF SoulInv, KeptIsDone
<1>8. \A f \in Files : o \notin kept[f]
  BY <1>3 DEF SoulInv, KeptIsDone
<1>9. \A f \in Files : kept[f] \subseteq Ops
  BY DEF SoulInv, SoulTypeOK
<1>10. ASSUME NEW f \in Files PROVE Writing(f)' <=> Writing(f)
  <2>1. \A p \in Ops \ {o} : phase'[p] = phase[p] /\ FileOf(p)' = FileOf(p)
    BY <1>1, <1>2 DEF OthersStay
  <2>2. phase[o] # "truncated" /\ phase'[o] # "truncated"
    BY DEF Quiet
  <2>. QED
    BY <2>1, <2>2 DEF Writing
<1>11. EntriesStay'
  <2>1. \A f \in Files : \A e \in kept[f] : Stands(e, f, file[f])' = Stands(e, f, file[f])
    <3>1. \A f \in Files : \A e \in kept[f] : e \in Ops \ {o}
      BY <1>8, <1>9
    <3>. QED
      BY <1>2, <1>5, <3>1 DEF Stands
  <2>. QED
    BY <1>5, <1>10, <2>1 DEF SoulInv, EntriesStay
<1>12. ForgottenIsGone'
  <2>1. SUFFICES ASSUME NEW x \in Ops, x \in Done', Forgets(x)', ~disturbed'
                 PROVE  Forgotten(x, file[Memory])'
    BY DEF ForgottenIsGone, Done, Forgets
  <2>2. x # o
    BY <1>4, <2>1
  <2>3. Forgotten(x, file[Memory])
    BY <1>2, <1>5, <2>1, <2>2 DEF SoulInv, ForgottenIsGone, Done, Forgets
  <2>4. call'[x] = call[x]
    BY <1>1, <2>2 DEF OthersStay
  <2>. QED
    BY <1>5, <2>3, <2>4 DEF Forgotten
<1>13. ASSUME ~disturbed'
       PROVE  /\ Alone' /\ FilesAreDone'
              /\ \A p \in Ops : Fresh(p)' /\ EntriesDone(p)' /\ OutForgets(p)'
              /\ ~detached' => \A p \in Ops : OutKeeps(p)'
  <2>1. Alone /\ FilesAreDone /\ \A p \in Ops : Fresh(p) /\ EntriesDone(p) /\ OutForgets(p)
    BY <1>5, <1>13 DEF SoulInv
  <2>2. Alone'
    <3>1. Busy(o)' => \A p \in Ops \ {o} : Busy(p)' => FileOf(p)' # FileOf(o)'
      BY <1>2, <1>13 DEF Quiet
    <3>2. \A p, q \in Ops \ {o} : Busy(p)' /\ Busy(q)' /\ FileOf(p)' = FileOf(q)' => p = q
      BY <1>2, <2>1 DEF Alone
    <3>. QED
      BY <3>1, <3>2 DEF Alone
  <2>3. FilesAreDone'
    BY <1>3, <1>5, <2>1 DEF FilesAreDone, Bodies
  <2>4. Fresh(o)' /\ EntriesDone(o)' /\ OutForgets(o)' /\ (~detached' => OutKeeps(o)')
    BY <1>13 DEF Own
  <2>5. ASSUME NEW p \in Ops \ {o} PROVE Fresh(p)' /\ EntriesDone(p)'
    <3>1. phase'[p] = phase[p] /\ call'[p] = call[p] /\ text'[p] = text[p] /\ out'[p] = out[p]
      BY <1>1 DEF OthersStay
    <3>2. Fresh(p)'
      BY <1>2, <1>5, <2>1, <3>1 DEF Fresh
    <3>3. EntriesDone(p)'
      BY <1>2, <1>3, <2>1, <3>1 DEF EntriesDone, Bodies
    <3>. QED
      BY <3>2, <3>3
  <2>6. ASSUME NEW p \in Ops \ {o} PROVE OutForgets(p)'
    <3>1. out'[p] = out[p]
      BY <1>1 DEF OthersStay
    <3>2. SUFFICES ASSUME Writes(p)', FileOf(p)' = Memory, NEW x \in Ops, Forgets(x)',
                          x \in Done' \/ x = p
                   PROVE  Forgotten(x, out[p])'
      BY DEF OutForgets
    <3>3. x # o
      BY <1>4, <3>2
    <3>4. Forgotten(x, out[p])
      BY <1>2, <2>1, <3>2, <3>3 DEF OutForgets
    <3>5. call'[x] = call[x]
      BY <1>1, <3>3 DEF OthersStay
    <3>. QED
      BY <3>1, <3>4, <3>5 DEF Forgotten
  <2>7. ASSUME ~detached', NEW p \in Ops \ {o} PROVE OutKeeps(p)'
    <3>1. out'[p] = out[p] /\ removable'[p] = removable[p]
      BY <1>1 DEF OthersStay
    <3>2. OutKeeps(p) /\ CallFits(p)
      BY <1>5, <1>13, <2>7 DEF SoulInv
    <3>3. SUFFICES ASSUME Writes(p)', NEW e \in ((kept[FileOf(p)] \ removable[p]) \cup Leaves(p))'
                   PROVE  Stands(e, FileOf(p), out[p])'
      BY DEF OutKeeps
    <3>4. Writes(p) /\ e \in (kept[FileOf(p)] \ removable[p]) \cup Leaves(p)
      BY <1>2, <1>5, <3>1, <3>3
    <3>5. Stands(e, FileOf(p), out[p])
      BY <3>2, <3>4 DEF OutKeeps
    <3>6. e # o /\ e \in Ops
      <4>1. phase[p] # "none"
        BY <3>4 DEF Writes
      <4>2. Leaves(p) \subseteq {p} /\ FileOf(p) \in Files
        BY <4>1, CallHasBegun
      <4>. QED
        BY <1>8, <1>9, <3>4, <4>2
    <3>7. call'[e] = call[e]
      BY <1>1, <3>6 DEF OthersStay
    <3>. QED
      BY <1>2, <3>1, <3>5, <3>7 DEF Stands
  <2>. QED
    BY <2>2, <2>3, <2>4, <2>5, <2>6, <2>7
<1>. QED
  BY <1>6, <1>7, <1>11, <1>12, <1>13 DEF SoulInv

-----------------------------------------------------------------------------
(* SoulFiles: the steps of a write *)

\* When the calls keep their arguments, what is said of them stays.
LEMMA SameCalls ==
  ASSUME call' = call, removable' = removable
  PROVE  /\ \A p : FileOf(p)' = FileOf(p) /\ Leaves(p)' = Leaves(p) /\ Forgets(p)' = Forgets(p)
         /\ \A p, f, c : Stands(p, f, c)' = Stands(p, f, c)
         /\ \A p, c : Forgotten(p, c)' = Forgotten(p, c)
  BY DEF FileOf, Leaves, Forgets, Stands, Forgotten

\* Opening the file empties it; nobody else is at work on it, or the calls have overlapped.
LEMMA TruncateStep ==
  ASSUME SoulInv, NEW o \in Ops, Truncate(o)
  PROVE  SoulInv'
<1>1. /\ call' = call /\ text' = text /\ out' = out /\ crashes' = crashes
      /\ removable' = removable /\ kept' = kept /\ disturbed' = disturbed
      /\ detached' = detached
      /\ phase[o] = "ready" /\ phase' = [phase EXCEPT ![o] = "truncated"]
      /\ file' = [file EXCEPT ![FileOf(o)] = <<>>]
  BY DEF Truncate, history
<1>2. SoulTypeOK
  BY DEF SoulInv
<1>3. FileOf(o) \in Files /\ Memory \in Files
  BY DEF FileOf, Files
<1>4. /\ phase'[o] = "truncated" /\ \A p \in Ops \ {o} : phase'[p] = phase[p]
      /\ file'[FileOf(o)] = <<>> /\ \A f \in Files \ {FileOf(o)} : file'[f] = file[f]
  BY <1>1, <1>2, <1>3 DEF SoulTypeOK
<1>5. SoulTypeOK'
  <2>1. \A i \in DOMAIN file'[Memory] : file'[Memory][i].head \in Headings
    <3>1. CASE FileOf(o) = Memory
      <4>1. DOMAIN file'[Memory] = {}
        BY <1>4, <3>1
      <4>. QED
        BY <4>1
    <3>2. CASE FileOf(o) # Memory
      BY <1>2, <1>3, <1>4, <3>2 DEF SoulTypeOK
    <3>. QED
      BY <3>1, <3>2
  <2>2. file' \in [Files -> Seq(Section)]
    <3>1. <<>> \in Seq(Section)
      OBVIOUS
    <3>2. file \in [Files -> Seq(Section)]
      BY <1>2 DEF SoulTypeOK
    <3>. QED
      BY <1>1, <3>1, <3>2, Zenon
  <2>3. phase' \in [Ops -> Phases]
    BY <1>1, <1>2 DEF SoulTypeOK, Phases
  <2>. QED
    BY <1>1, <1>2, <2>1, <2>2, <2>3 DEF SoulTypeOK
<1>6. /\ \A p : FileOf(p)' = FileOf(p) /\ Leaves(p)' = Leaves(p) /\ Forgets(p)' = Forgets(p)
      /\ \A p, f, c : Stands(p, f, c)' = Stands(p, f, c)
      /\ \A p, c : Forgotten(p, c)' = Forgotten(p, c)
  BY <1>1, SameCalls
<1>7. /\ \A p \in Ops : Writes(p)' = Writes(p) /\ Busy(p)' = Busy(p)
      /\ Done' = Done
  BY <1>1, <1>4 DEF Writes, Busy, Done
<1>8. \A p \in Ops : CallFits(p)' /\ OutFits(p)'
  BY <1>1, <1>4, <1>6 DEF SoulInv, CallFits, OutFits
<1>9. KeptIsDone'
  BY <1>1, <1>7 DEF SoulInv, KeptIsDone
<1>10. EntriesStay'
  <2>1. SUFFICES ASSUME NEW f \in Files, NEW e \in kept[f], ~disturbed, ~detached, ~Writing(f)'
                 PROVE  Stands(e, f, file[f])'
    BY <1>1 DEF EntriesStay
  <2>2. f # FileOf(o)
    BY <1>4, <1>6, <2>1 DEF Writing
  <2>3. ~Writing(f)
    BY <1>1, <1>4, <1>6, <2>1 DEF Writing
  <2>4. Stands(e, f, file[f])
    BY <2>1, <2>3 DEF SoulInv, EntriesStay
  <2>. QED
    BY <1>1, <1>4, <2>2, <2>4 DEF Stands
<1>11. ForgottenIsGone'
  <2>1. SUFFICES ASSUME NEW x \in Ops, x \in Done, Forgets(x), ~disturbed
                 PROVE  Forgotten(x, file[Memory])'
    BY <1>1, <1>6, <1>7 DEF ForgottenIsGone, Done, Forgets
  <2>2. Forgotten(x, file[Memory])
    BY <2>1 DEF SoulInv, ForgottenIsGone, Done, Forgets
  <2>3. file'[Memory] = <<>> \/ file'[Memory] = file[Memory]
    BY <1>3, <1>4
  <2>4. DOMAIN <<>> = {}
    OBVIOUS
  <2>. QED
    BY <1>1, <2>2, <2>3, <2>4 DEF Forgotten
<1>12. ASSUME ~disturbed
       PROVE  /\ Alone' /\ FilesAreDone'
              /\ \A p \in Ops : Fresh(p)' /\ EntriesDone(p)' /\ OutForgets(p)'
              /\ ~detached => \A p \in Ops : OutKeeps(p)'
  <2>1. /\ Alone /\ FilesAreDone
        /\ \A p \in Ops : Fresh(p) /\ EntriesDone(p) /\ OutForgets(p) /\ CallFits(p)
        /\ ~detached => \A p \in Ops : OutKeeps(p)
    BY <1>12 DEF SoulInv
  <2>2. Alone'
    BY <1>6, <1>7, <2>1 DEF Alone
  <2>3. FilesAreDone'
    <3>1. \A f \in Files : file'[f] = <<>> \/ file'[f] = file[f]
      BY <1>4
    <3>. QED
      BY <1>7, <2>1, <3>1, NothingInEmpty DEF FilesAreDone, Bodies
  <2>4. ASSUME NEW p \in Ops PROVE Fresh(p)'
    <3>1. CASE p = o
      BY <1>4, <1>6, <3>1 DEF Fresh
    <3>2. CASE p # o /\ ~Busy(p)
      BY <1>4, <3>2 DEF Fresh, Busy
    <3>3. CASE p # o /\ Busy(p)
      <4>1. Busy(o)
        BY <1>1 DEF Busy
      <4>2. FileOf(p) # FileOf(o) /\ FileOf(p) \in Files
        BY <2>1, <3>3, <4>1 DEF Alone, FileOf, Files
      <4>3. file'[FileOf(p)] = file[FileOf(p)]
        BY <1>4, <4>2
      <4>4. phase[p] = "located" => FileOf(p) = Memory
        BY <2>1 DEF CallFits, FileOf
      <4>. QED
        BY <1>1, <1>4, <1>6, <2>1, <3>3, <4>3, <4>4 DEF Fresh
    <3>. QED
      BY <3>1, <3>2, <3>3
  <2>5. ASSUME NEW p \in Ops PROVE EntriesDone(p)'
    BY <1>1, <1>4, <1>6, <1>7, <2>1 DEF EntriesDone, Bodies
  <2>6. ASSUME NEW p \in Ops PROVE OutForgets(p)'
    BY <1>1, <1>6, <1>7, <2>1 DEF OutForgets, Forgotten
  <2>7. ASSUME ~detached, NEW p \in Ops PROVE OutKeeps(p)'
    BY <1>1, <1>6, <1>7, <2>1, <2>7 DEF OutKeeps, Stands
  <2>. QED
    BY <2>2, <2>3, <2>4, <2>5, <2>6, <2>7
<1>. QED
  BY <1>1, <1>5, <1>8, <1>9, <1>10, <1>11, <1>12 DEF SoulInv

\* An error of the write, or a crash in it, is a disturbance: only the types are left to show.
LEMMA DisturbedStep ==
  ASSUME SoulInv, SoulTypeOK', disturbed', call' = call, kept' = kept, Done' = Done,
         \A p \in Ops : out'[p] = out[p] \/ out'[p] = <<>>,
         \A p \in Ops : CallFits(p)'
  PROVE  SoulInv'
<1>1. \A p \in Ops : OutFits(p)'
  <2>1. DOMAIN <<>> = {}
    OBVIOUS
  <2>. QED
    BY <2>1 DEF SoulInv, OutFits, FileOf
<1>2. KeptIsDone'
  BY DEF SoulInv, KeptIsDone
<1>. QED
  BY <1>1, <1>2 DEF SoulInv, EntriesStay, ForgottenIsGone

\* A return drops the texts of its call and of no other.
LEMMA Returned ==
  ASSUME SoulTypeOK, NEW o \in Ops, NEW how \in Phases, Return(o, how)
  PROVE  /\ phase' \in [Ops -> Phases] /\ text' \in [Ops -> SUBSET Ops]
         /\ out' \in [Ops -> Seq(Section)]
         /\ phase'[o] = how /\ out'[o] = <<>>
         /\ \A p \in Ops \ {o} : phase'[p] = phase[p] /\ text'[p] = text[p] /\ out'[p] = out[p]
<1>1. phase' \in [Ops -> Phases] /\ text' \in [Ops -> SUBSET Ops]
  BY DEF Return, SoulTypeOK
<1>2. out' \in [Ops -> Seq(Section)]
  <2>1. <<>> \in Seq(Section) /\ out \in [Ops -> Seq(Section)]
    BY DEF SoulTypeOK
  <2>. QED
    BY <2>1, Zenon DEF Return
<1>3. /\ phase'[o] = how /\ out'[o] = <<>>
      /\ \A p \in Ops \ {o} : phase'[p] = phase[p] /\ text'[p] = text[p] /\ out'[p] = out[p]
  BY DEF Return, SoulTypeOK
<1>. QED
  BY <1>1, <1>2, <1>3

LEMMA WriteFailsStep ==
  ASSUME SoulInv, NEW o \in Ops, WriteFails(o)
  PROVE  SoulInv'
<1>1. /\ call' = call /\ kept' = kept /\ disturbed'
      /\ Return(o, "failed") /\ phase[o] = "truncated"
  BY DEF WriteFails
<1>2. SoulTypeOK
  BY DEF SoulInv
<1>3. /\ phase' \in [Ops -> Phases] /\ text' \in [Ops -> SUBSET Ops]
      /\ out' \in [Ops -> Seq(Section)]
      /\ phase'[o] = "failed" /\ out'[o] = <<>>
      /\ \A p \in Ops \ {o} : phase'[p] = phase[p] /\ out'[p] = out[p]
  BY <1>1, <1>2, Returned DEF Phases
<1>4. SoulTypeOK'
  BY <1>2, <1>3 DEF WriteFails, SoulTypeOK
<1>5. \A p \in Ops : phase'[p] = IF p = o THEN "failed" ELSE phase[p]
  BY <1>3
<1>6. Done' = Done
  BY <1>1, <1>5 DEF Done
<1>7. \A p \in Ops : CallFits(p)'
  BY <1>1, <1>5 DEF SoulInv, CallFits
<1>. QED
  BY <1>1, <1>3, <1>6, <1>7, <1>4, DisturbedStep

\* What is written over the empty file is the text that the call has prepared; when the file
\* is not empty the calls have overlapped.
LEMMA WriteOutStep ==
  ASSUME SoulInv, NEW o \in Ops, WriteOut(o)
  PROVE  SoulInv'
<1>. DEFINE f == FileOf(o)
<1>1. /\ call' = call /\ crashes' = crashes
      /\ removable' = removable /\ disturbed' = disturbed /\ detached' = detached
      /\ phase[o] = "truncated" /\ Return(o, "done")
      /\ kept' = [kept EXCEPT ![f] = (@ \ removable[o]) \cup Leaves(o)]
  BY DEF WriteOut
<1>2. SoulTypeOK
  BY DEF SoulInv
<1>0. /\ phase' \in [Ops -> Phases] /\ text' \in [Ops -> SUBSET Ops]
       /\ out' \in [Ops -> Seq(Section)]
       /\ phase'[o] = "done" /\ out'[o] = <<>>
       /\ \A p \in Ops \ {o} : phase'[p] = phase[p] /\ text'[p] = text[p] /\ out'[p] = out[p]
  BY <1>1, <1>2, Returned DEF Phases
<1>3. PICK t \in Overlaid(out[o], file[f]) : file' = [file EXCEPT ![f] = t]
  BY DEF WriteOut
<1>4. f \in Files /\ Memory \in Files /\ Memory # DailyLog
  BY DEF FileOf, Files, Memory, DailyLog
<1>5. call[o] \in Calls /\ Leaves(o) \subseteq {o}
  BY <1>1, CallHasBegun
<1>. HIDE DEF f
<1>6. out[o] \in Seq(Section) /\ file[f] \in Seq(Section)
  BY <1>2, <1>4 DEF SoulTypeOK
<1>7. /\ t \in Seq(Section)
      /\ \A i \in DOMAIN t : \/ \E j \in DOMAIN out[o] : t[i].head = out[o][j].head
                             \/ \E j \in DOMAIN file[f] : t[i].head = file[f][j].head
  BY <1>6, OverlaidIsText
<1>8. /\ phase'[o] = "done" /\ \A p \in Ops \ {o} : phase'[p] = phase[p]
      /\ file'[f] = t /\ \A g \in Files \ {f} : file'[g] = file[g]
      /\ kept'[f] = (kept[f] \ removable[o]) \cup Leaves(o)
      /\ \A g \in Files \ {f} : kept'[g] = kept[g]
  BY <1>1, <1>2, <1>3, <1>4, <1>0 DEF SoulTypeOK
<1>9. SoulTypeOK'
  <2>1. \A i \in DOMAIN file'[Memory] : file'[Memory][i].head \in Headings
    <3>1. CASE f = Memory
      <4>1. /\ \A j \in DOMAIN out[o] : out[o][j].head \in Headings
            /\ \A j \in DOMAIN file[f] : file[f][j].head \in Headings
        BY <1>2, <3>1 DEF SoulInv, OutFits, SoulTypeOK, f
      <4>. QED
        BY <1>7, <1>8, <3>1, <4>1
    <3>2. CASE f # Memory
      BY <1>2, <1>4, <1>8, <3>2 DEF SoulTypeOK
    <3>. QED
      BY <3>1, <3>2
  <2>2. file' \in [Files -> Seq(Section)]
    <3>1. file \in [Files -> Seq(Section)]
      BY <1>2 DEF SoulTypeOK
    <3>. QED
      BY <1>3, <1>7, <3>1, Zenon
  <2>4. kept' \in [Files -> SUBSET Ops]
    <3>1. (kept[f] \ removable[o]) \cup Leaves(o) \in SUBSET Ops
      BY <1>2, <1>4, <1>5 DEF SoulTypeOK
    <3>. QED
      BY <1>1, <1>2, <3>1 DEF SoulTypeOK
  <2>. QED
    BY <1>1, <1>2, <1>0, <2>1, <2>2, <2>4 DEF SoulTypeOK
<1>10. /\ \A p : FileOf(p)' = FileOf(p) /\ Leaves(p)' = Leaves(p) /\ Forgets(p)' = Forgets(p)
       /\ \A p, g, c : Stands(p, g, c)' = Stands(p, g, c)
       /\ \A p, c : Forgotten(p, c)' = Forgotten(p, c)
  BY <1>1, SameCalls
<1>11. /\ \A p \in Ops : Writes(p)' <=> p # o /\ Writes(p)
       /\ \A p \in Ops : Busy(p)' <=> p # o /\ Busy(p)
       /\ Done' = Done \cup {o}
       /\ Busy(o) /\ Writes(o)
  BY <1>1, <1>8 DEF Writes, Busy, Done
<1>12. \A p \in Ops : CallFits(p)' /\ OutFits(p)'
  <2>1. DOMAIN <<>> = {}
    OBVIOUS
  <2>. QED
    BY <1>1, <1>8, <1>10, <1>0, <2>1 DEF SoulInv, CallFits, OutFits
<1>13. KeptIsDone'
  BY <1>5, <1>8, <1>11 DEF SoulInv, KeptIsDone
<1>14. ASSUME ~disturbed
       PROVE  /\ Alone /\ FilesAreDone
              /\ \A p \in Ops : Fresh(p) /\ EntriesDone(p) /\ OutForgets(p) /\ CallFits(p)
              /\ ~detached => \A p \in Ops : OutKeeps(p)
              /\ t = out[o]
              /\ \A p \in Ops \ {o} : Busy(p) => FileOf(p) # f
  <2>1. /\ Alone /\ FilesAreDone
        /\ \A p \in Ops : Fresh(p) /\ EntriesDone(p) /\ OutForgets(p) /\ CallFits(p)
        /\ ~detached => \A p \in Ops : OutKeeps(p)
    BY <1>14 DEF SoulInv
  <2>2. file[f] = <<>>
    BY <1>1, <2>1 DEF Fresh, f
  <2>3. t = out[o]
    BY <1>3, <2>2, OverlaidOnNothing
  <2>4. \A p \in Ops \ {o} : Busy(p) => FileOf(p) # f
    BY <1>11, <2>1 DEF Alone, f
  <2>. QED
    BY <2>1, <2>3, <2>4
<1>15. EntriesStay'
  <2>1. SUFFICES ASSUME NEW g \in Files, NEW e \in kept'[g], ~disturbed, ~detached, ~Writing(g)'
                 PROVE  Stands(e, g, file[g])'
    BY <1>1 DEF EntriesStay
  <2>2. CASE g = f
    <3>1. Stands(e, f, out[o])
      BY <1>8, <1>11, <1>14, <2>1, <2>2 DEF OutKeeps, f
    <3>2. file'[g] = out[o]
      BY <1>8, <1>14, <2>1, <2>2
    <3>. QED
      BY <1>1, <2>2, <3>1, <3>2 DEF Stands
  <2>3. CASE g # f
    <3>1. ~Writing(g)
      BY <1>8, <1>10, <2>1, <2>3 DEF Writing, f
    <3>2. Stands(e, g, file[g])
      BY <1>8, <2>1, <2>3, <3>1 DEF SoulInv, EntriesStay
    <3>. QED
      BY <1>1, <1>8, <2>3, <3>2 DEF Stands
  <2>. QED
    BY <2>2, <2>3
<1>16. ForgottenIsGone'
  <2>1. SUFFICES ASSUME NEW x \in Ops, x \in Done \/ x = o, Forgets(x), ~disturbed
                 PROVE  Forgotten(x, file[Memory])'
    BY <1>1, <1>10, <1>11 DEF ForgottenIsGone, Done, Forgets
  <2>2. CASE f = Memory
    <3>1. Forgotten(x, out[o])
      BY <1>11, <1>14, <2>1, <2>2 DEF OutForgets, f
    <3>2. file'[Memory] = out[o]
      BY <1>8, <1>14, <2>1, <2>2
    <3>. QED
      BY <1>1, <3>1, <3>2 DEF Forgotten
  <2>3. CASE f # Memory
    <3>1. x # o
      BY <2>1, <2>3 DEF Forgets, FileOf, f
    <3>2. Forgotten(x, file[Memory])
      BY <2>1, <3>1 DEF SoulInv, ForgottenIsGone, Done, Forgets
    <3>. QED
      BY <1>1, <1>4, <1>8, <2>3, <3>2 DEF Forgotten
  <2>. QED
    BY <2>2, <2>3
<1>17. ASSUME ~disturbed
       PROVE  /\ Alone' /\ FilesAreDone'
              /\ \A p \in Ops : Fresh(p)' /\ EntriesDone(p)' /\ OutForgets(p)'
              /\ ~detached => \A p \in Ops : OutKeeps(p)'
  <2>1. Alone'
    BY <1>10, <1>11, <1>14, <1>17 DEF Alone
  <2>2. FilesAreDone'
    <3>1. Bodies(t) \subseteq Done \cup {o}
      BY <1>11, <1>14, <1>17 DEF EntriesDone
    <3>2. \A g \in Files \ {f} : Bodies(file[g]) \subseteq Done
      BY <1>14, <1>17 DEF FilesAreDone
    <3>. QED
      BY <1>8, <1>11, <3>1, <3>2 DEF FilesAreDone, Bodies
  <2>3. Fresh(o)' /\ EntriesDone(o)' /\ OutForgets(o)' /\ OutKeeps(o)'
    <3>1. Forgets(o) => call[o].entry \in Done
      BY <1>1, <1>14, <1>17 DEF EntriesDone
    <3>. QED
      BY <1>1, <1>8, <1>10, <1>11, <3>1 DEF Fresh, EntriesDone, OutForgets, OutKeeps
  <2>4. ASSUME NEW p \in Ops \ {o} PROVE Fresh(p)'
    <3>1. CASE ~Busy(p)
      BY <1>8, <3>1 DEF Fresh, Busy
    <3>2. CASE Busy(p)
      <4>1. FileOf(p) \in Files \ {f}
        BY <1>14, <1>17, <3>2 DEF FileOf, Files
      <4>2. file'[FileOf(p)] = file[FileOf(p)]
        BY <1>8, <4>1
      <4>3. phase[p] = "located" => FileOf(p) = Memory
        BY <1>14, <1>17 DEF CallFits, FileOf
      <4>. QED
        BY <1>1, <1>8, <1>10, <1>14, <1>17, <1>0, <4>2, <4>3 DEF Fresh
    <3>. QED
      BY <3>1, <3>2
  <2>5. ASSUME NEW p \in Ops \ {o} PROVE EntriesDone(p)'
    <3>1. phase'[p] = phase[p] /\ out'[p] = out[p] /\ call'[p] = call[p]
      BY <1>1, <1>0
    <3>2. EntriesDone(p) /\ (Writes(p)' => Writes(p)) /\ Forgets(p)' = Forgets(p)
      BY <1>10, <1>11, <1>14, <1>17
    <3>3. Bodies(out[p])' = Bodies(out[p]) /\ Done \subseteq Done'
      BY <1>11, <3>1 DEF Bodies
    <3>. QED
      BY <3>1, <3>2, <3>3 DEF EntriesDone
  <2>6. ASSUME NEW p \in Ops \ {o} PROVE OutForgets(p)'
    <3>1. SUFFICES ASSUME Writes(p), FileOf(p) = Memory, NEW x \in Ops, Forgets(x),
                          x \in Done \/ x = o \/ x = p
                   PROVE  Forgotten(x, out[p])'
      BY <1>10, <1>11 DEF OutForgets
    <3>2. Busy(p)
      BY <3>1 DEF Busy, Writes
    <3>3. f # Memory
      BY <1>14, <1>17, <3>1, <3>2
    <3>4. x # o
      BY <3>1, <3>3 DEF Forgets, FileOf, f
    <3>5. Forgotten(x, out[p])
      BY <1>14, <1>17, <3>1, <3>4 DEF OutForgets
    <3>6. out'[p] = out[p] /\ call' = call
      BY <1>1, <1>0
    <3>. QED
      BY <3>5, <3>6 DEF Forgotten
  <2>7. ASSUME ~detached, NEW p \in Ops \ {o} PROVE OutKeeps(p)'
    <3>1. CASE ~Writes(p)
      BY <1>11, <3>1 DEF OutKeeps
    <3>2. CASE Writes(p)
      <4>1. FileOf(p) \in Files \ {f}
        BY <1>14, <1>17, <3>2 DEF FileOf, Files, Busy, Writes
      <4>2. kept'[FileOf(p)] = kept[FileOf(p)]
        BY <1>8, <4>1
      <4>3. out'[p] = out[p] /\ call' = call /\ removable' = removable
        BY <1>1, <1>0
      <4>4. OutKeeps(p) /\ FileOf(p)' = FileOf(p) /\ Leaves(p)' = Leaves(p)
        BY <1>10, <1>14, <1>17, <2>7
      <4>5. \A e : Stands(e, FileOf(p), out[p])' = Stands(e, FileOf(p), out[p])
        BY <1>10, <4>3, <4>4 DEF Stands
      <4>. QED
        BY <3>2, <4>2, <4>3, <4>4, <4>5 DEF OutKeeps
    <3>. QED
      BY <3>1, <3>2
  <2>. QED
    BY <2>1, <2>2, <2>3, <2>4, <2>5, <2>6, <2>7
<1>. QED
  BY <1>1, <1>9, <1>12, <1>13, <1>15, <1>16, <1>17 DEF SoulInv

\* After a restart no call is at work, and one that was writing has left its file cut.
LEMMA RestartStep ==
  ASSUME SoulInv, Restart
  PROVE  SoulInv'
<1>1. /\ call' = call /\ kept' = kept /\ file' = file
      /\ removable' = removable /\ detached' = detached
      /\ text' = [o \in Ops |-> {}] /\ out' = [o \in Ops |-> <<>>]
      /\ crashes < MaxCrashes /\ crashes' = crashes + 1
      /\ phase' = [o \in Ops |-> IF Busy(o) THEN "gone" ELSE phase[o]]
      /\ disturbed' = (disturbed \/ \E o \in Ops : phase[o] = "truncated")
  BY DEF Restart
<1>2. SoulTypeOK
  BY DEF SoulInv
<1>3. SoulTypeOK'
  <2>1. crashes' \in 0..MaxCrashes
    BY <1>1, <1>2, SoulFilesAssumption DEF SoulTypeOK
  <2>2. phase' \in [Ops -> Phases]
    BY <1>1, <1>2 DEF SoulTypeOK, Phases
  <2>3. disturbed' \in BOOLEAN
    BY <1>1, <1>2, Zenon DEF SoulTypeOK
  <2>4. text' \in [Ops -> SUBSET Ops] /\ out' \in [Ops -> Seq(Section)]
    BY <1>1
  <2>. QED
    BY <1>1, <1>2, <2>1, <2>2, <2>3, <2>4 DEF SoulTypeOK
<1>4. /\ \A p \in Ops : phase'[p] = IF Busy(p) THEN "gone" ELSE phase[p]
      /\ \A p \in Ops : out'[p] = <<>>
  BY <1>1
<1>5. Done' = Done /\ \A p \in Ops : ~Busy(p)' /\ ~Writes(p)'
  BY <1>4 DEF Done, Busy, Writes
<1>6. \A p \in Ops : CallFits(p)'
  BY <1>1, <1>4 DEF SoulInv, CallFits, Busy
<1>7. CASE disturbed'
  BY <1>1, <1>3, <1>4, <1>5, <1>6, <1>7, DisturbedStep
<1>8. CASE ~disturbed'
  <2>1. ~disturbed /\ \A p \in Ops : phase[p] # "truncated"
    BY <1>1, <1>8
  <2>2. \A p : Forgets(p)' = Forgets(p)
    BY <1>1, SameCalls
  <2>3. \A p \in Ops : OutFits(p)'
    <3>1. DOMAIN <<>> = {}
      OBVIOUS
    <3>. QED
      BY <1>4, <3>1 DEF OutFits
  <2>4. KeptIsDone' /\ FilesAreDone'
    BY <1>1, <1>5, <2>1 DEF SoulInv, KeptIsDone, FilesAreDone, Bodies
  <2>5. Alone' /\ \A p \in Ops : Fresh(p)' /\ OutForgets(p)' /\ OutKeeps(p)'
    BY <1>5 DEF Alone, Fresh, OutForgets, OutKeeps, Busy
  <2>6. ASSUME NEW p \in Ops PROVE EntriesDone(p)'
    <3>1. EntriesDone(p)
      BY <2>1 DEF SoulInv
    <3>. QED
      BY <1>1, <1>4, <1>5, <2>2, <3>1 DEF EntriesDone, Writes
  <2>7. EntriesStay'
    BY <1>1, <2>1 DEF SoulInv, EntriesStay, Writing, Stands
  <2>8. ForgottenIsGone'
    BY <1>1, <1>4, <2>1 DEF SoulInv, ForgottenIsGone, Forgotten
  <2>. QED
    BY <1>3, <1>6, <2>3, <2>4, <2>5, <2>6, <2>7, <2>8 DEF SoulInv
<1>. QED
  BY <1>7, <1>8

-----------------------------------------------------------------------------
(* SoulFiles: the steps of a call before it writes *)

\* The arguments that the tools and routes give to a call.
ArgumentsFit(o, c) ==
    /\ c \in Calls
    /\ c.kind \in {"append", "log"} => c.entry = o
    /\ c.kind \in {"replace", "write"} => c.entry \in {o, Blank}
    /\ c.kind = "forget" => c.entry \in Ops

LEMMA BeginsAlone ==
  ASSUME SoulTypeOK, NEW o \in Ops, NEW c \in Calls, NEW next \in Phases, Begin(o, c, next)
  PROVE  /\ phase[o] = "none" /\ phase'[o] = next /\ call'[o] = c
         /\ \A p \in Ops \ {o} : phase'[p] = phase[p] /\ call'[p] = call[p]
         /\ disturbed => disturbed'
         /\ ~disturbed' => \A p \in Ops \ {o} : Busy(p) => FileOf(p) # FileOf(o)'
         /\ UNCHANGED <<file, text, crashes, kept, detached>>
         /\ phase' \in [Ops -> Phases] /\ call' \in [Ops -> Calls \cup {NoCall}]
         /\ disturbed' \in BOOLEAN
<1>1. phase \in [Ops -> Phases] /\ call \in [Ops -> Calls \cup {NoCall}] /\ disturbed \in BOOLEAN
  BY DEF SoulTypeOK
<1>2. disturbed' = (disturbed \/ \E p \in Ops : Busy(p) /\ FileOf(p) = FileOf(o)')
  BY DEF Begin
<1>3. disturbed' \in BOOLEAN
  BY <1>1, <1>2, Zenon
<1>4. /\ disturbed => disturbed'
      /\ ~disturbed' => \A p \in Ops \ {o} : Busy(p) => FileOf(p) # FileOf(o)'
  BY <1>2
<1>. QED
  BY <1>1, <1>3, <1>4 DEF Begin

LEMMA BeginReadingStep ==
  ASSUME SoulInv, NEW o \in Ops, NEW c, ArgumentsFit(o, c), BeginReading(o, c)
  PROVE  SoulInv'
<1>1. c \in Calls /\ "begun" \in Phases /\ Begin(o, c, "begun") /\ SoulTypeOK
  BY DEF ArgumentsFit, BeginReading, Phases, SoulInv
<1>2. /\ phase[o] = "none" /\ phase'[o] = "begun" /\ call'[o] = c
      /\ \A p \in Ops \ {o} : phase'[p] = phase[p] /\ call'[p] = call[p]
      /\ disturbed => disturbed'
      /\ ~disturbed' => \A p \in Ops \ {o} : Busy(p) => FileOf(p) # FileOf(o)'
      /\ UNCHANGED <<file, text, crashes, kept, detached>>
      /\ phase' \in [Ops -> Phases] /\ call' \in [Ops -> Calls \cup {NoCall}]
      /\ disturbed' \in BOOLEAN
  BY <1>1, BeginsAlone
<1>3. out' = out /\ removable' = removable
  BY DEF BeginReading
<1>4. SoulTypeOK'
  BY <1>1, <1>2, <1>3 DEF SoulTypeOK
<1>5. Quiet(o)
  BY <1>2, <1>3 DEF Quiet, OthersStay
<1>6. CallFits(o)'
  <2>1. c # NoCall
    BY <1>1 DEF Calls, Kinds, NoCall
  <2>. QED
    BY <1>2, <2>1 DEF CallFits, ArgumentsFit
<1>7. OutFits(o)'
  <2>1. OutFits(o) /\ FileOf(o) = Memory
    BY <1>2 DEF SoulInv, FileOf, CallFits, NoCall
  <2>. QED
    BY <1>3, <2>1 DEF OutFits
<1>8. Fresh(o)' /\ EntriesDone(o)' /\ OutForgets(o)' /\ OutKeeps(o)'
  BY <1>2 DEF Fresh, EntriesDone, OutForgets, OutKeeps, Writes
<1>. QED
  BY <1>4, <1>5, <1>6, <1>7, <1>8, QuietStep DEF Own

\* A text for the whole of MEMORY.md keeps nothing of it, and brings back nothing.
LEMMA BeginWritingStep ==
  ASSUME SoulInv, NEW o \in Ops, NEW c, ArgumentsFit(o, c), c.kind = "write",
         BeginWriting(o, c)
  PROVE  SoulInv'
<1>1. c \in Calls /\ "ready" \in Phases /\ Begin(o, c, "ready") /\ SoulTypeOK
  BY DEF ArgumentsFit, BeginWriting, Phases, SoulInv
<1>2. /\ phase[o] = "none" /\ phase'[o] = "ready" /\ call'[o] = c
      /\ \A p \in Ops \ {o} : phase'[p] = phase[p] /\ call'[p] = call[p]
      /\ disturbed => disturbed'
      /\ ~disturbed' => \A p \in Ops \ {o} : Busy(p) => FileOf(p) # FileOf(o)'
      /\ UNCHANGED <<file, text, crashes, kept, detached>>
      /\ phase' \in [Ops -> Phases] /\ call' \in [Ops -> Calls \cup {NoCall}]
      /\ disturbed' \in BOOLEAN
  BY <1>1, BeginsAlone
<1>. DEFINE s == [head |-> c.head, body |-> {o}]
            w == IF c.entry = Blank THEN <<>> ELSE <<s>>
<1>3. c.head \in Headings /\ s \in Section /\ s.head = c.head /\ s.body = {o}
  BY <1>1, SectionFields DEF Calls
<1>. HIDE DEF s
<1>4. /\ w \in Seq(Section)
      /\ \A i \in DOMAIN w : w[i].head \in Headings /\ w[i].body = {o}
      /\ c.entry # Blank => 1 \in DOMAIN w /\ w[1] = s
  <2>1. DOMAIN <<>> = {} /\ <<>> \in Seq(Section)
    OBVIOUS
  <2>2. <<s>> \in Seq(Section) /\ DOMAIN <<s>> = {1} /\ <<s>>[1] = s
    BY <1>3
  <2>. QED
    BY <1>3, <2>1, <2>2
<1>5. out' = [out EXCEPT ![o] = w] /\ removable' = [removable EXCEPT ![o] = Ops]
  BY DEF BeginWriting, s
<1>. HIDE DEF w
<1>6. /\ out' \in [Ops -> Seq(Section)] /\ removable' \in [Ops -> SUBSET Ops]
      /\ out'[o] = w /\ removable'[o] = Ops
      /\ \A p \in Ops \ {o} : out'[p] = out[p] /\ removable'[p] = removable[p]
  BY <1>1, <1>4, <1>5 DEF SoulTypeOK
<1>7. SoulTypeOK'
  BY <1>1, <1>2, <1>6 DEF SoulTypeOK
<1>8. Quiet(o)
  BY <1>2, <1>6 DEF Quiet, OthersStay
<1>9. CallFits(o)'
  <2>1. c # NoCall
    BY <1>1 DEF Calls, Kinds, NoCall
  <2>. QED
    BY <1>2, <2>1 DEF CallFits, ArgumentsFit
<1>10. OutFits(o)' /\ Fresh(o)' /\ FileOf(o)' = Memory /\ ~Forgets(o)'
  BY <1>2, <1>4, <1>6 DEF OutFits, Fresh, FileOf, Forgets
<1>11. Bodies(w) \subseteq {o}
  BY <1>4, InBodies
<1>12. o \notin Done /\ Done' = Done
  BY <1>2 DEF Done
<1>13. EntriesDone(o)'
  BY <1>6, <1>10, <1>11 DEF EntriesDone
<1>14. ASSUME ~disturbed' PROVE OutForgets(o)'
  <2>1. SUFFICES ASSUME NEW x \in Ops, x \in Done, Forgets(x)'
                 PROVE  Forgotten(x, out[o])'
    BY <1>10, <1>12 DEF OutForgets
  <2>2. x # o /\ call'[x] = call[x] /\ removable'[x] = removable[x]
    BY <1>2, <1>6, <1>12, <2>1
  <2>3. EntriesDone(x)
    BY <1>2, <1>14 DEF SoulInv
  <2>4. call[x].entry \in Done
    BY <2>1, <2>2, <2>3 DEF EntriesDone, Forgets, Done
  <2>. QED
    BY <1>4, <1>6, <1>12, <2>2, <2>4 DEF Forgotten
<1>15. OutKeeps(o)'
  <2>1. SUFFICES ASSUME NEW e \in (kept'[Memory] \ Ops) \cup Leaves(o)'
                 PROVE  Stands(e, Memory, w)'
    BY <1>6, <1>10 DEF OutKeeps
  <2>2. kept'[Memory] \subseteq Ops
    BY <1>7 DEF SoulTypeOK, Files
  <2>3. e = o /\ c.entry # Blank
    BY <1>2, <2>1, <2>2 DEF Leaves, ArgumentsFit
  <2>4. Memory # DailyLog
    BY DEF Memory, DailyLog
  <2>5. 1 \in DOMAIN w /\ w[1].head = c.head /\ o \in w[1].body
    BY <1>3, <1>4, <2>3
  <2>6. Spells(c.head, c.head)
    BY DEF Spells
  <2>. QED
    BY <1>2, <2>3, <2>4, <2>5, <2>6 DEF Stands
<1>. QED
  BY <1>7, <1>8, <1>9, <1>10, <1>13, <1>14, <1>15, QuietStep DEF Own

\* A call at work that keeps its arguments is as alone on its file as it was.
LEMMA WorksQuietly ==
  ASSUME SoulInv, NEW o \in Ops, OthersStay(o), UNCHANGED <<file, call, kept>>,
         phase[o] \in {"begun", "located", "ready"}, phase'[o] # "truncated",
         phase'[o] = "done" => removable'[o] = {},
         disturbed => disturbed', detached => detached'
  PROVE  Quiet(o)
<1>1. FileOf(o)' = FileOf(o) /\ Busy(o)
  BY DEF FileOf, Busy
<1>2. ~disturbed' => \A p \in Ops \ {o} : Busy(p) => FileOf(p) # FileOf(o)'
  BY <1>1 DEF SoulInv, Alone
<1>. QED
  BY <1>2 DEF Quiet

\* Stopping, or failing to read, leaves no text to write.
LEMMA EndsEarlyStep ==
  ASSUME SoulInv, NEW o \in Ops, DropCall(o) \/ ForgetFails(o)
  PROVE  SoulInv'
<1>1. /\ phase[o] \in {"begun", "located", "ready"}
      /\ \E how \in {"gone", "failed"} : Return(o, how)
      /\ UNCHANGED <<file, call, crashes, removable, kept, disturbed, detached>>
  BY DEF DropCall, ForgetFails, history
<1>2. SoulTypeOK
  BY DEF SoulInv
<1>3. PICK how \in {"gone", "failed"} :
         /\ phase' \in [Ops -> Phases] /\ text' \in [Ops -> SUBSET Ops]
         /\ out' \in [Ops -> Seq(Section)]
         /\ phase'[o] = how /\ out'[o] = <<>>
         /\ \A p \in Ops \ {o} : phase'[p] = phase[p] /\ text'[p] = text[p] /\ out'[p] = out[p]
  BY <1>1, <1>2, Returned DEF Phases
<1>4. SoulTypeOK'
  BY <1>1, <1>2, <1>3 DEF SoulTypeOK
<1>5. Quiet(o)
  BY <1>1, <1>3, WorksQuietly DEF OthersStay
<1>6. CallFits(o)' /\ OutFits(o)'
  <2>1. DOMAIN <<>> = {}
    OBVIOUS
  <2>. QED
    BY <1>1, <1>3, <2>1 DEF SoulInv, CallFits, OutFits
<1>7. Fresh(o)' /\ EntriesDone(o)' /\ OutForgets(o)' /\ OutKeeps(o)'
  BY <1>3 DEF Fresh, EntriesDone, OutForgets, OutKeeps, Writes
<1>. QED
  BY <1>4, <1>5, <1>6, <1>7, QuietStep DEF Own

\* memory_save has read the section: nobody else can change it, or the calls overlap.
LEMMA ReadSectionStep ==
  ASSUME SoulInv, NEW o \in Ops, ReadSection(o)
  PROVE  SoulInv'
<1>1. /\ phase[o] = "begun" /\ call[o].kind = "append"
      /\ phase' = [phase EXCEPT ![o] = "located"]
      /\ UNCHANGED <<file, call, out, crashes, removable, kept, detached>>
  BY DEF ReadSection
<1>2. SoulTypeOK
  BY DEF SoulInv
<1>3. PICK failed \in {FALSE, IoMayFail} :
         /\ text' = [text EXCEPT ![o] = Extract(Content(o, failed), call[o].head) \cup {o}]
         /\ disturbed' = (disturbed \/ failed)
  BY DEF ReadSection
<1>4. failed \in BOOLEAN
  BY SoulFilesAssumption
<1>5. FileOf(o) = Memory /\ Memory \in Files
  BY <1>1 DEF FileOf, Files
<1>6. Content(o, failed) \in Seq(Section)
  <2>1. file[Memory] \in Seq(Section) /\ <<>> \in Seq(Section)
    BY <1>2, <1>5 DEF SoulTypeOK
  <2>. QED
    BY <1>5, <2>1 DEF Content
<1>7. Extract(Content(o, failed), call[o].head) \in SUBSET Ops
  <2>1. \A k \in DOMAIN Content(o, failed) : Content(o, failed)[k].body \subseteq Ops
    BY <1>6, SectionFields
  <2>. QED
    BY <2>1, InExtract
<1>8. /\ text' \in [Ops -> SUBSET Ops]
      /\ text'[o] = Extract(Content(o, failed), call[o].head) \cup {o}
      /\ \A p \in Ops \ {o} : text'[p] = text[p]
  BY <1>2, <1>3, <1>7 DEF SoulTypeOK
<1>9. /\ phase'[o] = "located" /\ \A p \in Ops \ {o} : phase'[p] = phase[p]
      /\ phase' \in [Ops -> Phases]
  BY <1>1, <1>2 DEF SoulTypeOK, Phases
<1>10. disturbed' \in BOOLEAN
  BY <1>2, <1>3, <1>4, Zenon DEF SoulTypeOK
<1>11. SoulTypeOK'
  BY <1>1, <1>2, <1>8, <1>9, <1>10 DEF SoulTypeOK
<1>12. Quiet(o)
  BY <1>1, <1>3, <1>8, <1>9, WorksQuietly DEF OthersStay
<1>13. CallFits(o)' /\ OutFits(o)'
  BY <1>1, <1>9 DEF SoulInv, CallFits, OutFits, FileOf
<1>14. ASSUME ~disturbed' PROVE Fresh(o)'
  <2>1. Content(o, failed) = file[Memory]
    BY <1>3, <1>5, <1>14 DEF Content
  <2>2. Extract(file[Memory], call[o].head)' = Extract(file[Memory], call[o].head)
    BY <1>1 DEF Extract, Apart
  <2>. QED
    BY <1>8, <1>9, <2>1, <2>2 DEF Fresh
<1>15. EntriesDone(o)' /\ OutForgets(o)' /\ OutKeeps(o)'
  BY <1>9 DEF EntriesDone, OutForgets, OutKeeps, Writes
<1>. QED
  BY <1>11, <1>12, <1>13, <1>14, <1>15, QuietStep DEF Own

\* The text that a call has prepared, with what it may remove from the file.
PreparedBy(o, ph, w, r) ==
    /\ phase' = [phase EXCEPT ![o] = ph]
    /\ out' = [out EXCEPT ![o] = w]
    /\ removable' = [removable EXCEPT ![o] = r]
    /\ UNCHANGED <<file, call, text, crashes, kept>>
    /\ disturbed' \in BOOLEAN
    /\ detached' \in BOOLEAN

LEMMA Prepares ==
  ASSUME SoulTypeOK, NEW o \in Ops, NEW ph \in Phases, NEW w \in Seq(Section),
         NEW r \in SUBSET Ops, PreparedBy(o, ph, w, r)
  PROVE  /\ SoulTypeOK' /\ OthersStay(o)
         /\ phase'[o] = ph /\ out'[o] = w /\ removable'[o] = r
<1>. USE DEF PreparedBy
<1>1. phase' \in [Ops -> Phases] /\ out' \in [Ops -> Seq(Section)]
      /\ removable' \in [Ops -> SUBSET Ops]
  BY DEF SoulTypeOK
<1>2. SoulTypeOK'
  BY <1>1 DEF SoulTypeOK
<1>3. OthersStay(o)
  BY DEF SoulTypeOK, OthersStay
<1>4. phase'[o] = ph /\ out'[o] = w /\ removable'[o] = r
  BY DEF SoulTypeOK
<1>. QED
  BY <1>2, <1>3, <1>4

\* A failed read makes of the file an empty one.
LEMMA ContentIsText ==
  ASSUME SoulTypeOK, NEW o \in Ops, NEW failed \in {FALSE, IoMayFail}
  PROVE  /\ Content(o, failed) \in Seq(Section) /\ failed \in BOOLEAN
         /\ ~failed => Content(o, failed) = file[FileOf(o)]
         /\ FileOf(o) = Memory => \A i \in DOMAIN Content(o, failed) :
                                      Content(o, failed)[i].head \in Headings
<1>1. FileOf(o) \in Files /\ failed \in BOOLEAN
  BY SoulFilesAssumption DEF FileOf, Files
<1>2. CASE failed
  <2>1. Content(o, failed) = <<>> /\ <<>> \in Seq(Section) /\ DOMAIN <<>> = {}
    BY <1>2 DEF Content
  <2>. QED
    BY <1>1, <1>2, <2>1
<1>3. CASE ~failed
  BY <1>1, <1>3 DEF Content, SoulTypeOK
<1>. QED
  BY <1>1, <1>2, <1>3

\* While a call is at work on a file and has not emptied it, nobody writes it.
LEMMA NobodyWrites ==
  ASSUME SoulInv, ~disturbed, NEW o \in Ops, phase[o] \in {"begun", "located", "ready"}
  PROVE  ~Writing(FileOf(o))
<1>1. \A p \in Ops : phase[p] = "truncated" => p # o /\ Busy(p)
  BY DEF Busy
<1>2. Busy(o)
  BY DEF Busy
<1>. QED
  BY <1>1, <1>2 DEF SoulInv, Alone, Writing

\* daily_log puts its entry to those it has read.
LEMMA ReadLogStep ==
  ASSUME SoulInv, NEW o \in Ops, ReadLog(o)
  PROVE  SoulInv'
<1>1. /\ phase[o] = "begun" /\ call[o].kind = "log"
      /\ phase' = [phase EXCEPT ![o] = "ready"]
      /\ UNCHANGED <<file, call, text, crashes, removable, kept, detached>>
  BY DEF ReadLog
<1>2. SoulTypeOK
  BY DEF SoulInv
<1>3. PICK failed \in {FALSE, IoMayFail} :
         /\ out' = [out EXCEPT ![o] = AddLogEntry(Content(o, failed), o)]
         /\ disturbed' = (disturbed \/ failed)
  BY DEF ReadLog
<1>. DEFINE c == Content(o, failed)
            s == [head |-> LogHeading, body |-> Bodies(c) \cup {o}]
            w == <<s>>
<1>4. /\ c \in Seq(Section) /\ failed \in BOOLEAN
      /\ ~failed => c = file[FileOf(o)]
  BY <1>2, ContentIsText
<1>5. FileOf(o) = DailyLog /\ Memory # DailyLog /\ DailyLog \in Files
  BY <1>1 DEF FileOf, Files, Memory, DailyLog
<1>. HIDE DEF c
<1>6. s \in Section /\ s.body = Bodies(c) \cup {o}
  <2>1. Bodies(c) \subseteq Ops
    BY <1>4, InBodies, SectionFields
  <2>. QED
    BY <2>1, SectionFields
<1>. HIDE DEF s
<1>7. w \in Seq(Section) /\ Bodies(w) = Bodies(c) \cup {o}
  <2>1. w \in Seq(Section) /\ DOMAIN w = {1} /\ w[1] = s
    BY <1>6
  <2>2. \A e : e \in Bodies(w) <=> e \in s.body
    BY <2>1, InBodies
  <2>. QED
    BY <1>6, <2>1, <2>2
<1>8. out' = [out EXCEPT ![o] = w]
  BY <1>3 DEF AddLogEntry, s, c
<1>. HIDE DEF w
<1>9. disturbed' \in BOOLEAN /\ detached' \in BOOLEAN
  BY <1>1, <1>2, <1>3, <1>4, Zenon DEF SoulTypeOK
<1>10. removable' = [removable EXCEPT ![o] = removable[o]] /\ removable[o] \in SUBSET Ops
  BY <1>1, <1>2 DEF SoulTypeOK
<1>11. SoulTypeOK' /\ OthersStay(o) /\ phase'[o] = "ready" /\ out'[o] = w
  <2>1. PreparedBy(o, "ready", w, removable[o])
    BY <1>1, <1>8, <1>9, <1>10 DEF PreparedBy
  <2>2. "ready" \in Phases
    BY DEF Phases
  <2>. QED
    BY <1>2, <1>7, <1>10, <2>1, <2>2, Prepares
<1>12. Quiet(o)
  BY <1>1, <1>3, <1>11, WorksQuietly
<1>13. FileOf(o)' = DailyLog /\ ~Forgets(o)' /\ Leaves(o)' = {o}
  BY <1>1, <1>5, SoulFilesAssumption DEF FileOf, Forgets, Leaves, SoulInv, CallFits
<1>14. CallFits(o)' /\ OutFits(o)' /\ Fresh(o)' /\ OutForgets(o)'
  BY <1>1, <1>5, <1>11, <1>13 DEF SoulInv, CallFits, OutFits, Fresh, OutForgets
<1>15. ASSUME ~disturbed' PROVE EntriesDone(o)'
  <2>1. Bodies(c) \subseteq Done
    BY <1>3, <1>4, <1>5, <1>15 DEF SoulInv, FilesAreDone
  <2>2. Done \subseteq Done'
    BY <1>1, <1>11 DEF Done, OthersStay
  <2>3. Bodies(out[o])' = Bodies(w)
    BY <1>11 DEF Bodies
  <2>. QED
    BY <1>7, <1>13, <2>1, <2>2, <2>3 DEF EntriesDone
<1>16. ASSUME ~disturbed', ~detached' PROVE OutKeeps(o)'
  <2>1. ~disturbed /\ ~detached /\ ~failed
    BY <1>1, <1>3, <1>4, <1>16
  <2>2. ~Writing(DailyLog)
    BY <1>1, <1>5, <2>1, NobodyWrites
  <2>3. \A e \in kept[DailyLog] : e \in Bodies(c)
    BY <1>4, <1>5, <2>1, <2>2 DEF SoulInv, EntriesStay, Stands
  <2>4. \A e : e \in Bodies(w) => Stands(e, DailyLog, out[o])'
    BY <1>11 DEF Stands, Bodies
  <2>. QED
    BY <1>1, <1>7, <1>11, <1>13, <2>3, <2>4 DEF OutKeeps
<1>. QED
  BY <1>11, <1>12, <1>14, <1>15, <1>16, QuietStep DEF Own

\* forget has taken its entry out of what it read.
LEMMA ReadToForgetStep ==
  ASSUME SoulInv, NEW o \in Ops, ReadToForget(o)
  PROVE  SoulInv'
<1>. DEFINE c == file[Memory]
            w == Forget(c, call[o].head, call[o].entry)
            ph == IF w = c THEN "done" ELSE "ready"
            v == IF w = c THEN <<>> ELSE w
            r == IF w = c THEN {} ELSE {call[o].entry}
<1>1. /\ phase[o] = "begun" /\ call[o].kind = "forget"
      /\ UNCHANGED <<file, call, text, crashes, kept, disturbed, detached>>
  BY DEF ReadToForget
<1>2. SoulTypeOK /\ CallFits(o)
  BY DEF SoulInv
<1>3. FileOf(o) = Memory /\ Memory # DailyLog /\ Memory \in Files
  BY <1>1 DEF FileOf, Files, Memory, DailyLog
<1>4. /\ phase' = [phase EXCEPT ![o] = ph] /\ out' = [out EXCEPT ![o] = v]
      /\ removable' = [removable EXCEPT ![o] = r]
  BY <1>3 DEF ReadToForget
<1>5. c \in Seq(Section) /\ \A i \in DOMAIN c : c[i].head \in Headings
  BY <1>2, <1>3 DEF SoulTypeOK
<1>6. /\ w \in Seq(Section) /\ DOMAIN w = DOMAIN c
      /\ \A i \in DOMAIN c : w[i].head = c[i].head /\ w[i].body \subseteq c[i].body
      /\ w # c => call[o].entry \in Bodies(c)
  BY <1>5, ForgetIsLocal
<1>7. call[o].entry \in Ops
  BY <1>1, <1>2 DEF CallFits
<1>. HIDE DEF c, w
<1>8. ph \in {"done", "ready"} /\ ph \in Phases /\ ph # "truncated" /\ r \in SUBSET Ops
  BY <1>7 DEF Phases
<1>9. disturbed' \in BOOLEAN /\ detached' \in BOOLEAN
  BY <1>1, <1>2 DEF SoulTypeOK
<1>10. /\ ph = "done" => r = {}
       /\ ph = "ready" => r = {call[o].entry} /\ w # c /\ v = w
       /\ v \in Seq(Section) /\ \A i \in DOMAIN v : v[i].head \in Headings
  <2>1. <<>> \in Seq(Section) /\ DOMAIN <<>> = {}
    OBVIOUS
  <2>. QED
    BY <1>5, <1>6, <2>1
<1>. HIDE DEF ph, r, v
<1>11. SoulTypeOK' /\ OthersStay(o) /\ phase'[o] = ph /\ out'[o] = v /\ removable'[o] = r
  <2>1. PreparedBy(o, ph, v, r)
    BY <1>1, <1>4, <1>9 DEF PreparedBy
  <2>. QED
    BY <1>2, <1>8, <1>10, <2>1, Prepares
<1>12. Quiet(o)
  BY <1>1, <1>8, <1>10, <1>11, WorksQuietly
<1>13. FileOf(o)' = Memory /\ Leaves(o)' = {}
  BY <1>1, <1>3 DEF FileOf, Leaves
<1>14. CallFits(o)' /\ OutFits(o)' /\ Fresh(o)'
  BY <1>1, <1>2, <1>8, <1>10, <1>11 DEF CallFits, OutFits, Fresh
<1>15. o \notin Done /\ Done \subseteq Done' /\ Done' \subseteq Done \cup {o}
  BY <1>1, <1>11 DEF Done, OthersStay
<1>16. ASSUME ~disturbed' PROVE EntriesDone(o)'
  <2>1. Bodies(c) \subseteq Done
    BY <1>1, <1>3, <1>16 DEF SoulInv, FilesAreDone, c
  <2>2. Writes(o)' => Bodies(out[o])' \subseteq Bodies(c)
    <3>1. Writes(o)' => Bodies(out[o])' = Bodies(w)
      BY <1>8, <1>10, <1>11 DEF Bodies, Writes
    <3>. QED
      BY <1>6, <3>1, InBodies
  <2>3. Forgets(o)' => call'[o].entry \in Done
    BY <1>1, <1>6, <1>8, <1>10, <1>11, <2>1 DEF Forgets
  <2>. QED
    BY <1>15, <2>1, <2>2, <2>3 DEF EntriesDone
<1>17. ASSUME ~disturbed' PROVE OutForgets(o)'
  <2>1. SUFFICES ASSUME Writes(o)', NEW x \in Ops, Forgets(x)', x \in Done' \/ x = o
                 PROVE  Forgotten(x, w)
    <3>1. Writes(o)' => \A x : Forgotten(x, out[o])' = Forgotten(x, w)
      BY <1>1, <1>8, <1>10, <1>11 DEF Forgotten, Writes
    <3>. QED
      BY <2>1, <3>1 DEF OutForgets
  <2>2. CASE x = o
    BY <1>5, <2>2, ForgetForgets DEF w
  <2>3. CASE x # o
    <3>1. x \in Done /\ Forgets(x)
      BY <1>1, <1>11, <1>15, <2>1, <2>3 DEF OthersStay, Forgets
    <3>2. Forgotten(x, c)
      BY <1>1, <1>17, <3>1 DEF SoulInv, ForgottenIsGone, Done, Forgets, c
    <3>. QED
      BY <1>5, <3>2, ForgottenAfterForget DEF w
  <2>. QED
    BY <2>2, <2>3
<1>18. ASSUME ~disturbed', ~detached' PROVE OutKeeps(o)'
  <2>1. ~Writing(Memory)
    BY <1>1, <1>3, <1>18, NobodyWrites
  <2>2. \A e \in kept[Memory] : Stands(e, Memory, c)
    BY <1>1, <1>3, <1>18, <2>1 DEF SoulInv, EntriesStay, c
  <2>3. SUFFICES ASSUME Writes(o)', NEW e \in kept[Memory], e \notin r
                 PROVE  Stands(e, Memory, w)
    <3>1. Writes(o)' => \A e : Stands(e, Memory, out[o])' = Stands(e, Memory, w)
      BY <1>1, <1>8, <1>10, <1>11 DEF Stands, Writes
    <3>. QED
      BY <1>1, <1>11, <1>13, <2>3, <3>1 DEF OutKeeps
  <2>4. r = {call[o].entry}
    BY <1>8, <1>10, <1>11, <2>3 DEF Writes
  <2>. QED
    BY <1>5, <2>2, <2>3, <2>4, StandsAfterForget DEF w
<1>. QED
  BY <1>11, <1>12, <1>14, <1>16, <1>17, <1>18, QuietStep DEF Own

\* update_section has put the call's section into what it read: an append has what the section
\* held, a replacement may remove it.
LEMMA ReadAndUpdateStep ==
  ASSUME SoulInv, NEW o \in Ops, ReadAndUpdate(o)
  PROVE  SoulInv'
<1>1. /\ phase[o] = "located" \/ (phase[o] = "begun" /\ call[o].kind = "replace")
      /\ phase' = [phase EXCEPT ![o] = "ready"]
      /\ UNCHANGED <<file, call, text, crashes, kept>>
  BY DEF ReadAndUpdate
<1>. DEFINE h == call[o].head
            b == IF phase[o] = "located" THEN text[o] ELSE Leaves(o)
<1>2. PICK failed \in {FALSE, IoMayFail} :
         LET content == Content(o, failed)
             found == Found(content, h)
         IN  /\ out' = [out EXCEPT ![o] = UpdateSection(content, h, b)]
             /\ removable' = [removable EXCEPT ![o] =
                   IF phase[o] = "located" THEN {}
                   ELSE UNION {content[i].body : i \in {k \in DOMAIN content : content[k].head = h}}]
             /\ disturbed' = (disturbed \/ failed \/ (found # 0 /\ content[found].head # h))
             /\ detached' = (detached \/ (phase[o] = "located" /\ found # 0
                                           /\ Apart(content, h, found)))
  BY DEF ReadAndUpdate
<1>. DEFINE c == Content(o, failed)
            k == Found(c, h)
            w == UpdateSection(c, h, b)
            r == IF phase[o] = "located" THEN {}
                 ELSE UNION {c[i].body : i \in {x \in DOMAIN c : c[x].head = h}}
<1>3. /\ out' = [out EXCEPT ![o] = w] /\ removable' = [removable EXCEPT ![o] = r]
      /\ disturbed' = (disturbed \/ failed \/ (k # 0 /\ c[k].head # h))
      /\ detached' = (detached \/ (phase[o] = "located" /\ k # 0 /\ Apart(c, h, k)))
  BY <1>2
<1>4. SoulTypeOK /\ CallFits(o) /\ phase[o] # "none"
  BY <1>1 DEF SoulInv
<1>5. call[o] \in Calls /\ Leaves(o) \subseteq {o}
  BY <1>4, CallHasBegun
<1>6. call[o].kind \in {"append", "replace"} /\ (phase[o] = "located" => call[o].kind = "append")
  BY <1>1, <1>4 DEF CallFits
<1>7. FileOf(o) = Memory /\ Memory # DailyLog /\ Memory \in Files
  BY <1>6 DEF FileOf, Files, Memory, DailyLog
<1>8. h \in Headings /\ b \in SUBSET Ops
  BY <1>4, <1>5 DEF Calls, SoulTypeOK
<1>9. /\ c \in Seq(Section) /\ failed \in BOOLEAN /\ (~failed => c = file[Memory])
      /\ \A i \in DOMAIN c : c[i].head \in Headings
  BY <1>4, <1>7, ContentIsText
<1>. HIDE DEF c
<1>10. \A e : e \in r <=> phase[o] # "located" /\ \E i \in DOMAIN c : c[i].head = h /\ e \in c[i].body
  OBVIOUS
<1>11. r \in SUBSET Ops
  BY <1>9, <1>10, SectionFields
<1>. HIDE DEF r, b, h, k
<1>12. w \in Seq(Section) /\ SectionsOf(w, c, k, h, b) /\ HasSection(w, h, b)
  BY <1>8, <1>9, UpdateIsLocal DEF k
<1>13. Bodies(w) \subseteq Bodies(c) \cup b
  BY <1>8, <1>9, UpdatedBodies
<1>. HIDE DEF w
<1>14. disturbed' \in BOOLEAN /\ detached' \in BOOLEAN
  <2>1. disturbed \in BOOLEAN /\ detached \in BOOLEAN
    BY <1>4 DEF SoulTypeOK
  <2>. QED
    BY <1>3, <1>9, <2>1, Zenon
<1>15. SoulTypeOK' /\ OthersStay(o) /\ phase'[o] = "ready" /\ out'[o] = w /\ removable'[o] = r
  <2>1. PreparedBy(o, "ready", w, r)
    BY <1>1, <1>3, <1>14 DEF PreparedBy
  <2>2. "ready" \in Phases
    BY DEF Phases
  <2>. QED
    BY <1>4, <1>11, <1>12, <2>1, <2>2, Prepares
<1>16. Quiet(o)
  <2>1. (disturbed => disturbed') /\ (detached => detached')
    BY <1>3
  <2>. QED
    BY <1>1, <1>15, <2>1, WorksQuietly
<1>17. FileOf(o)' = Memory /\ Leaves(o)' = Leaves(o) /\ ~Forgets(o)'
  BY <1>1, <1>6, <1>7 DEF FileOf, Leaves, Forgets
<1>18. CallFits(o)' /\ Fresh(o)'
  BY <1>1, <1>4, <1>15 DEF CallFits, Fresh
<1>19. OutFits(o)'
  <2>1. \A i \in DOMAIN w : w[i].head = h \/ (i \in DOMAIN c /\ w[i].head = c[i].head)
    BY <1>12 DEF SectionsOf
  <2>. QED
    BY <1>8, <1>9, <1>15, <2>1 DEF OutFits
<1>20. o \notin Done /\ Done' = Done
  BY <1>1, <1>15 DEF Done, OthersStay
<1>21. ASSUME ~disturbed'
       PROVE  /\ ~disturbed /\ c = file[Memory] /\ (k = 0 \/ c[k].head = h)
              /\ phase[o] = "located" => b = Extract(c, h) \cup {o}
              /\ b \subseteq Extract(c, h) \cup {o}
              /\ \A e \in Done : e \in b => e \in Extract(c, h)
  <2>1. ~disturbed /\ c = file[Memory] /\ (k = 0 \/ c[k].head = h)
    BY <1>3, <1>9, <1>21
  <2>2. phase[o] = "located" => b = Extract(c, h) \cup {o}
    BY <2>1 DEF SoulInv, Fresh, b, h
  <2>3. phase[o] # "located" => b \subseteq {o}
    BY <1>5 DEF b
  <2>. QED
    BY <1>20, <2>1, <2>2, <2>3
<1>22. ASSUME ~disturbed' PROVE EntriesDone(o)'
  <2>1. Bodies(c) \subseteq Done
    BY <1>7, <1>21, <1>22 DEF SoulInv, FilesAreDone
  <2>2. Extract(c, h) \subseteq Bodies(c)
    BY InExtract, InBodies
  <2>3. Bodies(out[o])' = Bodies(w)
    BY <1>15 DEF Bodies
  <2>. QED
    BY <1>13, <1>17, <1>20, <1>21, <1>22, <2>1, <2>2, <2>3 DEF EntriesDone
<1>23. ASSUME ~disturbed' PROVE OutForgets(o)'
  <2>1. SUFFICES ASSUME NEW x \in Ops, Forgets(x)', x \in Done
                 PROVE  Forgotten(x, w)
    <3>1. \A x : Forgotten(x, out[o])' = Forgotten(x, w)
      BY <1>1, <1>15 DEF Forgotten
    <3>. QED
      BY <1>17, <1>20, <2>1, <3>1 DEF OutForgets
  <2>2. x # o /\ Forgets(x)
    BY <1>1, <1>15, <1>20, <2>1 DEF OthersStay, Forgets
  <2>3. Forgotten(x, c)
    BY <1>21, <1>23, <2>1, <2>2 DEF SoulInv, ForgottenIsGone, Done, Forgets
  <2>4. call[x].entry \in Done
    BY <1>21, <1>23, <2>1, <2>2 DEF SoulInv, EntriesDone, Done
  <2>. QED
    BY <1>8, <1>9, <1>21, <1>23, <2>3, <2>4, ForgottenAfterUpdate DEF w
<1>24. ASSUME ~disturbed', ~detached' PROVE OutKeeps(o)'
  <2>1. ~Writing(Memory)
    BY <1>1, <1>7, <1>21, <1>24, NobodyWrites
  <2>2. \A e \in kept[Memory] : Stands(e, Memory, c)
    BY <1>3, <1>7, <1>21, <1>24, <2>1 DEF SoulInv, EntriesStay
  <2>3. \A e : Stands(e, Memory, out[o])' = Stands(e, Memory, w)
    BY <1>1, <1>15 DEF Stands
  <2>4. ASSUME NEW e \in kept[Memory], e \notin r
        PROVE  Stands(e, Memory, w)
    <3>1. k # 0 /\ e \in c[k].body => e \in b
      <4>1. SUFFICES ASSUME k # 0, e \in c[k].body PROVE e \in b
        OBVIOUS
      <4>2. k \in DOMAIN c /\ c[k].head = h
        BY <1>9, <1>21, <1>24, <4>1, FoundIsPosition DEF k
      <4>3. phase[o] = "located"
        BY <1>10, <2>4, <4>1, <4>2
      <4>4. ~Apart(c, h, k)
        BY <1>3, <1>24, <4>1, <4>3
      <4>5. Spells(c[k].head, h)
        BY <4>2 DEF Spells
      <4>6. e \in Extract(c, h)
        BY <4>1, <4>2, <4>4, <4>5, InExtract
      <4>. QED
        BY <1>21, <1>24, <4>3, <4>6
    <3>. QED
      BY <1>8, <1>9, <1>21, <1>24, <2>2, <3>1, StandsAfterUpdate DEF w, k
  <2>5. ASSUME o \in Leaves(o) PROVE Stands(o, Memory, w)
    <3>1. o \in b
      BY <1>21, <1>24, <2>5 DEF b
    <3>2. PICK i \in DOMAIN w : w[i].head = h /\ w[i].body = b
      BY <1>12 DEF HasSection
    <3>3. Spells(h, h)
      BY DEF Spells
    <3>. QED
      BY <1>7, <3>1, <3>2, <3>3 DEF Stands, h
  <2>. QED
    BY <1>1, <1>5, <1>15, <1>17, <2>3, <2>4, <2>5 DEF OutKeeps
<1>. QED
  BY <1>15, <1>16, <1>18, <1>19, <1>22, <1>23, <1>24, QuietStep DEF Own

-----------------------------------------------------------------------------

\* The arguments of the tools and routes are such that the calls fit them.
LEMMA BeginStep ==
  ASSUME SoulInv, NEW o \in Ops,
         \/ \E h \in Headings, action \in {"append", "replace"} : MemorySave(o, h, action)
         \/ \E h \in Headings, entry \in {o, Blank} :
               SoulUpdateSection(o, h, entry) \/ WriteSoul(o, h, entry)
         \/ \E h \in Headings, entry \in Ops \ {o} : MemoryForget(o, h, entry)
         \/ \E h \in Headings : SoulUpdate(o, h)
         \/ MemoryDailyLog(o)
  PROVE  SoulInv'
<1>1. Short \in Headings
  BY SoulFilesAssumption
<1>2. \A kd \in Kinds, h \in Headings, entry \in Ops \cup {Blank} :
         LET c == [kind |-> kd, head |-> h, entry |-> entry]
         IN  c \in Calls /\ c.kind = kd /\ c.head = h /\ c.entry = entry
  BY DEF Calls
<1>3. ASSUME NEW h \in Headings, NEW action \in {"append", "replace"}, MemorySave(o, h, action)
      PROVE  SoulInv'
  <2>. DEFINE c == [kind |-> action, head |-> h, entry |-> o]
  <2>1. ArgumentsFit(o, c)
    BY <1>2 DEF ArgumentsFit, Kinds
  <2>. QED
    BY <1>3, <2>1, BeginReadingStep DEF MemorySave
<1>4. ASSUME NEW h \in Headings, NEW entry \in {o, Blank}, SoulUpdateSection(o, h, entry)
      PROVE  SoulInv'
  <2>. DEFINE c == [kind |-> "replace", head |-> h, entry |-> entry]
  <2>1. ArgumentsFit(o, c)
    BY <1>2 DEF ArgumentsFit, Kinds
  <2>. QED
    BY <1>4, <2>1, BeginReadingStep DEF SoulUpdateSection
<1>5. ASSUME NEW h \in Headings, NEW entry \in {o, Blank},
             WriteSoul(o, h, entry) \/ (SoulUpdate(o, h) /\ entry = o)
      PROVE  SoulInv'
  <2>. DEFINE c == [kind |-> "write", head |-> h, entry |-> entry]
  <2>1. ArgumentsFit(o, c) /\ c.kind = "write"
    BY <1>2 DEF ArgumentsFit, Kinds
  <2>2. BeginWriting(o, c)
    BY <1>5 DEF WriteSoul, SoulUpdate
  <2>. QED
    BY <2>1, <2>2, BeginWritingStep
<1>6. ASSUME NEW h \in Headings, NEW entry \in Ops, MemoryForget(o, h, entry)
      PROVE  SoulInv'
  <2>. DEFINE c == [kind |-> "forget", head |-> h, entry |-> entry]
  <2>1. ArgumentsFit(o, c)
    BY <1>2 DEF ArgumentsFit, Kinds
  <2>. QED
    BY <1>6, <2>1, BeginReadingStep DEF MemoryForget
<1>7. ASSUME MemoryDailyLog(o) PROVE SoulInv'
  <2>. DEFINE c == [kind |-> "log", head |-> Short, entry |-> o]
  <2>1. ArgumentsFit(o, c)
    BY <1>1, <1>2 DEF ArgumentsFit, Kinds
  <2>. QED
    BY <1>7, <2>1, BeginReadingStep DEF MemoryDailyLog
<1>. QED
  BY <1>3, <1>4, <1>5, <1>6, <1>7

\* A step that changes nothing.
LEMMA SoulStutter == SoulInv /\ UNCHANGED soulVars => SoulInv'
<1>. SUFFICES ASSUME SoulInv, UNCHANGED soulVars PROVE SoulInv'
  OBVIOUS
<1>1. /\ file' = file /\ phase' = phase /\ call' = call /\ text' = text /\ out' = out
      /\ crashes' = crashes /\ removable' = removable /\ kept' = kept
      /\ disturbed' = disturbed /\ detached' = detached
  BY DEF soulVars, history
<1>2. SoulTypeOK'
  BY <1>1 DEF SoulInv, SoulTypeOK
<1>3. \A o \in Ops : CallFits(o)' /\ OutFits(o)'
  BY <1>1 DEF SoulInv, CallFits, OutFits, FileOf
<1>4. KeptIsDone' /\ EntriesStay' /\ ForgottenIsGone'
  BY <1>1 DEF SoulInv, KeptIsDone, Done, EntriesStay, Writing, FileOf, Stands, Bodies,
              ForgottenIsGone, Forgotten
<1>5. ASSUME ~disturbed
      PROVE  /\ Alone' /\ FilesAreDone'
             /\ \A o \in Ops : Fresh(o)' /\ EntriesDone(o)' /\ OutForgets(o)'
             /\ ~detached => \A o \in Ops : OutKeeps(o)'
  <2>1. Alone' /\ FilesAreDone'
    BY <1>1, <1>5 DEF SoulInv, Alone, Busy, FileOf, FilesAreDone, Bodies, Done
  <2>2. \A o \in Ops : Fresh(o)' /\ EntriesDone(o)'
    BY <1>1, <1>5 DEF SoulInv, Fresh, FileOf, Extract, Apart, EntriesDone, Writes, Bodies, Done,
                      Forgets
  <2>3. \A o \in Ops : OutForgets(o)'
    BY <1>1, <1>5 DEF SoulInv, OutForgets, Writes, FileOf, Forgets, Forgotten, Done
  <2>4. ~detached => \A o \in Ops : OutKeeps(o)'
    BY <1>1, <1>5 DEF SoulInv, OutKeeps, Writes, FileOf, Leaves, Stands, Bodies
  <2>. QED
    BY <2>1, <2>2, <2>3, <2>4
<1>. QED
  BY <1>1, <1>2, <1>3, <1>4, <1>5 DEF SoulInv

LEMMA SoulNextPreserves == SoulInv /\ [SoulNext]_soulVars => SoulInv'
<1>1. ASSUME SoulInv, NEW o \in Ops, CallStep(o) PROVE SoulInv'
  BY <1>1, BeginStep, ReadSectionStep, ReadAndUpdateStep, ReadLogStep, ReadToForgetStep,
     EndsEarlyStep, TruncateStep, WriteOutStep, WriteFailsStep DEF CallStep
<1>. QED
  BY <1>1, RestartStep, SoulStutter DEF SoulNext

\* What the proofs about the files rest on.
THEOREM SoulInvariantHolds == SoulSpec => []SoulInv
  BY SoulInitEstablishes, SoulNextPreserves, PTL DEF SoulSpec

\* The files hold sections, MEMORY.md only under its own headings, whatever calls overlap,
\* fail or are cut.
THEOREM SoulTypeCorrect == SoulSpec => []SoulTypeOK
<1>1. SoulInv => SoulTypeOK
  BY DEF SoulInv
<1>. QED
  BY <1>1, SoulInvariantHolds, PTL

\* An entry that a call left in MEMORY.md or the daily log is there until a call that may
\* remove it does, when no calls overlap, no read or write fails or is cut by a crash, and no
\* save takes another section for its own.
THEOREM EntriesAreNotLost == SoulSpec => []EntriesStay
<1>1. SoulInv => EntriesStay
  BY DEF SoulInv
<1>. QED
  BY <1>1, SoulInvariantHolds, PTL

\* What memory_forget removed does not come back from a text that another call prepares.
THEOREM ForgottenStaysGone == SoulSpec => []ForgottenIsGone
<1>1. SoulInv => ForgottenIsGone
  BY DEF SoulInv
<1>. QED
  BY <1>1, SoulInvariantHolds, PTL
=============================================================================
