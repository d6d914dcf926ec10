---------------------------- MODULE ChatRunsProofs ----------------------------
(***************************************************************************)
(* Theorems about ChatRuns, for any runs, sessions and stop requests.  The  *)
(* argument: what the agent task or a stop request has removed from the     *)
(* maps stays out of them, but for the abort handle, which create_chat      *)
(* inserts late; a task is aborted only by a request that then sweeps; and  *)
(* the first request to sweep a run that is not over looked at it with all  *)
(* its entries in place, so it stored what had been said.                   *)
(***************************************************************************)
EXTENDS ChatRuns, TLAPS

\* Until its task is spawned a run is in no map, and no stop request names it.
UnspawnedIsUnknown ==
    \A r \in Runs :
        handler[r] \in {"none", "session", "stored", "failed"} =>
            agent[r] = "none" /\ \A x \in Stops : target[x] # r

\* What the agent task has removed stays removed.
CleanedIsGone ==
    \A r \in Runs :
        /\ agent[r] \in {"none", "running", "returned"} => cleaned[r] = 0
        /\ agent[r] = "cleaning" => cleaned[r] < 5
        /\ agent[r] = "ended" => cleaned[r] = 5
        /\ \A k \in 1..cleaned[r] : AgentSweep[k] \in entries[r] => AgentSweep[k] = "abort_handles"

\* What a stop request has removed stays removed.
SweptIsGone ==
    \A x \in Stops :
        /\ stop[x] = "none" <=> target[x] = NoRun
        /\ stop[x] = "sweeping" => swept[x] < 5
        /\ stop[x] = "ok" => swept[x] = 5
        /\ stop[x] \in {"none", "yielded", "reading", "storing", "aborting"} => swept[x] = 0
        /\ target[x] \in Runs =>
              \A k \in 1..swept[x] :
                  StopSweep[k] \in entries[target[x]] => StopSweep[k] = "abort_handles"

\* A task is aborted by a stop request, which then sweeps.
AbortsAreStops ==
    \A r \in Runs :
        /\ agent[r] = "aborted" => r \in aborting
        /\ r \in aborting => \E x \in Stops : target[x] = r /\ stop[x] \in {"sweeping", "ok"}

\* Every author writes at most once, when its turn has come; the agent's own answer is there
\* when the agent task cleans up.
AnswersAreCounted ==
    \A r \in Runs :
        /\ handler[r] \in {"none", "session"} => r \notin userMsg
        /\ r \in userMsg => sessionOf[r] \in sessions
        /\ answers[r][Agent] <= 1
        /\ agent[r] \in {"none", "running", "returned"} => answers[r][Agent] = 0
        /\ r \in userMsg \ unstored /\ agent[r] \in {"cleaning", "ended"} => answers[r][Agent] = 1
        /\ \A x \in Stops :
              /\ answers[r][x] <= 1
              /\ target[x] # r \/ stop[x] \in {"none", "yielded", "reading", "storing"} =>
                    answers[r][x] = 0

Unfinished == {"running", "returned", "aborted", "panicked"}

\* What a run that is not over lacks, a stop request has swept.
ListedUntilSwept ==
    \A r \in Runs :
        agent[r] \in Unfinished =>
            \/ {"run_accumulators", "run_sessions"} \subseteq entries[r]
            \/ \E x \in Stops : target[x] = r /\ stop[x] \in {"sweeping", "ok"}

Looked == {"aborting", "sweeping", "ok", "notFound"}

\* The partial answer is stored once a stop request has looked, unless it looked too early.
PartIsStored ==
    \A r \in Runs :
        /\ r \in userMsg \ unstored
        /\ r \in heard \ overlooked
        /\ agent[r] \in Unfinished
        /\ \E x \in Stops : target[x] = r /\ stop[x] \in Looked
        => \E x \in Stops : answers[r][x] = 1

IInv ==
    /\ TypeOK
    /\ UnspawnedIsUnknown
    /\ CleanedIsGone
    /\ SweptIsGone
    /\ AbortsAreStops
    /\ AnswersAreCounted
    /\ ListedUntilSwept
    /\ PartIsStored

USE DEF store, runTask, record, request, stopper

-----------------------------------------------------------------------------
(* The order of the removes *)

\* Both sweeps remove every map, one each.
LEMMA SweepsAreWhole ==
  /\ Len(AgentSweep) = 5 /\ Len(StopSweep) = 5
  /\ \A map \in Maps : (\E k \in 1..5 : AgentSweep[k] = map) /\ (\E k \in 1..5 : StopSweep[k] = map)
<1>1. /\ AgentSweep[1] = "active_runs" /\ AgentSweep[2] = "custom_events"
      /\ AgentSweep[3] = "abort_handles" /\ AgentSweep[4] = "run_sessions"
      /\ AgentSweep[5] = "run_accumulators"
  BY DEF AgentSweep
<1>2. /\ StopSweep[1] = "abort_handles" /\ StopSweep[2] = "active_runs"
      /\ StopSweep[3] = "custom_events" /\ StopSweep[4] = "run_sessions"
      /\ StopSweep[5] = "run_accumulators"
  BY DEF StopSweep
<1>3. Len(AgentSweep) = 5 /\ Len(StopSweep) = 5
  BY DEF AgentSweep, StopSweep
<1>4. 1 \in 1..5 /\ 2 \in 1..5 /\ 3 \in 1..5 /\ 4 \in 1..5 /\ 5 \in 1..5
  OBVIOUS
<1>5. ASSUME NEW map \in Maps
      PROVE  (\E k \in 1..5 : AgentSweep[k] = map) /\ (\E k \in 1..5 : StopSweep[k] = map)
  BY <1>1, <1>2, <1>4, <1>5, Zenon DEF Maps
<1>. QED
  BY <1>3, <1>5

\* A step that removes entries, or adds an abort handle, brings nothing else back.
LEMMA NothingComesBack ==
  ASSUME CleanedIsGone, SweptIsGone, UNCHANGED <<agent, cleaned, stop, target, swept>>,
         \A r \in Runs : entries'[r] \subseteq entries[r] \cup {"abort_handles"}
  PROVE  CleanedIsGone' /\ SweptIsGone'
<1>1. CleanedIsGone'
  BY DEF CleanedIsGone
<1>2. SweptIsGone'
  BY DEF SweptIsGone
<1>. QED
  BY <1>1, <1>2

\* store_message writes one row, or none, and the error is remembered.
LEMMA StoreMessageCounts ==
  ASSUME TypeOK, NEW r \in Runs, NEW a \in Authors, StoreMessage(r, a)
  PROVE  /\ answers' \in [Runs -> [Authors -> Nat]]
         /\ unstored' \subseteq Runs /\ unstored \subseteq unstored'
         /\ \A q \in Runs, b \in Authors : q # r \/ b # a => answers'[q][b] = answers[q][b]
         /\ \/ sessionOf[r] \in sessions /\ answers'[r][a] = answers[r][a] + 1
            \/ answers' = answers /\ r \in unstored'
         /\ UNCHANGED <<sessions, userMsg>>
<1>1. answers \in [Runs -> [Authors -> Nat]] /\ unstored \subseteq Runs
  BY DEF TypeOK
<1>2. CASE sessionOf[r] \in sessions /\ answers' = [answers EXCEPT ![r][a] = @ + 1] /\ unstored' = unstored
  <2>1. /\ answers' \in [Runs -> [Authors -> Nat]]
        /\ answers'[r][a] = answers[r][a] + 1
        /\ \A q \in Runs, b \in Authors : q # r \/ b # a => answers'[q][b] = answers[q][b]
    BY <1>1, <1>2
  <2>. QED
    BY <1>1, <1>2, <2>1 DEF StoreMessage
<1>3. CASE answers' = answers /\ unstored' = unstored \cup {r}
  BY <1>1, <1>3 DEF StoreMessage
<1>. QED
  BY <1>2, <1>3 DEF StoreMessage

\* An accumulator that is missing was swept by a request that had looked.
LEMMA MissingWasStored ==
  ASSUME ListedUntilSwept, PartIsStored, NEW r \in Runs, r \in userMsg \ unstored,
         r \in heard \ overlooked, agent[r] \in Unfinished,
         ~({"run_accumulators", "run_sessions"} \subseteq entries[r])
  PROVE  \E x \in Stops : answers[r][x] = 1
<1>1. PICK x \in Stops : target[x] = r /\ stop[x] \in {"sweeping", "ok"}
  BY DEF ListedUntilSwept
<1>2. stop[x] \in Looked
  BY <1>1 DEF Looked
<1>. QED
  BY <1>1, <1>2 DEF PartIsStored

-----------------------------------------------------------------------------
(* create_chat *)

LEMMA EnsureSessionPreserves ==
  ASSUME IInv, NEW r \in Runs, EnsureSession(r) PROVE IInv'
<1>. USE DEF IInv
<1>1. /\ handler[r] = "none" /\ lent' = {}
      /\ \/ /\ \E s \in Sessions : sessions' = sessions \cup {s} /\ sessionOf' = [sessionOf EXCEPT ![r] = s]
            /\ handler' = [handler EXCEPT ![r] = "session"]
         \/ UNCHANGED <<sessions, sessionOf>> /\ handler' = [handler EXCEPT ![r] = "failed"]
      /\ UNCHANGED <<userMsg, answers, unstored, runTask, record, stopper, entries>>
  BY DEF EnsureSession
<1>2. sessions \subseteq sessions' /\ \A q \in Runs : q # r => sessionOf'[q] = sessionOf[q]
  BY <1>1 DEF TypeOK
<1>3. TypeOK'
  BY <1>1 DEF TypeOK, HandlerStages
<1>4. UnspawnedIsUnknown'
  BY <1>1 DEF UnspawnedIsUnknown, TypeOK
<1>5. CleanedIsGone' /\ SweptIsGone' /\ AbortsAreStops'
  BY <1>1 DEF CleanedIsGone, SweptIsGone, AbortsAreStops
<1>6. ListedUntilSwept' /\ PartIsStored'
  BY <1>1 DEF ListedUntilSwept, PartIsStored
<1>7. AnswersAreCounted'
  <2>1. r \notin userMsg
    BY <1>1 DEF AnswersAreCounted
  <2>2. \A q \in Runs : handler'[q] \in {"none", "session"} => q \notin userMsg
    BY <1>1, <2>1 DEF AnswersAreCounted, TypeOK
  <2>3. \A q \in Runs : q \in userMsg => sessionOf'[q] \in sessions'
    BY <1>2, <2>1 DEF AnswersAreCounted
  <2>. QED
    BY <1>1, <2>2, <2>3 DEF AnswersAreCounted
<1>. QED
  BY <1>3, <1>4, <1>5, <1>6, <1>7

LEMMA StoreUserMessagePreserves ==
  ASSUME IInv, NEW r \in Runs, StoreUserMessage(r) PROVE IInv'
<1>. USE DEF IInv
<1>1. /\ handler[r] = "session"
      /\ lent' = {} \/ lent' = {<<"create_chat", r>>}
      /\ UNCHANGED <<sessions, answers, unstored, sessionOf, runTask, record, stopper, entries>>
      /\ \/ /\ sessionOf[r] \in sessions /\ userMsg' = userMsg \cup {r}
            /\ handler' = [handler EXCEPT ![r] = "stored"]
         \/ userMsg' = userMsg /\ handler' = [handler EXCEPT ![r] = "failed"]
  BY DEF StoreUserMessage, LetGo
<1>2. TypeOK'
  <2>1. lent' \subseteq Threads
    BY <1>1 DEF Threads
  <2>. QED
    BY <1>1, <2>1 DEF TypeOK, HandlerStages
<1>3. UnspawnedIsUnknown'
  BY <1>1 DEF UnspawnedIsUnknown, TypeOK
<1>4. CleanedIsGone' /\ SweptIsGone' /\ AbortsAreStops' /\ ListedUntilSwept'
  BY <1>1 DEF CleanedIsGone, SweptIsGone, AbortsAreStops, ListedUntilSwept
<1>5. agent[r] = "none"
  BY <1>1 DEF UnspawnedIsUnknown
<1>6. AnswersAreCounted'
  BY <1>1, <1>5 DEF AnswersAreCounted, TypeOK
<1>7. PartIsStored'
  BY <1>1, <1>5 DEF PartIsStored, Unfinished
<1>. QED
  BY <1>2, <1>3, <1>4, <1>6, <1>7

\* The entries are made before anyone can remove them.
LEMMA RegisterPreserves ==
  ASSUME IInv, NEW r \in Runs, RegisterAndSpawn(r) PROVE IInv'
<1>. USE DEF IInv
<1>1. /\ handler[r] = "stored" /\ handler' = [handler EXCEPT ![r] = "spawned"]
      /\ entries' = [entries EXCEPT ![r] = Maps \ {"abort_handles"}]
      /\ agent' = [agent EXCEPT ![r] = "running"]
      /\ UNCHANGED <<store, cleaned, aborting, record, sessionOf, stopper>>
  BY DEF RegisterAndSpawn
<1>2. agent[r] = "none" /\ \A x \in Stops : target[x] # r
  BY <1>1 DEF UnspawnedIsUnknown
<1>3. TypeOK'
  BY <1>1 DEF TypeOK, HandlerStages, AgentStages
<1>4. UnspawnedIsUnknown'
  BY <1>1 DEF UnspawnedIsUnknown, TypeOK
<1>5. CleanedIsGone'
  BY <1>1, <1>2 DEF CleanedIsGone, TypeOK
<1>6. SweptIsGone'
  BY <1>1, <1>2 DEF SweptIsGone, TypeOK
<1>7. AbortsAreStops'
  BY <1>1 DEF AbortsAreStops, TypeOK
<1>8. AnswersAreCounted'
  BY <1>1, <1>2 DEF AnswersAreCounted, TypeOK
<1>9. ListedUntilSwept'
  BY <1>1 DEF ListedUntilSwept, TypeOK, Maps
<1>10. PartIsStored'
  BY <1>1, <1>2 DEF PartIsStored, TypeOK
<1>. QED
  BY <1>3, <1>4, <1>5, <1>6, <1>7, <1>8, <1>9, <1>10

LEMMA InsertAbortHandlePreserves ==
  ASSUME IInv, NEW r \in Runs, InsertAbortHandle(r) PROVE IInv'
<1>. USE DEF IInv
<1>1. /\ handler[r] = "spawned" /\ handler' = [handler EXCEPT ![r] = "done"]
      /\ entries' = [entries EXCEPT ![r] = @ \cup {"abort_handles"}]
      /\ UNCHANGED <<store, runTask, record, sessionOf, stopper>>
  BY DEF InsertAbortHandle
<1>2. TypeOK'
  BY <1>1 DEF TypeOK, HandlerStages, Maps
<1>3. \A q \in Runs : /\ entries[q] \subseteq entries'[q]
                      /\ entries'[q] \subseteq entries[q] \cup {"abort_handles"}
                      /\ handler'[q] = IF q = r THEN "done" ELSE handler[q]
  BY <1>1 DEF TypeOK
<1>4. CleanedIsGone' /\ SweptIsGone'
  BY <1>1, <1>3, NothingComesBack
<1>5. UnspawnedIsUnknown' /\ AbortsAreStops'
  BY <1>1, <1>3 DEF UnspawnedIsUnknown, AbortsAreStops
<1>6. AnswersAreCounted'
  BY <1>1, <1>3 DEF AnswersAreCounted
<1>7. ListedUntilSwept' /\ PartIsStored'
  BY <1>1, <1>3 DEF ListedUntilSwept, PartIsStored
<1>. QED
  BY <1>2, <1>4, <1>5, <1>6, <1>7

-----------------------------------------------------------------------------
(* The agent task *)

\* What is said after a request has looked is overlooked.
LEMMA AccumulatePreserves ==
  ASSUME IInv, NEW r \in Runs, Accumulate(r) PROVE IInv'
<1>. USE DEF IInv
<1>1. /\ r \notin heard /\ heard' = heard \cup {r}
      /\ overlooked \subseteq overlooked' /\ overlooked' \subseteq Runs
      /\ (\E x \in Stops : target[x] = r /\ stop[x] \in Looked) => r \in overlooked'
      /\ UNCHANGED <<store, runTask, request, stopper, entries>>
  BY DEF Accumulate, TypeOK, Looked
<1>2. TypeOK'
  BY <1>1 DEF TypeOK
<1>3. UnspawnedIsUnknown' /\ CleanedIsGone' /\ SweptIsGone'
  BY <1>1 DEF UnspawnedIsUnknown, CleanedIsGone, SweptIsGone
<1>4. AbortsAreStops' /\ AnswersAreCounted' /\ ListedUntilSwept'
  BY <1>1 DEF AbortsAreStops, AnswersAreCounted, ListedUntilSwept
<1>5. PartIsStored'
  BY <1>1 DEF PartIsStored
<1>. QED
  BY <1>2, <1>3, <1>4, <1>5

\* The task returns, panics or is dropped.
LEMMA RunningPreserves ==
  ASSUME IInv, NEW r \in Runs, AgentReturns(r) \/ AgentPanics(r) \/ TakeAbort(r)
  PROVE  IInv'
<1>. USE DEF IInv
<1>1. /\ agent[r] \in {"running", "returned"}
      /\ \/ agent' = [agent EXCEPT ![r] = "returned"]
         \/ agent' = [agent EXCEPT ![r] = "panicked"]
         \/ r \in aborting /\ agent' = [agent EXCEPT ![r] = "aborted"]
      /\ UNCHANGED <<store, cleaned, aborting, record, request, stopper, entries>>
  BY DEF AgentReturns, AgentPanics, TakeAbort
<1>2. TypeOK'
  BY <1>1 DEF TypeOK, AgentStages
<1>3. UnspawnedIsUnknown'
  BY <1>1 DEF UnspawnedIsUnknown, TypeOK
<1>4. CleanedIsGone'
  BY <1>1 DEF CleanedIsGone, TypeOK
<1>5. SweptIsGone'
  BY <1>1 DEF SweptIsGone
<1>6. AbortsAreStops'
  BY <1>1 DEF AbortsAreStops, TypeOK
<1>7. AnswersAreCounted'
  BY <1>1 DEF AnswersAreCounted, TypeOK
<1>8. \A q \in Runs : agent'[q] \in Unfinished => agent[q] \in Unfinished
  BY <1>1 DEF TypeOK, Unfinished
<1>9. ListedUntilSwept' /\ PartIsStored'
  BY <1>1, <1>8 DEF ListedUntilSwept, PartIsStored
<1>. QED
  BY <1>2, <1>3, <1>4, <1>5, <1>6, <1>7, <1>9

\* The answer is stored, if the session is still there and the INSERT does not fail,
\* before anything is removed.
LEMMA StoreAnswerPreserves ==
  ASSUME IInv, NEW r \in Runs, StoreAnswer(r) PROVE IInv'
<1>. USE DEF IInv
<1>1. /\ agent[r] = "returned" /\ agent' = [agent EXCEPT ![r] = "cleaning"]
      /\ lent' = {} \/ lent' = {<<"agent", r>>}
      /\ UNCHANGED <<cleaned, aborting, record, request, stopper, entries>>
  BY DEF StoreAnswer, LetGo
<1>2. /\ answers' \in [Runs -> [Authors -> Nat]]
      /\ unstored' \subseteq Runs /\ unstored \subseteq unstored'
      /\ \A q \in Runs, b \in Authors : q # r \/ b # Agent => answers'[q][b] = answers[q][b]
      /\ \/ sessionOf[r] \in sessions /\ answers'[r][Agent] = answers[r][Agent] + 1
         \/ answers' = answers /\ r \in unstored'
      /\ UNCHANGED <<sessions, userMsg>>
  BY StoreMessageCounts DEF StoreAnswer, Authors
<1>3. TypeOK'
  <2>1. lent' \subseteq Threads
    BY <1>1 DEF Threads
  <2>. QED
    BY <1>1, <1>2, <2>1 DEF TypeOK, AgentStages
<1>4. UnspawnedIsUnknown'
  BY <1>1 DEF UnspawnedIsUnknown, TypeOK
<1>5. CleanedIsGone'
  BY <1>1 DEF CleanedIsGone, TypeOK
<1>6. SweptIsGone'
  BY <1>1 DEF SweptIsGone
<1>7. AbortsAreStops'
  BY <1>1 DEF AbortsAreStops, TypeOK
<1>8. \A q \in Runs : agent'[q] = IF q = r THEN "cleaning" ELSE agent[q]
  BY <1>1 DEF TypeOK
<1>9. \A q \in Runs, x \in Stops : answers'[q][x] = answers[q][x]
  BY <1>2, ChatRunsAssumption DEF Authors
<1>10. AnswersAreCounted'
  <2>1. answers[r][Agent] = 0
    BY <1>1 DEF AnswersAreCounted
  <2>2. \A q \in Runs : answers'[q][Agent] <= 1 /\ (q # r => answers'[q][Agent] = answers[q][Agent])
    BY <1>2, <2>1 DEF AnswersAreCounted, Authors
  <2>3. r \in userMsg \ unstored' => answers'[r][Agent] = 1
    BY <1>2, <2>1 DEF AnswersAreCounted
  <2>. QED
    BY <1>1, <1>2, <1>8, <1>9, <2>2, <2>3 DEF AnswersAreCounted
<1>11. ListedUntilSwept' /\ PartIsStored'
  BY <1>1, <1>2, <1>8, <1>9 DEF ListedUntilSwept, PartIsStored, Unfinished
<1>. QED
  BY <1>3, <1>4, <1>5, <1>6, <1>7, <1>10, <1>11

LEMMA AgentCleansPreserves ==
  ASSUME IInv, NEW r \in Runs, AgentCleans(r) PROVE IInv'
<1>. USE DEF IInv
<1>1. /\ agent[r] = "cleaning"
      /\ entries' = [entries EXCEPT ![r] = @ \ {AgentSweep[cleaned[r] + 1]}]
      /\ cleaned' = [cleaned EXCEPT ![r] = @ + 1]
      /\ agent' = [agent EXCEPT ![r] = IF cleaned'[r] = 5 THEN "ended" ELSE "cleaning"]
      /\ UNCHANGED <<store, aborting, record, request, stopper>>
  BY SweepsAreWhole DEF AgentCleans
<1>2. cleaned[r] \in 0..4 /\ cleaned'[r] = cleaned[r] + 1
  BY <1>1, SweepsAreWhole DEF CleanedIsGone, TypeOK
<1>3. TypeOK'
  <2>1. /\ cleaned' \in [Runs -> 0..5]
        /\ agent' \in [Runs -> AgentStages]
        /\ entries' \in [Runs -> SUBSET Maps]
    BY <1>1, <1>2, SweepsAreWhole DEF TypeOK, AgentStages
  <2>. QED
    BY <1>1, <2>1, SweepsAreWhole DEF TypeOK
<1>4. UnspawnedIsUnknown'
  BY <1>1 DEF UnspawnedIsUnknown, TypeOK
<1>5. CleanedIsGone'
  BY <1>1, <1>2, SweepsAreWhole DEF CleanedIsGone, TypeOK
<1>6. SweptIsGone'
  BY <1>1 DEF SweptIsGone, TypeOK
<1>7. AbortsAreStops'
  BY <1>1 DEF AbortsAreStops, TypeOK
<1>8. AnswersAreCounted'
  BY <1>1 DEF AnswersAreCounted, TypeOK
<1>9. \A q \in Runs : agent'[q] \in Unfinished => agent[q] \in Unfinished /\ entries'[q] = entries[q]
  BY <1>1 DEF TypeOK, Unfinished
<1>10. ListedUntilSwept' /\ PartIsStored'
  BY <1>1, <1>9 DEF ListedUntilSwept, PartIsStored
<1>. QED
  BY <1>3, <1>4, <1>5, <1>6, <1>7, <1>8, <1>10

-----------------------------------------------------------------------------
(* stop_agent *)

\* A request names a run that has been spawned.
LEMMA StopBeginPreserves ==
  ASSUME IInv, NEW x \in Stops, StopBegin(x) PROVE IInv'
<1>. USE DEF IInv
<1>1. PICK r \in Runs : handler[r] \in {"spawned", "done"} /\ target' = [target EXCEPT ![x] = r]
  BY DEF StopBegin
<1>2. /\ stop[x] = "none" /\ stop' = [stop EXCEPT ![x] = "yielded"]
      /\ UNCHANGED <<store, runTask, record, request, swept, entries>>
  BY DEF StopBegin
<1>3. target[x] = NoRun /\ r # NoRun /\ swept[x] = 0
  BY <1>2, ChatRunsAssumption DEF SweptIsGone
<1>4. TypeOK'
  BY <1>1, <1>2 DEF TypeOK, StopStages
<1>5. UnspawnedIsUnknown'
  BY <1>1, <1>2 DEF UnspawnedIsUnknown, TypeOK
<1>6. CleanedIsGone'
  BY <1>2 DEF CleanedIsGone
<1>7. SweptIsGone'
  BY <1>1, <1>2, <1>3 DEF SweptIsGone, TypeOK
<1>8. AbortsAreStops'
  BY <1>1, <1>2, <1>3, ChatRunsAssumption DEF AbortsAreStops, TypeOK
<1>9. \A y \in Stops : /\ y # x => target'[y] = target[y] /\ stop'[y] = stop[y]
                       /\ stop'[x] = "yielded"
  BY <1>1, <1>2 DEF TypeOK
<1>10. AnswersAreCounted'
  <2>1. \A q \in Runs : answers[q][x] = 0
    BY <1>2 DEF AnswersAreCounted
  <2>. QED
    BY <1>2, <1>9, <2>1 DEF AnswersAreCounted
<1>11. ListedUntilSwept' /\ PartIsStored'
  BY <1>2, <1>9 DEF ListedUntilSwept, PartIsStored, Looked
<1>. QED
  BY <1>4, <1>5, <1>6, <1>7, <1>8, <1>10, <1>11

\* A request that goes on without storing anything found nothing that was not stored.
LEMMA StopLooksPreserves ==
  ASSUME IInv, NEW x \in Stops, StopInspects(x) \/ StopReads(x) PROVE IInv'
<1>. USE DEF IInv
<1>1. /\ stop[x] \in {"yielded", "reading"}
      /\ \/ stop' = [stop EXCEPT ![x] = "reading"]
         \/ stop' = [stop EXCEPT ![x] = "storing"]
         \/ /\ stop' = [stop EXCEPT ![x] = "aborting"]
            /\ target[x] \in heard =>
                  ~({"run_accumulators", "run_sessions"} \subseteq entries[target[x]])
      /\ UNCHANGED <<store, runTask, record, request, target, swept, entries>>
  BY DEF StopInspects, StopReads
<1>2. target[x] \in Runs
  BY <1>1 DEF SweptIsGone, TypeOK
<1>3. TypeOK'
  BY <1>1 DEF TypeOK, StopStages
<1>4. UnspawnedIsUnknown' /\ CleanedIsGone'
  BY <1>1 DEF UnspawnedIsUnknown, CleanedIsGone
<1>5. SweptIsGone'
  BY <1>1 DEF SweptIsGone, TypeOK
<1>6. AbortsAreStops'
  BY <1>1 DEF AbortsAreStops, TypeOK
<1>7. \A y \in Stops : y # x => stop'[y] = stop[y]
  BY <1>1 DEF TypeOK
<1>8. AnswersAreCounted'
  <2>1. \A q \in Runs : answers[q][x] = 0
    BY <1>1 DEF AnswersAreCounted
  <2>. QED
    BY <1>1, <1>7, <2>1 DEF AnswersAreCounted
<1>9. ListedUntilSwept'
  BY <1>1, <1>7 DEF ListedUntilSwept
<1>10. PartIsStored'
  <2>. SUFFICES ASSUME NEW r \in Runs, r \in userMsg \ unstored, r \in heard \ overlooked,
                       agent[r] \in Unfinished,
                       NEW y \in Stops, target[y] = r, stop'[y] \in Looked
                PROVE  \E z \in Stops : answers[r][z] = 1
    BY <1>1 DEF PartIsStored
  <2>1. CASE y # x
    BY <1>7, <2>1 DEF PartIsStored
  <2>2. CASE y = x
    <3>1. ~({"run_accumulators", "run_sessions"} \subseteq entries[r])
      BY <1>1, <2>2 DEF TypeOK, Looked
    <3>. QED
      BY <3>1, MissingWasStored
  <2>. QED
    BY <2>1, <2>2
<1>. QED
  BY <1>3, <1>4, <1>5, <1>6, <1>8, <1>9, <1>10

LEMMA StopStoresPreserves ==
  ASSUME IInv, NEW x \in Stops, StopStores(x) PROVE IInv'
<1>. USE DEF IInv
<1>1. /\ stop[x] = "storing" /\ stop' = [stop EXCEPT ![x] = "aborting"]
      /\ lent' = {} \/ lent' = {<<"stop_agent", x>>}
      /\ UNCHANGED <<runTask, record, request, target, swept, entries>>
  BY DEF StopStores, LetGo
<1>2. target[x] \in Runs
  BY <1>1 DEF SweptIsGone, TypeOK
<1>3. /\ answers' \in [Runs -> [Authors -> Nat]]
      /\ unstored' \subseteq Runs /\ unstored \subseteq unstored'
      /\ \A q \in Runs, b \in Authors : q # target[x] \/ b # x => answers'[q][b] = answers[q][b]
      /\ \/ sessionOf[target[x]] \in sessions /\ answers'[target[x]][x] = answers[target[x]][x] + 1
         \/ answers' = answers /\ target[x] \in unstored'
      /\ UNCHANGED <<sessions, userMsg>>
  BY <1>2, StoreMessageCounts DEF StopStores, Authors
<1>4. TypeOK'
  <2>1. lent' \subseteq Threads
    BY <1>1 DEF Threads
  <2>. QED
    BY <1>1, <1>3, <2>1 DEF TypeOK, StopStages
<1>5. UnspawnedIsUnknown' /\ CleanedIsGone'
  BY <1>1 DEF UnspawnedIsUnknown, CleanedIsGone
<1>6. SweptIsGone'
  BY <1>1 DEF SweptIsGone, TypeOK
<1>7. AbortsAreStops'
  BY <1>1 DEF AbortsAreStops, TypeOK
<1>8. \A y \in Stops : y # x => stop'[y] = stop[y]
  BY <1>1 DEF TypeOK
<1>9. answers[target[x]][x] = 0 /\ stop'[x] = "aborting"
  BY <1>1, <1>2 DEF AnswersAreCounted, TypeOK
<1>10. \A q \in Runs : answers'[q][Agent] = answers[q][Agent]
  BY <1>3, ChatRunsAssumption DEF Authors
<1>11. AnswersAreCounted'
  <2>1. ASSUME NEW q \in Runs, NEW y \in Stops
        PROVE  /\ answers'[q][y] <= 1
               /\ target[y] # q \/ stop'[y] \in {"none", "yielded", "reading", "storing"} =>
                     answers'[q][y] = 0
    <3>1. CASE q = target[x] /\ y = x
      BY <1>3, <1>9, <3>1
    <3>2. CASE ~(q = target[x] /\ y = x)
      <4>1. answers'[q][y] = answers[q][y]
        BY <1>3, <3>2 DEF Authors
      <4>. QED
        BY <1>8, <1>9, <3>2, <4>1 DEF AnswersAreCounted
    <3>. QED
      BY <3>1, <3>2
  <2>. QED
    BY <1>1, <1>3, <1>10, <2>1 DEF AnswersAreCounted
<1>12. ListedUntilSwept'
  BY <1>1, <1>8 DEF ListedUntilSwept
<1>13. PartIsStored'
  <2>. SUFFICES ASSUME NEW r \in Runs, r \in userMsg \ unstored', r \in heard \ overlooked,
                       agent[r] \in Unfinished,
                       NEW y \in Stops, target[y] = r, stop'[y] \in Looked
                PROVE  \E z \in Stops : answers'[r][z] = 1
    BY <1>1, <1>3 DEF PartIsStored
  <2>1. CASE y = x
    BY <1>3, <1>9, <2>1
  <2>2. CASE y # x
    <3>1. PICK z \in Stops : answers[r][z] = 1
      BY <1>3, <1>8, <2>2 DEF PartIsStored
    <3>2. answers'[r][z] = 1
      BY <1>3, <1>9, <3>1 DEF Authors
    <3>. QED
      BY <3>2
  <2>. QED
    BY <2>1, <2>2
<1>. QED
  BY <1>4, <1>5, <1>6, <1>7, <1>11, <1>12, <1>13

LEMMA StopAbortsPreserves ==
  ASSUME IInv, NEW x \in Stops, StopAborts(x) PROVE IInv'
<1>. USE DEF IInv
<1>1. /\ stop[x] = "aborting"
      /\ \/ aborting' = aborting \cup {target[x]} /\ stop' = [stop EXCEPT ![x] = "sweeping"]
         \/ aborting' = aborting /\ stop' = [stop EXCEPT ![x] = "notFound"]
      /\ UNCHANGED <<store, agent, cleaned, record, request, target, swept, entries>>
  BY DEF StopAborts
<1>2. target[x] \in Runs
  BY <1>1 DEF SweptIsGone, TypeOK
<1>3. TypeOK'
  BY <1>1, <1>2 DEF TypeOK, StopStages
<1>4. UnspawnedIsUnknown' /\ CleanedIsGone'
  BY <1>1 DEF UnspawnedIsUnknown, CleanedIsGone
<1>5. SweptIsGone'
  BY <1>1 DEF SweptIsGone, TypeOK
<1>6. AbortsAreStops'
  <2>1. \A y \in Stops : stop[y] \in {"sweeping", "ok"} => stop'[y] = stop[y]
    BY <1>1 DEF TypeOK
  <2>2. target[x] \in aborting' =>
            \/ target'[x] = target[x] /\ stop'[x] = "sweeping"
            \/ target[x] \in aborting
    BY <1>1 DEF TypeOK
  <2>. QED
    BY <1>1, <2>1, <2>2 DEF AbortsAreStops, TypeOK
<1>7. /\ \A y \in Stops : y # x => stop'[y] = stop[y]
      /\ stop'[x] \in {"sweeping", "notFound"}
  BY <1>1 DEF TypeOK
<1>8. AnswersAreCounted'
  BY <1>1, <1>7 DEF AnswersAreCounted
<1>9. ListedUntilSwept' /\ PartIsStored'
  BY <1>1, <1>7 DEF ListedUntilSwept, PartIsStored, Looked
<1>. QED
  BY <1>3, <1>4, <1>5, <1>6, <1>8, <1>9

LEMMA StopSweepsPreserves ==
  ASSUME IInv, NEW x \in Stops, StopSweeps(x) PROVE IInv'
<1>. USE DEF IInv
<1>1. /\ stop[x] = "sweeping"
      /\ entries' = [entries EXCEPT ![target[x]] = @ \ {StopSweep[swept[x] + 1]}]
      /\ swept' = [swept EXCEPT ![x] = @ + 1]
      /\ stop' = [stop EXCEPT ![x] = IF swept'[x] = 5 THEN "ok" ELSE "sweeping"]
      /\ UNCHANGED <<store, runTask, record, request, target>>
  BY SweepsAreWhole DEF StopSweeps
<1>2. target[x] \in Runs /\ swept[x] \in 0..4 /\ swept'[x] = swept[x] + 1
  BY <1>1, SweepsAreWhole DEF SweptIsGone, TypeOK
<1>3. /\ \A q \in Runs : entries'[q] \subseteq entries[q]
      /\ entries'[target[x]] = entries[target[x]] \ {StopSweep[swept[x] + 1]}
  BY <1>1, <1>2 DEF TypeOK
<1>4. TypeOK'
  <2>1. /\ swept' \in [Stops -> 0..5]
        /\ stop' \in [Stops -> StopStages]
        /\ entries' \in [Runs -> SUBSET Maps]
    BY <1>1, <1>2, SweepsAreWhole DEF TypeOK, StopStages
  <2>. QED
    BY <1>1, <2>1, SweepsAreWhole DEF TypeOK
<1>5. CleanedIsGone'
  BY <1>1, <1>3 DEF CleanedIsGone
<1>6. SweptIsGone'
  <2>1. ASSUME NEW y \in Stops, y # x
        PROVE  stop'[y] = stop[y] /\ swept'[y] = swept[y] /\ target'[y] = target[y]
    BY <1>1, <2>1 DEF TypeOK
  <2>2. /\ stop'[x] = "sweeping" => swept'[x] < 5
        /\ stop'[x] = "ok" => swept'[x] = 5
        /\ stop'[x] \in {"sweeping", "ok"} /\ target'[x] = target[x] /\ target[x] # NoRun
    BY <1>1, <1>2, ChatRunsAssumption DEF TypeOK
  <2>3. ASSUME NEW k \in 1..swept'[x], StopSweep[k] \in entries'[target[x]]
        PROVE  StopSweep[k] = "abort_handles"
    BY <1>2, <1>3, <2>3 DEF SweptIsGone
  <2>4. ASSUME NEW y \in Stops, y # x, target[y] \in Runs, NEW k \in 1..swept[y],
               StopSweep[k] \in entries'[target[y]]
        PROVE  StopSweep[k] = "abort_handles"
    BY <1>3, <2>4 DEF SweptIsGone
  <2>. QED
    BY <2>1, <2>2, <2>3, <2>4 DEF SweptIsGone
<1>7. AbortsAreStops'
  BY <1>1 DEF AbortsAreStops, TypeOK
<1>8. UnspawnedIsUnknown'
  BY <1>1 DEF UnspawnedIsUnknown
<1>9. /\ \A y \in Stops : y # x => stop'[y] = stop[y]
      /\ stop'[x] \in {"sweeping", "ok"}
      /\ \A q \in Runs : q # target[x] => entries'[q] = entries[q]
  BY <1>1 DEF TypeOK
<1>10. AnswersAreCounted'
  BY <1>1, <1>9 DEF AnswersAreCounted
<1>11. ListedUntilSwept' /\ PartIsStored'
  BY <1>1, <1>9 DEF ListedUntilSwept, PartIsStored, Looked
<1>. QED
  BY <1>4, <1>5, <1>6, <1>7, <1>8, <1>10, <1>11

-----------------------------------------------------------------------------
(* Sessions *)

\* Deleting a session takes all the messages of its runs.
LEMMA SessionsPreserve ==
  ASSUME IInv, NEW s \in Sessions, DeleteSession(s) \/ OtherRequest(s) PROVE IInv'
<1>. USE DEF IInv
<1>1. UNCHANGED <<unstored, runTask, record, request, stopper, entries>> /\ lent' = {}
  BY DEF DeleteSession, OtherRequest
<1>2. /\ sessions' \subseteq Sessions
      /\ userMsg' \subseteq userMsg /\ \A r \in Runs : r \in userMsg' => sessionOf[r] \in sessions'
      /\ \A r \in Runs : \/ answers'[r] = answers[r]
                         \/ r \notin userMsg' /\ answers'[r] = [a \in Authors |-> 0]
      /\ answers' \in [Runs -> [Authors -> Nat]]
  <2>1. CASE DeleteSession(s)
    BY <2>1 DEF DeleteSession, TypeOK, AnswersAreCounted
  <2>2. CASE OtherRequest(s)
    BY <2>2 DEF OtherRequest, TypeOK, AnswersAreCounted
  <2>. QED
    BY <2>1, <2>2
<1>3. TypeOK'
  BY <1>1, <1>2 DEF TypeOK
<1>4. UnspawnedIsUnknown' /\ CleanedIsGone' /\ SweptIsGone'
  BY <1>1 DEF UnspawnedIsUnknown, CleanedIsGone, SweptIsGone
<1>5. AbortsAreStops' /\ ListedUntilSwept'
  BY <1>1 DEF AbortsAreStops, ListedUntilSwept
<1>6. \A r \in Runs, a \in Authors :
          \/ answers'[r][a] = answers[r][a]
          \/ r \notin userMsg' /\ answers'[r][a] = 0
  BY <1>2
<1>7. AnswersAreCounted'
  BY <1>1, <1>2, <1>6 DEF AnswersAreCounted, Authors
<1>8. PartIsStored'
  BY <1>1, <1>2 DEF PartIsStored
<1>. QED
  BY <1>3, <1>4, <1>5, <1>7, <1>8

-----------------------------------------------------------------------------
(* The inductive invariant and what follows from it *)

LEMMA InitEstablishes == Init => IInv
<1>. SUFFICES ASSUME Init PROVE IInv
  OBVIOUS
<1>. USE ChatRunsAssumption, SweepsAreWhole DEF Init
<1>1. TypeOK
  BY DEF TypeOK, HandlerStages, AgentStages, StopStages
<1>2. UnspawnedIsUnknown /\ CleanedIsGone /\ SweptIsGone /\ AbortsAreStops
  BY DEF UnspawnedIsUnknown, CleanedIsGone, SweptIsGone, AbortsAreStops
<1>3. AnswersAreCounted
  BY DEF AnswersAreCounted, Authors
<1>4. ListedUntilSwept /\ PartIsStored
  BY DEF ListedUntilSwept, PartIsStored, Unfinished
<1>. QED
  BY <1>1, <1>2, <1>3, <1>4 DEF IInv

LEMMA NextPreserves == IInv /\ [Next]_vars => IInv'
<1>. SUFFICES ASSUME IInv, [Next]_vars PROVE IInv'
  OBVIOUS
<1>1. ASSUME NEW r \in Runs,
             \/ CreateStep(r) \/ Accumulate(r) \/ AgentReturns(r) \/ AgentPanics(r) \/ AgentStep(r)
      PROVE  IInv'
  BY <1>1, EnsureSessionPreserves, StoreUserMessagePreserves, RegisterPreserves,
     InsertAbortHandlePreserves, AccumulatePreserves, RunningPreserves, StoreAnswerPreserves,
     AgentCleansPreserves
     DEF CreateStep, AgentStep
<1>2. ASSUME NEW x \in Stops, StopBegin(x) \/ StopStep(x) PROVE IInv'
  BY <1>2, StopBeginPreserves, StopLooksPreserves, StopStoresPreserves, StopAbortsPreserves,
     StopSweepsPreserves
     DEF StopStep
<1>3. ASSUME NEW s \in Sessions, DeleteSession(s) \/ OtherRequest(s) PROVE IInv'
  BY <1>3, SessionsPreserve
<1>4. CASE UNCHANGED vars
  <2>1. UNCHANGED <<store, runTask, record, request, stopper, entries>>
    BY <1>4 DEF vars
  <2>2. TypeOK' /\ UnspawnedIsUnknown'
    BY <2>1 DEF IInv, TypeOK, UnspawnedIsUnknown
  <2>3. CleanedIsGone' /\ SweptIsGone'
    BY <2>1 DEF IInv, CleanedIsGone, SweptIsGone
  <2>4. AbortsAreStops' /\ AnswersAreCounted'
    BY <2>1 DEF IInv, AbortsAreStops, AnswersAreCounted
  <2>5. ListedUntilSwept' /\ PartIsStored'
    BY <2>1 DEF IInv, ListedUntilSwept, PartIsStored
  <2>. QED
    BY <2>2, <2>3, <2>4, <2>5 DEF IInv
<1>. QED
  BY <1>1, <1>2, <1>3, <1>4 DEF Next

\* The invariant of chat runs, for any runs, sessions and stop requests.
THEOREM InvariantHolds == Spec => []IInv
<1>1. Init => IInv
  BY InitEstablishes
<1>2. IInv /\ [Next]_vars => IInv'
  BY NextPreserves
<1>. QED
  BY <1>1, <1>2, PTL DEF Spec

\* Type correctness: neither sweep goes beyond its last map.
THEOREM TypeCorrect == Spec => []TypeOK
<1>1. IInv => TypeOK
  BY DEF IInv
<1>. QED
  BY <1>1, InvariantHolds, PTL

\* However many runs share a session and whatever is stopped or deleted meanwhile: answers
\* are written once, a run that ends has its own, and a run that is aborted has what had been
\* said when it was stopped; only a failed INSERT, a deletion of the conversation or a request
\* that had looked before the first word can lose one.
THEOREM AnswersStay == Spec => []AnswersAreKept
<1>1. IInv => AnswersAreKept
  <2>. SUFFICES ASSUME IInv, NEW r \in Runs
                PROVE  /\ \A a \in Authors : answers[r][a] <= 1
                       /\ \A x \in Stops : target[x] # r => answers[r][x] = 0
                       /\ r \in userMsg \ unstored =>
                             /\ agent[r] = "ended" => answers[r][Agent] = 1
                             /\ agent[r] = "aborted" /\ r \in heard \ overlooked =>
                                   \E x \in Stops : answers[r][x] = 1
    BY DEF AnswersAreKept
  <2>. USE DEF IInv
  <2>1. \A a \in Authors : answers[r][a] <= 1
    BY DEF AnswersAreCounted, Authors
  <2>2. /\ \A x \in Stops : target[x] # r => answers[r][x] = 0
        /\ r \in userMsg \ unstored /\ agent[r] = "ended" => answers[r][Agent] = 1
    BY DEF AnswersAreCounted
  <2>3. ASSUME r \in userMsg \ unstored, agent[r] = "aborted", r \in heard \ overlooked
        PROVE  \E x \in Stops : answers[r][x] = 1
    <3>1. PICK x \in Stops : target[x] = r /\ stop[x] \in {"sweeping", "ok"}
      BY <2>3 DEF AbortsAreStops
    <3>. QED
      BY <2>3, <3>1 DEF PartIsStored, Unfinished, Looked
  <2>. QED
    BY <2>1, <2>2, <2>3
<1>. QED
  BY <1>1, InvariantHolds, PTL

\* A run that ended or was aborted is in no map once no stop request is sweeping, but for
\* an abort handle inserted late, however many requests stop it at once.
THEOREM EndedRunsLeaveTheMaps == Spec => []EndedRunsAreUnlisted
<1>1. IInv => EndedRunsAreUnlisted
  <2>. SUFFICES ASSUME IInv, NEW r \in Runs, agent[r] \in {"ended", "aborted"}, ~Sweeping(r)
                PROVE  entries[r] \subseteq {"abort_handles"}
    BY DEF EndedRunsAreUnlisted
  <2>. USE DEF IInv
  <2>1. entries[r] \subseteq Maps
    BY DEF TypeOK
  <2>2. CASE agent[r] = "ended"
    <3>1. \A k \in 1..5 : AgentSweep[k] \in entries[r] => AgentSweep[k] = "abort_handles"
      BY <2>2 DEF CleanedIsGone
    <3>. QED
      BY <2>1, <3>1, SweepsAreWhole
  <2>3. CASE agent[r] = "aborted"
    <3>1. PICK x \in Stops : target[x] = r /\ stop[x] = "ok"
      BY <2>3 DEF AbortsAreStops, Sweeping
    <3>2. \A k \in 1..5 : StopSweep[k] \in entries[r] => StopSweep[k] = "abort_handles"
      BY <3>1 DEF SweptIsGone
    <3>. QED
      BY <2>1, <3>2, SweepsAreWhole
  <2>. QED
    BY <2>2, <2>3
<1>. QED
  BY <1>1, InvariantHolds, PTL
=============================================================================
