------------------------------- MODULE ChatRuns -------------------------------
(***************************************************************************)
(* The life of a chat run: POST /api/chat registers it in five concurrent   *)
(* maps and spawns its agent task; the agent task stores the answer and     *)
(* removes the entries; POST /api/chat/stop stores what has been said so    *)
(* far, aborts the task and removes the entries too.  Sessions and their    *)
(* messages can be deleted at any time.                                     *)
(*                                                                         *)
(* A critical section under the database mutex, and a single call on a      *)
(* DashMap, is one action.  Sessions and messages obey the foreign key of   *)
(* messages.web_session_id (PRAGMA foreign_keys=ON), and any statement may  *)
(* fail.                                                                    *)
(*                                                                         *)
(* The worker threads of the runtime poll tasks and handlers.  What stands  *)
(* between two awaits occupies its thread from its first action to its      *)
(* last, and a DashMap call that has to wait for a guard keeps the thread.  *)
(***************************************************************************)
EXTENDS FiniteSets, Naturals, Sequences

CONSTANTS
    Runs,       \* run ids (uuid v4, one per POST /api/chat)
    Sessions,   \* web session ids
    Stops,      \* POST /api/chat/stop requests, each made at most once
    NoSession,  \* the session of a run that has not been requested
    NoRun,      \* the target of a stop request that has not been made
    Agent,      \* author of the message the agent task stores
    Workers     \* number of worker threads

ASSUME ChatRunsAssumption ==
    /\ NoSession \notin Sessions
    /\ NoRun \notin Runs
    /\ Agent \notin Stops
    /\ Workers \in Nat \ {0}

VARIABLES
    sessions,    \* rows of web_sessions
    sessionOf,   \* [Runs -> session_id of the request]
    userMsg,     \* the runs whose user message is in messages
    answers,     \* [Runs -> [Authors -> number of assistant rows in messages]]
    handler,     \* [Runs -> where create_chat stands]
    agent,       \* [Runs -> where the spawned agent task stands]
    cleaned,     \* [Runs -> entries the agent task has removed]
    aborting,    \* the runs whose AbortHandle has been used
    entries,     \* [Runs -> the maps of AppState that hold the run]
    heard,       \* the runs whose RunAccumulator holds text
    stop,        \* [Stops -> where stop_agent stands]
    target,      \* [Stops -> run_id]
    swept,       \* [Stops -> entries the request has removed]
    lent,        \* the thread, if any, that the next owner of the database lock is queued on
    unstored,    \* history: the runs an INSERT of an answer of which failed
    overlooked   \* history: the runs a stop request looked at before they said anything

store == <<sessions, userMsg, answers, lent, unstored>>
runTask == <<agent, cleaned, aborting>>
record == <<heard, overlooked>>
request == <<handler, sessionOf>>
stopper == <<stop, target, swept>>
vars == <<store, runTask, record, request, stopper, entries>>

Authors == Stops \cup {Agent}

Maps == {"active_runs", "custom_events", "run_sessions", "run_accumulators", "abort_handles"}

\* The order of the removes at the end of the agent task, and in stop_agent.
AgentSweep == <<"active_runs", "custom_events", "abort_handles",
                "run_sessions", "run_accumulators">>
StopSweep == <<"abort_handles", "active_runs", "custom_events",
               "run_sessions", "run_accumulators">>

HandlerStages == {"none", "session", "stored", "spawned", "done", "failed"}
AgentStages == {"none", "running", "returned", "cleaning", "ended", "aborted", "panicked"}
StopStages == {"none", "yielded", "reading", "storing", "aborting", "sweeping", "ok", "notFound"}

Threads == {"create_chat", "agent"} \X Runs \cup {"stop_agent"} \X Stops

TypeOK ==
    /\ sessions \subseteq Sessions
    /\ sessionOf \in [Runs -> Sessions \cup {NoSession}]
    /\ userMsg \subseteq Runs
    /\ answers \in [Runs -> [Authors -> Nat]]
    /\ handler \in [Runs -> HandlerStages]
    /\ agent \in [Runs -> AgentStages]
    /\ cleaned \in [Runs -> 0..Len(AgentSweep)]
    /\ aborting \subseteq Runs
    /\ entries \in [Runs -> SUBSET Maps]
    /\ heard \subseteq Runs
    /\ stop \in [Stops -> StopStages]
    /\ target \in [Stops -> Runs \cup {NoRun}]
    /\ swept \in [Stops -> 0..Len(StopSweep)]
    /\ lent \subseteq Threads
    /\ unstored \subseteq Runs
    /\ overlooked \subseteq Runs

Init ==
    /\ sessions = {}
    /\ sessionOf = [r \in Runs |-> NoSession]
    /\ userMsg = {}
    /\ answers = [r \in Runs |-> [a \in Authors |-> 0]]
    /\ handler = [r \in Runs |-> "none"]
    /\ agent = [r \in Runs |-> "none"]
    /\ cleaned = [r \in Runs |-> 0]
    /\ aborting = {}
    /\ entries = [r \in Runs |-> {}]
    /\ heard = {}
    /\ stop = [x \in Stops |-> "none"]
    /\ target = [x \in Stops |-> NoRun]
    /\ swept = [x \in Stops |-> 0]
    /\ lent = {}
    /\ unstored = {}
    /\ overlooked = {}

-----------------------------------------------------------------------------
(* Threads and locks *)

\* The stretches without an await that are under way, each on a thread of its own.
Occupied ==
    {<<"create_chat", r>> : r \in {q \in Runs : handler[q] \in {"stored", "spawned"}}} \cup
    {<<"agent", r>> : r \in {q \in Runs : agent[q] = "cleaning"}} \cup
    {<<"stop_agent", x>> : x \in {y \in Stops : stop[y] \in {"aborting", "sweeping"}}}

\* Some worker is free to poll the next task or handler.
WorkerFree == Cardinality(Occupied) < Workers

\* The mutex hands the database to who waits first.  A task that is woken may be queued on
\* the thread that woke it, and is polled only when what runs there comes to an await.
DbFree == lent \cap Occupied = {}

\* A stretch that goes on after it has let go of the database.
LetGo(thread) == lent' = {} \/ lent' = {thread}

\* A stop request keeps its DashMap guard on the accumulator while it waits for the RwLock
\* and for the database.  The guard locks the shard of the run, and all runs are taken to
\* be in one: inserts and removes by others block meanwhile.
Guarded == \E x \in Stops : stop[x] \in {"reading", "storing"}

-----------------------------------------------------------------------------
(* create_chat *)

\* Mutant: a request without a session id stores the missing id as a session.
EnsureSessionUnnamed(r) ==
    /\ WorkerFree /\ DbFree
    /\ handler[r] = "none"
    /\ \E s \in Sessions \cup {NoSession} :
          /\ sessions' = sessions \cup {s}
          /\ sessionOf' = [sessionOf EXCEPT ![r] = s]
    /\ handler' = [handler EXCEPT ![r] = "session"]
    /\ lent' = {}
    /\ UNCHANGED <<userMsg, answers, unstored, runTask, record, stopper, entries>>

\* Creates the session, or reuses the one the request names; an error is answered 500.
EnsureSession(r) ==
    /\ WorkerFree /\ DbFree
    /\ handler[r] = "none"
    /\ \/ /\ \E s \in Sessions :
                /\ sessions' = sessions \cup {s}
                /\ sessionOf' = [sessionOf EXCEPT ![r] = s]
          /\ handler' = [handler EXCEPT ![r] = "session"]
       \/ /\ handler' = [handler EXCEPT ![r] = "failed"]
          /\ UNCHANGED <<sessions, sessionOf>>
    /\ lent' = {}
    /\ UNCHANGED <<userMsg, answers, unstored, runTask, record, stopper, entries>>

\* A second critical section: the session may be gone, and the request answers 500.
StoreUserMessage(r) ==
    /\ WorkerFree /\ DbFree
    /\ handler[r] = "session"
    /\ \/ /\ sessionOf[r] \in sessions
          /\ userMsg' = userMsg \cup {r}
          /\ handler' = [handler EXCEPT ![r] = "stored"]
          /\ LetGo(<<"create_chat", r>>)
       \/ /\ handler' = [handler EXCEPT ![r] = "failed"]
          /\ lent' = {}
          /\ UNCHANGED userMsg
    /\ UNCHANGED <<sessions, answers, unstored, sessionOf, runTask, record, stopper, entries>>

\* Four inserts, then the spawn.  The inserts are one action: until the agent runs, a stop
\* request treats a missing accumulator like an empty one, and no one else looks.
RegisterAndSpawn(r) ==
    /\ handler[r] = "stored"
    /\ ~Guarded
    /\ handler' = [handler EXCEPT ![r] = "spawned"]
    /\ entries' = [entries EXCEPT ![r] = Maps \ {"abort_handles"}]
    /\ agent' = [agent EXCEPT ![r] = "running"]
    /\ UNCHANGED <<store, cleaned, aborting, record, sessionOf, stopper>>

\* The agent task is running by now, and may even have ended.
InsertAbortHandle(r) ==
    /\ handler[r] = "spawned"
    /\ handler' = [handler EXCEPT ![r] = "done"]
    /\ entries' = [entries EXCEPT ![r] = @ \cup {"abort_handles"}]
    /\ UNCHANGED <<store, runTask, record, sessionOf, stopper>>

-----------------------------------------------------------------------------
(* The agent task and the accumulator task *)

\* A stop request that is storing the partial answer holds the accumulator for reading.
HeldForReading(r) == \E x \in Stops : stop[x] = "storing" /\ target[x] = r

\* The agent produces text and the accumulator task records the first of it, under its
\* RwLock.
Accumulate(r) ==
    /\ WorkerFree
    /\ agent[r] # "none"
    /\ r \notin heard
    /\ ~HeldForReading(r)
    /\ heard' = heard \cup {r}
    /\ overlooked' = overlooked \cup
          {q \in {r} : \E x \in Stops :
              target[x] = q /\ stop[x] \notin {"none", "yielded", "reading"}}
    /\ UNCHANGED <<store, runTask, request, stopper, entries>>

\* run_agent returns Ok in every case: the final state is only logged.
AgentReturns(r) ==
    /\ WorkerFree
    /\ agent[r] = "running"
    /\ agent' = [agent EXCEPT ![r] = "returned"]
    /\ UNCHANGED <<store, cleaned, aborting, record, request, stopper, entries>>

\* A panic (a provider without its API key) skips the clean-up.
AgentPanics(r) ==
    /\ WorkerFree
    /\ agent[r] = "running"
    /\ agent' = [agent EXCEPT ![r] = "panicked"]
    /\ UNCHANGED <<store, cleaned, aborting, record, request, stopper, entries>>

\* store_message for the assistant, under an id of its own.  Its error, a session that is
\* gone or any other, is dropped.
StoreMessage(r, author) ==
    /\ \/ /\ sessionOf[r] \in sessions
          /\ answers' = [answers EXCEPT ![r][author] = @ + 1]
          /\ UNCHANGED unstored
       \/ /\ unstored' = unstored \cup {r}
          /\ UNCHANGED answers
    /\ UNCHANGED <<sessions, userMsg>>

\* The answer is stored even when it is empty.
StoreAnswer(r) ==
    /\ WorkerFree /\ DbFree
    /\ agent[r] = "returned"
    /\ StoreMessage(r, Agent)
    /\ agent' = [agent EXCEPT ![r] = "cleaning"]
    /\ LetGo(<<"agent", r>>)
    /\ UNCHANGED <<cleaned, aborting, record, request, stopper, entries>>

\* Mutant: the last two entries are left behind.
AgentCleansPartly(r) ==
    LET map == AgentSweep[cleaned[r] + 1]
    IN  /\ agent[r] = "cleaning"
        /\ entries' = [entries EXCEPT ![r] = @ \ {map}]
        /\ cleaned' = [cleaned EXCEPT ![r] = @ + 1]
        /\ agent' = [agent EXCEPT ![r] =
                       IF cleaned'[r] = 3 THEN "ended" ELSE "cleaning"]
        /\ UNCHANGED <<store, aborting, record, request, stopper>>

\* One remove.  There is no await between the removes, so no abort cuts them short, and
\* the one that has to wait for a guard waits on its thread.
AgentCleans(r) ==
    LET map == AgentSweep[cleaned[r] + 1]
    IN  /\ agent[r] = "cleaning"
        /\ map = "run_accumulators" => ~Guarded
        /\ entries' = [entries EXCEPT ![r] = @ \ {map}]
        /\ cleaned' = [cleaned EXCEPT ![r] = @ + 1]
        /\ agent' = [agent EXCEPT ![r] =
                       IF cleaned'[r] = Len(AgentSweep) THEN "ended" ELSE "cleaning"]
        /\ UNCHANGED <<store, aborting, record, request, stopper>>

\* The runtime drops an aborted task at one of its awaits: in run_agent or waiting for
\* the database.  A task that is being polled may still get past them.
TakeAbort(r) ==
    /\ WorkerFree
    /\ r \in aborting
    /\ agent[r] \in {"running", "returned"}
    /\ agent' = [agent EXCEPT ![r] = "aborted"]
    /\ UNCHANGED <<store, cleaned, aborting, record, request, stopper, entries>>

-----------------------------------------------------------------------------
(* stop_agent *)

\* The run is named by id, found through its session, or taken from abort_handles; the
\* synthetic "done" is sent to custom_events; then the handler yields.
StopBegin(x) ==
    /\ WorkerFree
    /\ stop[x] = "none"
    /\ \E r \in Runs :
          /\ handler[r] \in {"spawned", "done"}
          /\ target' = [target EXCEPT ![x] = r]
    /\ stop' = [stop EXCEPT ![x] = "yielded"]
    /\ UNCHANGED <<store, runTask, record, request, swept, entries>>

\* The accumulator is looked up and, when it is listed, the guard is taken and the RwLock
\* awaited.
StopInspects(x) ==
    /\ WorkerFree
    /\ stop[x] = "yielded"
    /\ stop' = [stop EXCEPT ![x] =
                  IF "run_accumulators" \in entries[target[x]] THEN "reading" ELSE "aborting"]
    /\ UNCHANGED <<store, runTask, record, request, target, swept, entries>>

\* Mutant: nothing is stored when the abort handle is not there yet.
StopReadsAbortable(x) ==
    LET r == target[x]
    IN  /\ WorkerFree
        /\ stop[x] = "reading"
        /\ stop' = [stop EXCEPT ![x] =
                      IF r \in heard /\ {"run_sessions", "abort_handles"} \subseteq entries[r]
                      THEN "storing" ELSE "aborting"]
        /\ UNCHANGED <<store, runTask, record, request, target, swept, entries>>

\* The partial answer is wanted when there is text and the session is still listed.
StopReads(x) ==
    LET r == target[x]
    IN  /\ WorkerFree
        /\ stop[x] = "reading"
        /\ stop' = [stop EXCEPT ![x] =
                      IF r \in heard /\ "run_sessions" \in entries[r] THEN "storing" ELSE "aborting"]
        /\ UNCHANGED <<store, runTask, record, request, target, swept, entries>>

\* The database lock is granted; the guards are dropped after the INSERT.
StopStores(x) ==
    /\ WorkerFree /\ DbFree
    /\ stop[x] = "storing"
    /\ StoreMessage(target[x], x)
    /\ stop' = [stop EXCEPT ![x] = "aborting"]
    /\ LetGo(<<"stop_agent", x>>)
    /\ UNCHANGED <<runTask, record, request, target, swept, entries>>

\* Mutant: the handle is dropped without being used.
StopForgetsAbort(x) ==
    LET r == target[x]
    IN  /\ stop[x] = "aborting"
        /\ stop' = [stop EXCEPT ![x] =
                      IF "abort_handles" \in entries[r] THEN "sweeping" ELSE "notFound"]
        /\ UNCHANGED <<store, runTask, record, request, target, swept, entries>>

\* abort_handles decides between 404 and the abort.
StopAborts(x) ==
    LET r == target[x]
    IN  /\ stop[x] = "aborting"
        /\ IF "abort_handles" \in entries[r]
           THEN /\ aborting' = aborting \cup {r}
                /\ stop' = [stop EXCEPT ![x] = "sweeping"]
           ELSE /\ stop' = [stop EXCEPT ![x] = "notFound"]
                /\ UNCHANGED aborting
        /\ UNCHANGED <<store, agent, cleaned, record, request, target, swept, entries>>

\* One remove.
StopSweeps(x) ==
    LET r == target[x]
        map == StopSweep[swept[x] + 1]
    IN  /\ stop[x] = "sweeping"
        /\ map = "run_accumulators" => ~Guarded
        /\ entries' = [entries EXCEPT ![r] = @ \ {map}]
        /\ swept' = [swept EXCEPT ![x] = @ + 1]
        /\ stop' = [stop EXCEPT ![x] =
                      IF swept'[x] = Len(StopSweep) THEN "ok" ELSE "sweeping"]
        /\ UNCHANGED <<store, runTask, record, request, target>>

-----------------------------------------------------------------------------
(* DELETE /api/sessions/:id: the messages, then the session, under one lock *)

\* A second statement that fails leaves the session without its messages.
DeleteSession(s) ==
    /\ WorkerFree /\ DbFree
    /\ s \in sessions
    /\ sessions' \in {sessions, sessions \ {s}}
    /\ userMsg' = {r \in userMsg : sessionOf[r] # s}
    /\ answers' = [r \in Runs |->
                     IF sessionOf[r] = s THEN [a \in Authors |-> 0] ELSE answers[r]]
    /\ lent' = {}
    /\ UNCHANGED <<unstored, runTask, record, request, stopper, entries>>

\* A POST whose run is not followed creates the session again.
OtherRequest(s) ==
    /\ WorkerFree /\ DbFree
    /\ s \notin sessions
    /\ sessions' = sessions \cup {s}
    /\ lent' = {}
    /\ UNCHANGED <<userMsg, answers, unstored, runTask, record, request, stopper, entries>>

CreateStep(r) ==
    EnsureSession(r) \/ StoreUserMessage(r) \/ RegisterAndSpawn(r) \/ InsertAbortHandle(r)

AgentStep(r) == StoreAnswer(r) \/ AgentCleans(r) \/ TakeAbort(r)

StopStep(x) ==
    StopInspects(x) \/ StopReads(x) \/ StopStores(x) \/ StopAborts(x) \/ StopSweeps(x)

Next ==
    \/ \E r \in Runs :
          \/ CreateStep(r)
          \/ Accumulate(r) \/ AgentReturns(r) \/ AgentPanics(r)
          \/ AgentStep(r)
    \/ \E x \in Stops : StopBegin(x) \/ StopStep(x)
    \/ \E s \in Sessions : DeleteSession(s) \/ OtherRequest(s)

\* Handlers and tasks that can go on do, but for a reader of the accumulator that may be
\* queued behind a writer.  Nothing bounds the time the external agent loop takes, and
\* users need not make requests.
Fairness ==
    /\ \A r \in Runs :
          /\ WF_vars(StoreUserMessage(r) \/ RegisterAndSpawn(r) \/ InsertAbortHandle(r))
          /\ WF_vars(AgentStep(r))
    /\ \A x \in Stops :
          WF_vars(StopStep(x) /\ ~(stop[x] = "reading" /\ HeldForReading(target[x])))

Spec == Init /\ [][Next]_vars /\ Fairness

-----------------------------------------------------------------------------
(* Properties *)

\* Every answer is written once, and one that should be there is.  As long as its
\* conversation was not deleted and no INSERT of one of its answers failed: a run that came
\* to its end has its own answer, whoever stopped it meanwhile; and a run that was aborted
\* has the part that was said, unless a request that stopped it had looked before the first
\* word.  Nobody but the agent task and the requests that stop the run answers it.
AnswersAreKept ==
    \A r \in Runs :
        /\ \A a \in Authors : answers[r][a] <= 1
        /\ \A x \in Stops : target[x] # r => answers[r][x] = 0
        /\ r \in userMsg \ unstored =>
              /\ agent[r] = "ended" => answers[r][Agent] = 1
              /\ agent[r] = "aborted" /\ r \in heard \ overlooked =>
                    \E x \in Stops : answers[r][x] = 1

Sweeping(r) == \E x \in Stops : stop[x] = "sweeping" /\ target[x] = r

\* A run whose task has ended or was aborted is in none of the maps, so it is not reported
\* as running, once the stop requests that are sweeping have finished.  The one exception
\* is an abort handle inserted after the task had already ended.
EndedRunsAreUnlisted ==
    \A r \in Runs :
        agent[r] \in {"ended", "aborted"} /\ ~Sweeping(r) => entries[r] \subseteq {"abort_handles"}

\* A stretch that has come to its insert into, or remove from, run_accumulators.
AtAccumulators(thread) ==
    \/ \E r \in Runs :
          \/ thread = <<"create_chat", r>> /\ handler[r] = "stored"
          \/ /\ thread = <<"agent", r>> /\ agent[r] = "cleaning"
             /\ AgentSweep[cleaned[r] + 1] = "run_accumulators"
    \/ \E x \in Stops :
          /\ thread = <<"stop_agent", x>> /\ stop[x] = "sweeping"
          /\ StopSweep[swept[x] + 1] = "run_accumulators"

\* The two deadlocks of a guard that is held across awaits.  Every worker waits for the
\* guard and none is left to poll the request that holds it; or the request waits for the
\* database, and who was given it is queued on a thread that waits for the guard.
Jammed ==
    \/ Guarded /\ ~WorkerFree /\ \A t \in Occupied : AtAccumulators(t)
    \/ /\ \E x \in Stops : stop[x] = "storing"
       /\ \E t \in lent \cap Occupied : AtAccumulators(t)

\* A stop request that answered "ok" brings its run to an end, however long the agent loop
\* would have gone on, or the server is jammed.
StopEndsRun ==
    \A x \in Stops, r \in Runs :
        stop[x] = "ok" /\ target[x] = r ~> agent[r] \in {"ended", "aborted", "panicked"} \/ Jammed

\* Every run whose agent loop has returned or was dropped is eventually not reported as
\* running any more, unless the server is jammed: the guards that stop requests hold across
\* their awaits hold others up for ever in the two ways of Jammed, and in no other.
RunsLeaveTheMaps ==
    \A r \in Runs :
        agent[r] \in {"returned", "aborted"} ~> entries[r] \subseteq {"abort_handles"} \/ Jammed
=============================================================================
