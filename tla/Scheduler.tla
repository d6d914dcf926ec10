------------------------------ MODULE Scheduler ------------------------------
(***************************************************************************)
(* The background task scheduler: the scheduled_tasks and task_run_logs     *)
(* tables, the polling loop of TaskScheduler with its per-poll semaphore    *)
(* and join_all, the tokio tasks that execute run_task, and the operations  *)
(* of the HTTP routes and the agent tools on the same rows.                 *)
(*                                                                         *)
(* Every access to the tables is made under one tokio mutex, so one         *)
(* critical section is one action; the actions of different tasks           *)
(* interleave at every await.  Time is abstracted to what the query of      *)
(* get_due_tasks tells apart: the next_run of a row is NULL, in the future  *)
(* or due.                                                                  *)
(***************************************************************************)
EXTENDS Naturals, FiniteSets

CONSTANTS
    Tasks,          \* task ids (uuid v4: an id is issued once and never reused)
    Recurring,      \* the ids whose schedule_type is "cron" or "interval"
    Handles,        \* identities of the tokio tasks the loop spawns
    NoTask,         \* runTask of a handle that is not in use
    MaxConcurrent,  \* config.max_concurrent_tasks
    MaxCrashes,     \* bound on the number of process restarts
    DbMayFail       \* whether a statement on the SQLite file may return an error

ASSUME SchedulerAssumption ==
    /\ Recurring \subseteq Tasks
    /\ IsFiniteSet(Handles)
    /\ NoTask \notin Tasks
    /\ MaxConcurrent \in Nat
    /\ MaxCrashes \in Nat
    /\ DbMayFail \in BOOLEAN

VARIABLES
    status,      \* [Tasks -> status column, or why there is no row]
    nextRun,     \* [Tasks -> next_run column]
    logged,      \* the tasks with rows in task_run_logs
    loop,        \* where the polling loop stands
    batch,       \* due_tasks still to be spawned
    permits,     \* free permits of the semaphore of this poll
    runTask,     \* [Handles -> the task a spawned run_task executes]
    phase,       \* [Handles -> where that run_task stands]
    notified,    \* the permit a tokio Notify stores
    unnotified,  \* inserted rows whose creator has not called notify_new_task yet
    crashes,     \* restarts so far
    unseen       \* history: rows inserted already due since the loop last polled

rows == <<status, nextRun, logged>>
poller == <<loop, batch, permits>>
workers == <<runTask, phase>>
vars == <<rows, poller, workers, notified, unnotified, crashes, unseen>>

\* The status strings the code writes or tests; "other" is any other string, which
\* PATCH stores unchecked.
Statuses == {"active", "running", "paused", "other"}

\* "unborn": the id is not issued yet; "deleted": its row has been removed.
NoRow == {"unborn", "deleted"}

Schedules == {"null", "future", "due"}

Exists(t) == status[t] \notin NoRow

Phases == {"free", "spawned", "agent", "recording", "finished"}

\* The run_task calls that hold a permit of the semaphore.
Live == {h \in Handles : phase[h] \in {"spawned", "agent", "recording"}}

TypeOK ==
    /\ status \in [Tasks -> Statuses \cup NoRow]
    /\ nextRun \in [Tasks -> Schedules]
    /\ logged \subseteq Tasks
    /\ loop \in {"polling", "dispatching", "joining", "waiting"}
    /\ batch \subseteq Tasks
    /\ permits \in 0..MaxConcurrent
    /\ runTask \in [Handles -> Tasks \cup {NoTask}]
    /\ phase \in [Handles -> Phases]
    /\ notified \in BOOLEAN
    /\ unnotified \subseteq Tasks
    /\ crashes \in 0..MaxCrashes
    /\ unseen \subseteq Tasks

Init ==
    /\ status = [t \in Tasks |-> "unborn"]
    /\ nextRun = [t \in Tasks |-> "null"]
    /\ logged = {}
    /\ loop = "polling"
    /\ batch = {}
    /\ permits = 0
    /\ runTask = [h \in Handles |-> NoTask]
    /\ phase = [h \in Handles |-> "free"]
    /\ notified = FALSE
    /\ unnotified = {}
    /\ crashes = 0
    /\ unseen = {}

-----------------------------------------------------------------------------
(* The polling loop *)

\* Mutant: the query forgets the next_run condition.
DueTasksAnyTime == {t \in Tasks : status[t] = "active"}

\* Mutant: the query excludes only running rows.
DueTasksNotRunning ==
    {t \in Tasks : /\ Exists(t)
                   /\ status[t] # "running"
                   /\ nextRun[t] = "due"}

\* get_due_tasks: next_run <= now AND status = 'active'.
DueTasks == {t \in Tasks : status[t] = "active" /\ nextRun[t] = "due"}

\* poll_and_execute reads the due rows and, when there are any, makes a new semaphore.
Poll ==
    /\ loop = "polling"
    /\ IF DueTasks = {}
       THEN loop' = "waiting" /\ UNCHANGED <<batch, permits>>
       ELSE /\ loop' = "dispatching"
            /\ batch' = DueTasks
            /\ permits' = MaxConcurrent
    /\ unseen' = {}
    /\ UNCHANGED <<rows, workers, notified, unnotified, crashes>>

\* The query fails: poll_and_execute logs the error and returns.
PollFails ==
    /\ DbMayFail
    /\ loop = "polling"
    /\ loop' = "waiting"
    /\ unseen' = {}
    /\ UNCHANGED <<rows, batch, permits, workers, notified, unnotified, crashes>>

\* Mutant: the loop spawns without waiting for a permit.
DispatchUnlimited(t, h) ==
    /\ loop = "dispatching"
    /\ t \in batch
    /\ phase[h] = "free"
    /\ batch' = batch \ {t}
    /\ loop' = IF batch' = {} THEN "joining" ELSE "dispatching"
    /\ runTask' = [runTask EXCEPT ![h] = t]
    /\ phase' = [phase EXCEPT ![h] = "spawned"]
    /\ UNCHANGED <<rows, permits, notified, unnotified, crashes, unseen>>

\* One iteration of the for loop: acquire_owned, then spawn.  Nothing is awaited between
\* the last spawn and join_all.
Dispatch(t, h) ==
    /\ loop = "dispatching"
    /\ t \in batch
    /\ permits > 0
    /\ phase[h] = "free"
    /\ permits' = permits - 1
    /\ batch' = batch \ {t}
    /\ loop' = IF batch' = {} THEN "joining" ELSE "dispatching"
    /\ runTask' = [runTask EXCEPT ![h] = t]
    /\ phase' = [phase EXCEPT ![h] = "spawned"]
    /\ UNCHANGED <<rows, notified, unnotified, crashes, unseen>>

\* Mutant: the loop does not wait for the handles of its batch.
JoinNobody ==
    /\ loop = "joining"
    /\ loop' = "waiting"
    /\ runTask' = [h \in Handles |-> IF phase[h] = "finished" THEN NoTask ELSE runTask[h]]
    /\ phase' = [h \in Handles |-> IF phase[h] = "finished" THEN "free" ELSE phase[h]]
    /\ UNCHANGED <<rows, batch, permits, notified, unnotified, crashes, unseen>>

\* join_all resolves when every handle of the batch has returned or panicked.
JoinAll ==
    /\ loop = "joining"
    /\ \A h \in Handles : phase[h] \in {"free", "finished"}
    /\ loop' = "waiting"
    /\ runTask' = [h \in Handles |-> NoTask]
    /\ phase' = [h \in Handles |-> "free"]
    /\ UNCHANGED <<rows, batch, permits, notified, unnotified, crashes, unseen>>

\* select!: the poll interval elapses.
TimerFires ==
    /\ loop = "waiting"
    /\ loop' = "polling"
    /\ UNCHANGED <<rows, batch, permits, workers, notified, unnotified, crashes, unseen>>

\* select!: notified() consumes the stored permit.
WokenByNotify ==
    /\ loop = "waiting"
    /\ notified
    /\ loop' = "polling"
    /\ notified' = FALSE
    /\ UNCHANGED <<rows, batch, permits, workers, unnotified, crashes, unseen>>

-----------------------------------------------------------------------------
(* run_task, on the tokio task h *)

\* set_task_running ignores the status it overwrites, touches nothing when the row is
\* gone, and its error is dropped; the agent starts in every case.
SetTaskRunning(h) ==
    /\ phase[h] = "spawned"
    /\ \/ /\ Exists(runTask[h])
          /\ status' = [status EXCEPT ![runTask[h]] = "running"]
       \/ /\ ~Exists(runTask[h]) \/ DbMayFail
          /\ UNCHANGED status
    /\ phase' = [phase EXCEPT ![h] = "agent"]
    /\ UNCHANGED <<nextRun, logged, poller, runTask, notified, unnotified, crashes, unseen>>

\* run_agent returns, Ok or Err; calculate_next_run reads the clock.
AgentReturns(h) ==
    /\ phase[h] = "agent"
    /\ phase' = [phase EXCEPT ![h] = "recording"]
    /\ UNCHANGED <<rows, poller, runTask, notified, unnotified, crashes, unseen>>

\* Mutant: the permit is given back only on the normal path.
RunPanicsKeepingPermit(h) ==
    /\ phase[h] = "agent"
    /\ phase' = [phase EXCEPT ![h] = "finished"]
    /\ UNCHANGED <<rows, poller, runTask, notified, unnotified, crashes, unseen>>

\* run_task panics (a missing provider key, a text cut inside a character): the unwind
\* drops the permit, the row stays as set_task_running left it.
RunPanics(h) ==
    /\ phase[h] = "agent"
    /\ phase' = [phase EXCEPT ![h] = "finished"]
    /\ permits' = permits + 1
    /\ UNCHANGED <<rows, loop, batch, runTask, notified, unnotified, crashes, unseen>>

\* calculate_next_run: NULL for a one-shot; for the recurring kinds a later instant, an
\* instant that is already due (interval 0), or NULL (a cron expression with no
\* occurrence left).
NextRunAfter(t) == IF t \in Recurring THEN Schedules ELSE {"null"}

\* log_task_run: the INSERT fails on the foreign key when the task is gone.
LogTaskRun(t) ==
    \/ Exists(t) /\ logged' = logged \cup {t}
    \/ (~Exists(t) \/ DbMayFail) /\ UNCHANGED logged

\* update_task_after_run writes 'active' over whatever status the row has by now.
UpdateTaskAfterRun(t) ==
    \/ /\ Exists(t)
       /\ \E n \in NextRunAfter(t) : nextRun' = [nextRun EXCEPT ![t] = n]
       /\ status' = [status EXCEPT ![t] = "active"]
    \/ /\ ~Exists(t) \/ DbMayFail
       /\ UNCHANGED <<status, nextRun>>

\* Both statements run under one lock, their errors are dropped, then run_task returns
\* and the permit is dropped.
RecordRun(h) ==
    /\ phase[h] = "recording"
    /\ UpdateTaskAfterRun(runTask[h])
    /\ LogTaskRun(runTask[h])
    /\ phase' = [phase EXCEPT ![h] = "finished"]
    /\ permits' = permits + 1
    /\ UNCHANGED <<loop, batch, runTask, notified, unnotified, crashes, unseen>>

-----------------------------------------------------------------------------
(* Operations of the routes and the tools *)

\* db::tasks::create_task: the INSERT of an active row.
InsertRow(t, n) ==
    /\ status[t] = "unborn"
    /\ status' = [status EXCEPT ![t] = "active"]
    /\ nextRun' = [nextRun EXCEPT ![t] = n]
    /\ unseen' = IF n = "due" THEN unseen \cup {t} ELSE unseen
    /\ unnotified' = unnotified \cup {t}
    /\ UNCHANGED <<logged, poller, workers, notified, crashes>>

\* calculate_initial_next_run of the engine: NULL for a schedule it cannot read.
InitialNextRun == Schedules

\* calculate_next_run of the tools: an error for a schedule it cannot read.
NextRunOfTool == Schedules \ {"null"}

\* The route stores the task in either case; schedule_task only when there is a next_run.
CreateTask(t) == \E n \in InitialNextRun : InsertRow(t, n)

ScheduleTask(t) == \E n \in NextRunOfTool : InsertRow(t, n)

\* run_background: a one-shot task that is due at once.
RunBackground(t) == t \notin Recurring /\ InsertRow(t, "due")

InsertTask(t) == CreateTask(t) \/ ScheduleTask(t) \/ RunBackground(t)

\* Mutant: notify_waiters, which stores no permit, in place of notify_one.
NotifyWaiters(t) ==
    /\ t \in unnotified
    /\ unnotified' = unnotified \ {t}
    /\ loop' = IF loop = "waiting" THEN "polling" ELSE loop
    /\ UNCHANGED <<rows, batch, permits, workers, notified, crashes, unseen>>

\* notify_new_task, after the lock is released.
NotifyNewTask(t) ==
    /\ t \in unnotified
    /\ unnotified' = unnotified \ {t}
    /\ notified' = TRUE
    /\ UNCHANGED <<rows, poller, workers, crashes, unseen>>

\* Mutant: a change of status also recomputes next_run.
UpdateTaskStatusAnew(t, s) ==
    /\ Exists(t)
    /\ status' = [status EXCEPT ![t] = s]
    /\ nextRun' = [nextRun EXCEPT ![t] = "future"]
    /\ UNCHANGED <<logged, poller, workers, notified, unnotified, crashes, unseen>>

\* update_task_status: an UPDATE that looks at neither the old status nor the run.
UpdateTaskStatus(t, s) ==
    /\ Exists(t)
    /\ status' = [status EXCEPT ![t] = s]
    /\ UNCHANGED <<nextRun, logged, poller, workers, notified, unnotified, crashes, unseen>>

PauseTask(t) == UpdateTaskStatus(t, "paused")

\* Resuming does not wake the loop.
ResumeTask(t) == UpdateTaskStatus(t, "active")

\* PATCH stores the status it is given.
UpdateTask(t) == \E s \in Statuses : UpdateTaskStatus(t, s)

\* cancel, DELETE and cancel_task: logs first, then the row, two statements.
DeleteTask(t) ==
    /\ Exists(t)
    /\ logged' = logged \ {t}
    /\ \/ /\ status' = [status EXCEPT ![t] = "deleted"]
          /\ nextRun' = [nextRun EXCEPT ![t] = "null"]
          /\ unseen' = unseen \ {t}
       \/ /\ DbMayFail
          /\ UNCHANGED <<status, nextRun, unseen>>
    /\ UNCHANGED <<poller, workers, notified, unnotified, crashes>>

-----------------------------------------------------------------------------
(* The environment *)

\* The clock passes the next_run of a row.
ComesDue(t) ==
    /\ Exists(t)
    /\ nextRun[t] = "future"
    /\ nextRun' = [nextRun EXCEPT ![t] = "due"]
    /\ UNCHANGED <<status, logged, poller, workers, notified, unnotified, crashes, unseen>>

\* The process dies and is started again: the tables survive, nothing else does, and
\* nothing is repaired.
Restart ==
    /\ crashes < MaxCrashes
    /\ crashes' = crashes + 1
    /\ loop' = "polling"
    /\ batch' = {}
    /\ permits' = 0
    /\ runTask' = [h \in Handles |-> NoTask]
    /\ phase' = [h \in Handles |-> "free"]
    /\ notified' = FALSE
    /\ unnotified' = {}
    /\ UNCHANGED <<rows, unseen>>

OperatorStep(t) ==
    \/ InsertTask(t)
    \/ NotifyNewTask(t)
    \/ PauseTask(t)
    \/ ResumeTask(t)
    \/ UpdateTask(t)
    \/ DeleteTask(t)

WorkerStep(h) ==
    \/ SetTaskRunning(h)
    \/ AgentReturns(h)
    \/ RunPanics(h)
    \/ RecordRun(h)

LoopStep ==
    \/ Poll
    \/ PollFails
    \/ \E t \in Tasks, h \in Handles : Dispatch(t, h)
    \/ JoinAll
    \/ TimerFires
    \/ WokenByNotify

Next ==
    \/ LoopStep
    \/ \E h \in Handles : WorkerStep(h)
    \/ \E t \in Tasks : OperatorStep(t) \/ ComesDue(t)
    \/ Restart

\* What the runtime guarantees: a ready tokio task is polled, a timer fires, a lock is
\* granted; and the query for due tasks does not fail every time it is made.  Nothing
\* bounds the time an agent takes, so its return is not here.
Fairness ==
    /\ SF_vars(Poll)
    /\ WF_vars(\E t \in Tasks, h \in Handles : Dispatch(t, h))
    /\ WF_vars(JoinAll)
    /\ WF_vars(TimerFires \/ WokenByNotify)
    /\ \A h \in Handles : WF_vars(SetTaskRunning(h)) /\ WF_vars(RecordRun(h))
    /\ \A t \in Tasks : WF_vars(NotifyNewTask(t)) /\ WF_vars(ComesDue(t))

\* The external agent loop returns or panics.
AgentFairness == \A h \in Handles : WF_vars(AgentReturns(h) \/ RunPanics(h))

Spec == Init /\ [][Next]_vars /\ Fairness

LiveSpec == Spec /\ AgentFairness

-----------------------------------------------------------------------------
(* Properties *)

\* At no time do more runs hold a permit than max_concurrent_tasks, over all polls: each
\* poll makes a semaphore of its own, so this rests on join_all.
ConcurrencyLimit == Cardinality(Live) <= MaxConcurrent

\* A task never has two runs in flight, and is not queued while one is: run_task checks
\* nothing, so a second run would race the first on the row.
NoOverlappingRuns ==
    /\ \A g, h \in Live : runTask[g] = runTask[h] => g = h
    /\ \A h \in Live : runTask[h] \notin batch

\* A task that is queued or running is still owed the occurrence it was picked for: its
\* row says "due" until the run itself records the next one.  One occurrence is thus
\* never executed twice after having been recorded, whatever the operators do meanwhile.
RunsAreOwed ==
    \A t \in Tasks :
        (t \in batch \/ \E h \in Live : runTask[h] = t) /\ Exists(t)
            => nextRun[t] = "due"

\* Run logs belong to tasks that exist: a run that ends after its task was deleted leaves
\* no orphan log behind.
LogsBelongToTasks == \A t \in logged : Exists(t)

\* A task created already due does not wait for the poll interval: once its creator
\* has notified, either a poll has been made since the insertion, or one is about to be, or
\* the permit that ends the next wait at once is stored.
WakeupNotLost ==
    loop # "polling" /\ unseen \ unnotified # {} => notified

\* The strengthening that makes the invariants above inductive.

\* Between two polls nothing is queued and no handle is in use; join_all comes after the
\* whole batch has been spawned.
LoopIsQuiet ==
    /\ loop \in {"polling", "waiting"} =>
          batch = {} /\ \A h \in Handles : phase[h] = "free"
    /\ loop = "joining" => batch = {}

\* While a poll is carried out, every permit of its semaphore is free or held by one run.
PermitsAccounted ==
    loop \in {"dispatching", "joining"} => permits + Cardinality(Live) = MaxConcurrent

\* What is queued or running is, or was, a row.
RunsAreIssued ==
    /\ \A t \in batch : status[t] # "unborn"
    /\ \A h \in Live : runTask[h] \in Tasks /\ status[runTask[h]] # "unborn"

IInv ==
    /\ TypeOK
    /\ LoopIsQuiet
    /\ PermitsAccounted
    /\ RunsAreIssued
    /\ NoOverlappingRuns
    /\ RunsAreOwed
    /\ LogsBelongToTasks
    /\ WakeupNotLost

\* A deleted task never comes back, although its run may still be going on.
DeletedStaysDeleted ==
    [][\A t \in Tasks : status[t] = "deleted" => status'[t] = "deleted"]_vars

Idle(t) == t \notin batch /\ \A h \in Live : runTask[h] # t

\* A row that is not active and has no run queued or in flight (paused, or left 'running'
\* by a crash or a panic) is neither started nor changed by anything but an operator's
\* request: there is no recovery, and no poll revives it.
InactiveNeedsOperator ==
    [][\A t \in Tasks :
         Idle(t) /\ status[t] # "active" =>
             /\ Idle(t)'
             /\ status'[t] # status[t] => OperatorStep(t)]_vars

\* Every due active task is eventually started, unless an operator takes it away: no
\* permit, handle or wake-up is lost for good by panics, cancellations, restarts and
\* statements that fail.
DueTaskStarts ==
    \A t \in Tasks : t \in DueTasks ~> t \notin DueTasks \/ \E h \in Live : runTask[h] = t

\* As the description of pause_task has it: a paused task is not started or made active
\* again by anything but a resume.
PausedUntilResumed ==
    [][\A t \in Tasks :
         status[t] = "paused" /\ status'[t] \in {"active", "running"}
             => ResumeTask(t) \/ UpdateTask(t)]_vars

-----------------------------------------------------------------------------
(* Refinement *)

\* The row stands for the task ...
TaskOfRow ==
    [t \in Tasks |-> IF status[t] = "unborn" THEN "unborn"
                     ELSE IF status[t] = "deleted" THEN "gone" ELSE "listed"]

\* ... a next_run that has passed for the occurrence it is owed ...
OwedByRow == [t \in Tasks |-> nextRun[t] = "due"]

\* ... and its place in the batch, or the tokio task that carries it out, for its run.
RunOfTask ==
    [t \in Tasks |-> IF t \in batch THEN "queued"
                     ELSE IF \E h \in Live : runTask[h] = t THEN "running" ELSE "idle"]

Registry == INSTANCE TaskRegistry WITH
    Limit <- MaxConcurrent, task <- TaskOfRow, owed <- OwedByRow, run <- RunOfTask

\* The scheduler does what its abstract specification promises: through pauses, deletions,
\* restarts, panics and failing statements, no occurrence is lost but by the end of a run
\* of its own task, none is queued that is not owed, and batches do not mix.
ImplementsRegistry == Registry!Spec
=============================================================================
