--------------------------- MODULE SchedulerProofs ---------------------------
(***************************************************************************)
(* Proofs about the scheduler, for every set of tasks and of handles, every *)
(* max_concurrent_tasks and any number of restarts.  The inductive          *)
(* invariant is IInv; its conjuncts are the safety properties and the three *)
(* facts they rest on: nothing is in flight between two polls, permits and  *)
(* live runs add up, and what is queued or live was once inserted.          *)
(***************************************************************************)
EXTENDS Scheduler, FiniteSetTheorems, TLAPS

USE DEF rows, poller, workers

-----------------------------------------------------------------------------
(* The runs that hold a permit *)

\* Live is a finite set of handles: its cardinality is a natural number.
LEMMA LiveIsFinite == IsFiniteSet(Live) /\ Cardinality(Live) \in Nat
  BY SchedulerAssumption, FS_Subset, FS_CardinalityType DEF Live

\* Spawning on a free handle adds one live run.
LEMMA LiveGrows ==
  ASSUME NEW h \in Handles, TypeOK, phase[h] = "free",
         phase' = [phase EXCEPT ![h] = "spawned"]
  PROVE  Live' = Live \cup {h} /\ Cardinality(Live') = Cardinality(Live) + 1
<1>1. Live' = Live \cup {h} /\ h \notin Live
  BY DEF Live, TypeOK
<1>. QED
  BY <1>1, LiveIsFinite, FS_AddElement

\* A run that returns or panics is not live any more.
LEMMA LiveShrinks ==
  ASSUME NEW h \in Live, TypeOK,
         phase' = [phase EXCEPT ![h] = "finished"]
  PROVE  /\ Live' = Live \ {h}
         /\ Cardinality(Live') = Cardinality(Live) - 1
         /\ Cardinality(Live) \in Nat \ {0}
<1>1. Live' = Live \ {h} /\ h \in Live
  BY DEF Live, TypeOK
<1>2. Cardinality(Live') = Cardinality(Live) - 1
  BY <1>1, LiveIsFinite, FS_RemoveElement
<1>3. Cardinality(Live) # 0
  BY <1>1, LiveIsFinite, FS_EmptySet
<1>. QED
  BY <1>1, <1>2, <1>3, LiveIsFinite

\* A run that goes on to its next stage stays live.
LEMMA LiveStays ==
  ASSUME NEW h \in Live, TypeOK, NEW p \in {"agent", "recording"},
         phase' = [phase EXCEPT ![h] = p]
  PROVE  Live' = Live
  BY DEF Live, TypeOK

\* No run is live when every handle is free.
LEMMA AllFree ==
  ASSUME \A h \in Handles : phase[h] = "free"
  PROVE  Live = {} /\ Cardinality(Live) = 0
<1>1. Live = {}
  BY DEF Live
<1>. QED
  BY <1>1, FS_EmptySet

-----------------------------------------------------------------------------
(* Steps that preserve the inductive invariant *)

\* A step that leaves the rows and the loop's work alone, as TimerFires or a notification.
LEMMA Unrelated ==
  ASSUME IInv, TypeOK', UNCHANGED <<rows, batch, permits, workers>>,
         loop' = loop \/ (loop \in {"polling", "waiting"} /\ loop' \in {"polling", "waiting"}),
         WakeupNotLost'
  PROVE  IInv'
<1>. USE DEF IInv
<1>1. Live' = Live
  BY DEF Live
<1>2. LoopIsQuiet' /\ PermitsAccounted' /\ RunsAreIssued'
  BY <1>1 DEF LoopIsQuiet, PermitsAccounted, RunsAreIssued
<1>3. NoOverlappingRuns' /\ RunsAreOwed' /\ LogsBelongToTasks'
  BY <1>1 DEF NoOverlappingRuns, RunsAreOwed, LogsBelongToTasks, Exists, NoRow
<1>. QED
  BY <1>2, <1>3

\* get_due_tasks answers with rows, and the loop takes them up.
LEMMA PollPreserves == IInv /\ Poll => IInv'
<1>. SUFFICES ASSUME IInv, Poll PROVE IInv'
  OBVIOUS
<1>. USE DEF IInv
<1>1. TypeOK'
  BY SchedulerAssumption DEF TypeOK, Poll, DueTasks
<1>2. Live = {} /\ Live' = {} /\ Cardinality(Live') = 0
  BY AllFree DEF Poll, LoopIsQuiet, Live
<1>3. LoopIsQuiet'
  BY DEF Poll, LoopIsQuiet
<1>4. PermitsAccounted'
  BY <1>2, SchedulerAssumption DEF Poll, PermitsAccounted
<1>5. batch' = {} \/ batch' = DueTasks
  BY DEF Poll, LoopIsQuiet
<1>6. RunsAreIssued'
  BY <1>2, <1>5 DEF Poll, RunsAreIssued, DueTasks, TypeOK
<1>7. NoOverlappingRuns'
  BY <1>2 DEF NoOverlappingRuns
<1>8. RunsAreOwed'
  BY <1>2, <1>5 DEF Poll, RunsAreOwed, DueTasks
<1>9. LogsBelongToTasks' /\ WakeupNotLost'
  BY DEF Poll, LogsBelongToTasks, WakeupNotLost, Exists, NoRow
<1>. QED
  BY <1>1, <1>3, <1>4, <1>6, <1>7, <1>8, <1>9

\* The for loop moves a task from the batch to a handle, with a permit.
LEMMA DispatchPreserves ==
  ASSUME IInv, NEW t \in Tasks, NEW h \in Handles, Dispatch(t, h)
  PROVE  IInv'
<1>. USE DEF IInv
<1>1. TypeOK'
  BY SchedulerAssumption DEF TypeOK, Dispatch, Phases
<1>2. Live' = Live \cup {h} /\ Cardinality(Live') = Cardinality(Live) + 1 /\ h \notin Live
  BY LiveGrows DEF Dispatch, Live
<1>3. /\ runTask'[h] = t
      /\ \A g \in Live : runTask'[g] = runTask[g] /\ runTask[g] # t
      /\ batch' = batch \ {t}
      /\ t \in batch
  BY <1>2 DEF Dispatch, TypeOK, NoOverlappingRuns, Live
<1>4. LoopIsQuiet'
  BY DEF Dispatch, LoopIsQuiet
<1>5. PermitsAccounted'
  BY <1>2, LiveIsFinite, SchedulerAssumption DEF Dispatch, PermitsAccounted, TypeOK
<1>6. RunsAreIssued'
  BY <1>2, <1>3 DEF Dispatch, RunsAreIssued
<1>7. NoOverlappingRuns'
  BY <1>2, <1>3 DEF NoOverlappingRuns
<1>8. RunsAreOwed'
  BY <1>2, <1>3 DEF Dispatch, RunsAreOwed, Exists, NoRow
<1>9. LogsBelongToTasks' /\ WakeupNotLost'
  BY DEF Dispatch, LogsBelongToTasks, WakeupNotLost, Exists, NoRow
<1>. QED
  BY <1>1, <1>4, <1>5, <1>6, <1>7, <1>8, <1>9

\* join_all: the whole batch has returned or panicked.
LEMMA JoinAllPreserves == IInv /\ JoinAll => IInv'
<1>. SUFFICES ASSUME IInv, JoinAll PROVE IInv'
  OBVIOUS
<1>. USE DEF IInv
<1>1. TypeOK'
  BY DEF TypeOK, JoinAll, Phases
<1>2. Live' = {} /\ batch' = {}
  BY DEF JoinAll, LoopIsQuiet, Live
<1>3. LoopIsQuiet' /\ PermitsAccounted'
  BY <1>2 DEF JoinAll, LoopIsQuiet, PermitsAccounted
<1>4. RunsAreIssued' /\ NoOverlappingRuns' /\ RunsAreOwed'
  BY <1>2 DEF RunsAreIssued, NoOverlappingRuns, RunsAreOwed
<1>5. LogsBelongToTasks' /\ WakeupNotLost'
  BY DEF JoinAll, LogsBelongToTasks, WakeupNotLost, Exists, NoRow
<1>. QED
  BY <1>1, <1>3, <1>4, <1>5

\* set_task_running and the return of the agent: the run keeps its permit, the row keeps
\* its next_run and is not made to exist.
LEMMA RunGoesOnPreserves ==
  ASSUME IInv, NEW h \in Handles, SetTaskRunning(h) \/ AgentReturns(h)
  PROVE  IInv'
<1>. USE DEF IInv
<1>1. h \in Live /\ runTask[h] \in Tasks
  BY DEF SetTaskRunning, AgentReturns, Live, RunsAreIssued
<1>2. /\ UNCHANGED <<nextRun, logged, loop, batch, permits, runTask, notified, unnotified, unseen>>
      /\ \/ phase' = [phase EXCEPT ![h] = "agent"]
         \/ phase' = [phase EXCEPT ![h] = "recording"]
      /\ \/ UNCHANGED status
         \/ Exists(runTask[h]) /\ status' = [status EXCEPT ![runTask[h]] = "running"]
  BY DEF SetTaskRunning, AgentReturns
<1>3. TypeOK'
  BY <1>1, <1>2 DEF TypeOK, SetTaskRunning, AgentReturns, Phases, Statuses
<1>4. Live' = Live
  BY <1>1, <1>2, LiveStays
<1>5. \A t \in Tasks : /\ Exists(t)' <=> Exists(t)
                       /\ status'[t] = "unborn" <=> status[t] = "unborn"
  BY <1>1, <1>2 DEF TypeOK, Exists, NoRow
<1>6. LoopIsQuiet' /\ PermitsAccounted'
  BY <1>1, <1>2, <1>4 DEF LoopIsQuiet, PermitsAccounted, Live
<1>7. RunsAreIssued'
  BY <1>2, <1>4, <1>5 DEF RunsAreIssued, TypeOK
<1>8. NoOverlappingRuns'
  BY <1>2, <1>4 DEF NoOverlappingRuns
<1>9. RunsAreOwed'
  BY <1>2, <1>4, <1>5 DEF RunsAreOwed
<1>10. LogsBelongToTasks' /\ WakeupNotLost'
  BY <1>2, <1>5 DEF LogsBelongToTasks, WakeupNotLost, TypeOK
<1>. QED
  BY <1>3, <1>6, <1>7, <1>8, <1>9, <1>10

\* What a run that ends does to the rows: only its own task is touched, no row comes or
\* goes, and a log is written only for a row that is there.
LEMMA RecordTouchesOwnTask ==
  ASSUME IInv, NEW h \in Handles, RecordRun(h)
  PROVE  /\ h \in Live /\ runTask[h] \in Tasks
         /\ \A t \in Tasks : /\ Exists(t)' <=> Exists(t)
                             /\ status'[t] = "unborn" <=> status[t] = "unborn"
                             /\ t # runTask[h] => nextRun'[t] = nextRun[t]
         /\ status' \in [Tasks -> Statuses \cup NoRow]
         /\ nextRun' \in [Tasks -> Schedules]
         /\ \A t \in logged' : t \in logged \/ (t = runTask[h] /\ Exists(t))
<1>. USE DEF IInv
<1>1. h \in Live /\ runTask[h] \in Tasks
  BY DEF RecordRun, Live, RunsAreIssued
<1>2. \/ /\ Exists(runTask[h])
         /\ \E n \in Schedules : nextRun' = [nextRun EXCEPT ![runTask[h]] = n]
         /\ status' = [status EXCEPT ![runTask[h]] = "active"]
      \/ UNCHANGED <<status, nextRun>>
  BY DEF RecordRun, UpdateTaskAfterRun, NextRunAfter, Schedules
<1>3. \A t \in logged' : t \in logged \/ (t = runTask[h] /\ Exists(t))
  BY DEF RecordRun, LogTaskRun
<1>4. \A t \in Tasks : /\ Exists(t)' <=> Exists(t)
                       /\ status'[t] = "unborn" <=> status[t] = "unborn"
                       /\ t # runTask[h] => nextRun'[t] = nextRun[t]
  BY <1>1, <1>2 DEF TypeOK, Exists, NoRow
<1>5. status' \in [Tasks -> Statuses \cup NoRow] /\ nextRun' \in [Tasks -> Schedules]
  BY <1>1, <1>2 DEF TypeOK, Statuses
<1>. QED
  BY <1>1, <1>3, <1>4, <1>5

\* A run ends, recorded or in a panic, and gives its permit back.
LEMMA RunEndsPreserves ==
  ASSUME IInv, NEW h \in Handles, RecordRun(h) \/ RunPanics(h)
  PROVE  IInv'
<1>. USE DEF IInv
<1>1. h \in Live /\ runTask[h] \in Tasks
  BY DEF RecordRun, RunPanics, Live, RunsAreIssued
<1>2. /\ UNCHANGED <<loop, batch, runTask, notified, unnotified, crashes, unseen>>
      /\ phase' = [phase EXCEPT ![h] = "finished"]
      /\ permits' = permits + 1
  BY DEF RecordRun, RunPanics
<1>3. /\ \A t \in Tasks : /\ Exists(t)' <=> Exists(t)
                          /\ status'[t] = "unborn" <=> status[t] = "unborn"
                          /\ t # runTask[h] => nextRun'[t] = nextRun[t]
      /\ status' \in [Tasks -> Statuses \cup NoRow]
      /\ nextRun' \in [Tasks -> Schedules]
      /\ \A t \in logged' : t \in logged \/ (t = runTask[h] /\ Exists(t))
  <2>1. CASE RecordRun(h)
    BY <2>1, RecordTouchesOwnTask
  <2>2. CASE RunPanics(h)
    BY <2>2 DEF RunPanics, TypeOK, Exists, NoRow
  <2>. QED
    BY <2>1, <2>2
<1>4. /\ Live' = Live \ {h}
      /\ Cardinality(Live') = Cardinality(Live) - 1
      /\ Cardinality(Live) \in Nat \ {0}
  BY <1>1, <1>2, LiveShrinks
<1>5. loop \in {"dispatching", "joining"}
  BY <1>1 DEF LoopIsQuiet, TypeOK, Live
<1>6. permits + 1 \in 0..MaxConcurrent /\ PermitsAccounted'
  BY <1>2, <1>4, <1>5, SchedulerAssumption DEF PermitsAccounted, TypeOK
<1>7. TypeOK'
  BY <1>1, <1>2, <1>3, <1>6 DEF TypeOK, Phases
<1>8. LoopIsQuiet'
  BY <1>2, <1>5 DEF LoopIsQuiet
<1>9. RunsAreIssued'
  BY <1>2, <1>3, <1>4 DEF RunsAreIssued, TypeOK
<1>10. NoOverlappingRuns'
  BY <1>2, <1>4 DEF NoOverlappingRuns
<1>11. RunsAreOwed'
  <2>1. runTask[h] \notin batch /\ \A g \in Live' : runTask[g] # runTask[h]
    BY <1>1, <1>4 DEF NoOverlappingRuns
  <2>. QED
    BY <1>2, <1>3, <1>4, <2>1 DEF RunsAreOwed
<1>12. LogsBelongToTasks' /\ WakeupNotLost'
  BY <1>1, <1>2, <1>3 DEF LogsBelongToTasks, WakeupNotLost, TypeOK
<1>. QED
  BY <1>6, <1>7, <1>8, <1>9, <1>10, <1>11, <1>12

-----------------------------------------------------------------------------
(* Requests, the clock and restarts *)

\* A request or the clock changes rows and wake-ups only, so the runs are the same.
LEMMA InsertPreserves ==
  ASSUME IInv, NEW t \in Tasks, NEW n \in Schedules, InsertRow(t, n)
  PROVE  IInv'
<1>. USE DEF IInv
<1>1. TypeOK'
  BY DEF TypeOK, InsertRow, Statuses
<1>2. Live' = Live
  BY DEF InsertRow, Live
<1>3. t \notin batch /\ \A h \in Live : runTask[h] # t
  BY DEF InsertRow, RunsAreIssued
<1>4. \A u \in Tasks : u # t => /\ Exists(u)' <=> Exists(u)
                                /\ status'[u] = status[u]
                                /\ nextRun'[u] = nextRun[u]
  BY DEF InsertRow, TypeOK, Exists, NoRow
<1>5. t \notin logged
  BY DEF InsertRow, LogsBelongToTasks, Exists, NoRow
<1>6. LoopIsQuiet' /\ PermitsAccounted' /\ NoOverlappingRuns'
  BY <1>2 DEF InsertRow, LoopIsQuiet, PermitsAccounted, NoOverlappingRuns
<1>7. RunsAreIssued' /\ RunsAreOwed'
  BY <1>2, <1>3, <1>4 DEF InsertRow, RunsAreIssued, RunsAreOwed, TypeOK
<1>8. LogsBelongToTasks'
  BY <1>4, <1>5 DEF InsertRow, LogsBelongToTasks, TypeOK
<1>9. WakeupNotLost'
  BY DEF InsertRow, WakeupNotLost
<1>. QED
  BY <1>1, <1>6, <1>7, <1>8, <1>9

\* Pausing, resuming and PATCH write the status of an existing row, whatever its run does.
LEMMA UpdateStatusPreserves ==
  ASSUME IInv, NEW t \in Tasks, NEW s \in Statuses, UpdateTaskStatus(t, s)
  PROVE  IInv'
<1>. USE DEF IInv
<1>1. TypeOK'
  BY DEF TypeOK, UpdateTaskStatus
<1>2. Live' = Live
  BY DEF UpdateTaskStatus, Live
<1>3. \A u \in Tasks : /\ Exists(u)' <=> Exists(u)
                       /\ status'[u] = "unborn" <=> status[u] = "unborn"
  BY DEF UpdateTaskStatus, TypeOK, Exists, NoRow, Statuses
<1>4. LoopIsQuiet' /\ PermitsAccounted' /\ NoOverlappingRuns'
  BY <1>2 DEF UpdateTaskStatus, LoopIsQuiet, PermitsAccounted, NoOverlappingRuns
<1>5. RunsAreIssued' /\ RunsAreOwed'
  BY <1>2, <1>3 DEF UpdateTaskStatus, RunsAreIssued, RunsAreOwed, TypeOK
<1>6. LogsBelongToTasks' /\ WakeupNotLost'
  BY <1>3 DEF UpdateTaskStatus, LogsBelongToTasks, WakeupNotLost, TypeOK
<1>. QED
  BY <1>1, <1>4, <1>5, <1>6

\* Deleting removes the logs with the row, or leaves the row when the second DELETE fails.
LEMMA DeletePreserves ==
  ASSUME IInv, NEW t \in Tasks, DeleteTask(t)
  PROVE  IInv'
<1>. USE DEF IInv
<1>1. TypeOK'
  BY DEF TypeOK, DeleteTask, NoRow, Schedules
<1>2. Live' = Live
  BY DEF DeleteTask, Live
<1>3. \A u \in Tasks : /\ Exists(u)' => Exists(u) /\ nextRun'[u] = nextRun[u]
                       /\ status'[u] = "unborn" <=> status[u] = "unborn"
                       /\ u # t => (Exists(u)' <=> Exists(u))
  BY DEF DeleteTask, TypeOK, Exists, NoRow
<1>4. LoopIsQuiet' /\ PermitsAccounted' /\ NoOverlappingRuns'
  BY <1>2 DEF DeleteTask, LoopIsQuiet, PermitsAccounted, NoOverlappingRuns
<1>5. RunsAreIssued' /\ RunsAreOwed'
  BY <1>2, <1>3 DEF DeleteTask, RunsAreIssued, RunsAreOwed, TypeOK
<1>6. LogsBelongToTasks' /\ WakeupNotLost'
  BY <1>3 DEF DeleteTask, LogsBelongToTasks, WakeupNotLost, TypeOK
<1>. QED
  BY <1>1, <1>4, <1>5, <1>6

\* A row that is owed a run is due already, so the clock disturbs no run.
LEMMA ComesDuePreserves ==
  ASSUME IInv, NEW t \in Tasks, ComesDue(t)
  PROVE  IInv'
<1>. USE DEF IInv
<1>1. TypeOK'
  BY DEF TypeOK, ComesDue, Schedules
<1>2. Live' = Live
  BY DEF ComesDue, Live
<1>3. \A u \in Tasks : /\ Exists(u)' <=> Exists(u)
                       /\ nextRun[u] = "due" => nextRun'[u] = "due"
  BY DEF ComesDue, TypeOK, Exists, NoRow
<1>4. LoopIsQuiet' /\ PermitsAccounted' /\ NoOverlappingRuns'
  BY <1>2 DEF ComesDue, LoopIsQuiet, PermitsAccounted, NoOverlappingRuns
<1>5. RunsAreIssued' /\ RunsAreOwed'
  BY <1>2, <1>3 DEF ComesDue, RunsAreIssued, RunsAreOwed
<1>6. LogsBelongToTasks' /\ WakeupNotLost'
  BY <1>3 DEF ComesDue, LogsBelongToTasks, WakeupNotLost, TypeOK
<1>. QED
  BY <1>1, <1>4, <1>5, <1>6

\* Nothing but the rows survives, and of a poll nothing is left.
LEMMA RestartPreserves == IInv /\ Restart => IInv'
<1>. SUFFICES ASSUME IInv, Restart PROVE IInv'
  OBVIOUS
<1>. USE DEF IInv
<1>1. TypeOK'
  <2>1. permits' \in 0..MaxConcurrent /\ crashes' \in 0..MaxCrashes
    BY SchedulerAssumption DEF TypeOK, Restart
  <2>. QED
    BY <2>1 DEF TypeOK, Restart, Phases
<1>2. Live' = {} /\ batch' = {}
  BY DEF Restart, Live
<1>3. LoopIsQuiet' /\ PermitsAccounted'
  BY DEF Restart, LoopIsQuiet, PermitsAccounted
<1>4. RunsAreIssued' /\ NoOverlappingRuns' /\ RunsAreOwed'
  BY <1>2 DEF RunsAreIssued, NoOverlappingRuns, RunsAreOwed
<1>5. LogsBelongToTasks' /\ WakeupNotLost'
  BY DEF Restart, LogsBelongToTasks, WakeupNotLost, Exists, NoRow
<1>. QED
  BY <1>1, <1>3, <1>4, <1>5

-----------------------------------------------------------------------------
(* The theorems *)

\* The empty database and the idle loop satisfy the inductive invariant.
LEMMA InitEstablishes == Init => IInv
<1>. SUFFICES ASSUME Init PROVE IInv
  OBVIOUS
<1>1. permits \in 0..MaxConcurrent /\ crashes \in 0..MaxCrashes
  BY SchedulerAssumption DEF Init
<1>2. TypeOK
  BY <1>1 DEF Init, TypeOK, NoRow, Schedules, Phases
<1>3. Live = {} /\ batch = {} /\ logged = {} /\ loop = "polling"
  BY DEF Init, Live
<1>4. LoopIsQuiet /\ PermitsAccounted /\ RunsAreIssued
  BY <1>3 DEF Init, LoopIsQuiet, PermitsAccounted, RunsAreIssued
<1>5. NoOverlappingRuns /\ RunsAreOwed /\ LogsBelongToTasks /\ WakeupNotLost
  BY <1>3 DEF NoOverlappingRuns, RunsAreOwed, LogsBelongToTasks, WakeupNotLost
<1>. QED
  BY <1>2, <1>4, <1>5 DEF IInv

\* Every step preserves the inductive invariant: one case per action of Next.
LEMMA NextPreserves == IInv /\ [Next]_vars => IInv'
<1>. SUFFICES ASSUME IInv, [Next]_vars PROVE IInv'
  OBVIOUS
<1>1. CASE Poll
  BY <1>1, PollPreserves
<1>2. CASE PollFails \/ TimerFires \/ WokenByNotify
  <2>1. UNCHANGED <<rows, batch, permits, workers, unnotified, crashes>>
    BY <1>2 DEF PollFails, TimerFires, WokenByNotify
  <2>2. loop \in {"polling", "waiting"} /\ loop' \in {"polling", "waiting"}
    BY <1>2 DEF PollFails, TimerFires, WokenByNotify
  <2>3. TypeOK'
    BY <1>2, <2>1 DEF IInv, TypeOK, PollFails, TimerFires, WokenByNotify
  <2>4. WakeupNotLost'
    BY <1>2 DEF WakeupNotLost, PollFails, TimerFires, WokenByNotify
  <2>. QED
    BY <2>1, <2>2, <2>3, <2>4, Unrelated
<1>3. CASE \E t \in Tasks, h \in Handles : Dispatch(t, h)
  BY <1>3, DispatchPreserves
<1>4. CASE JoinAll
  BY <1>4, JoinAllPreserves
<1>5. CASE \E h \in Handles : WorkerStep(h)
  BY <1>5, RunGoesOnPreserves, RunEndsPreserves DEF WorkerStep
<1>6. ASSUME NEW t \in Tasks, OperatorStep(t) PROVE IInv'
  <2>1. CASE InsertTask(t)
    BY <2>1, InsertPreserves
       DEF InsertTask, CreateTask, ScheduleTask, RunBackground, InitialNextRun, NextRunOfTool,
           Schedules
  <2>2. CASE NotifyNewTask(t)
    <3>1. UNCHANGED <<rows, batch, permits, workers, loop>>
      BY <2>2 DEF NotifyNewTask
    <3>2. TypeOK' /\ WakeupNotLost'
      BY <2>2 DEF IInv, NotifyNewTask, TypeOK, WakeupNotLost
    <3>. QED
      BY <3>1, <3>2, Unrelated
  <2>3. CASE PauseTask(t) \/ ResumeTask(t) \/ UpdateTask(t)
    BY <2>3, UpdateStatusPreserves DEF PauseTask, ResumeTask, UpdateTask, Statuses
  <2>4. CASE DeleteTask(t)
    BY <2>4, DeletePreserves
  <2>. QED
    BY <1>6, <2>1, <2>2, <2>3, <2>4 DEF OperatorStep
<1>7. CASE \E t \in Tasks : ComesDue(t)
  BY <1>7, ComesDuePreserves
<1>8. CASE Restart
  BY <1>8, RestartPreserves
<1>9. CASE UNCHANGED vars
  <2>1. TypeOK' /\ WakeupNotLost'
    BY <1>9 DEF vars, IInv, TypeOK, WakeupNotLost
  <2>. QED
    BY <1>9, <2>1, Unrelated DEF vars
<1>. QED
  BY <1>1, <1>2, <1>3, <1>4, <1>5, <1>6, <1>7, <1>8, <1>9 DEF Next, LoopStep

\* The inductive invariant holds throughout.
THEOREM Invariance == Spec => []IInv
  BY InitEstablishes, NextPreserves, PTL DEF Spec

\* Every variable keeps its type; in particular, no permit is ever returned twice.
THEOREM TypeCorrect == Spec => []TypeOK
<1>1. IInv => TypeOK
  BY DEF IInv
<1>. QED
  BY <1>1, Invariance, PTL

\* The runs of the scheduler never exceed max_concurrent_tasks.
THEOREM NeverTooManyRuns == Spec => []ConcurrencyLimit
<1>1. IInv => ConcurrencyLimit
  <2>. SUFFICES ASSUME IInv PROVE Cardinality(Live) <= MaxConcurrent
    BY DEF ConcurrencyLimit
  <2>1. CASE loop \in {"polling", "waiting"}
    BY <2>1, AllFree, SchedulerAssumption DEF IInv, LoopIsQuiet
  <2>2. CASE loop \in {"dispatching", "joining"}
    BY <2>2, LiveIsFinite, SchedulerAssumption DEF IInv, TypeOK, PermitsAccounted
  <2>. QED
    BY <2>1, <2>2 DEF IInv, TypeOK
<1>. QED
  BY <1>1, Invariance, PTL

\* No task is executed twice at a time, however often it is rescheduled, resumed or
\* deleted meanwhile.
THEOREM OneRunPerTask == Spec => []NoOverlappingRuns
<1>1. IInv => NoOverlappingRuns
  BY DEF IInv
<1>. QED
  BY <1>1, Invariance, PTL

\* No occurrence of a task is executed again after it was recorded.
THEOREM OccurrencesRunOnce == Spec => []RunsAreOwed
<1>1. IInv => RunsAreOwed
  BY DEF IInv
<1>. QED
  BY <1>1, Invariance, PTL

\* There is no log without its task, and no wake-up is lost.
THEOREM LogsAndWakeups == Spec => [](LogsBelongToTasks /\ WakeupNotLost)
<1>1. IInv => LogsBelongToTasks /\ WakeupNotLost
  BY DEF IInv
<1>. QED
  BY <1>1, Invariance, PTL

-----------------------------------------------------------------------------
(* What no step does *)

\* The status of a task is written by requests about it and by its own run only.
LEMMA WhoWritesStatus ==
  ASSUME IInv, [Next]_vars, NEW t \in Tasks, status'[t] # status[t]
  PROVE  \/ OperatorStep(t)
         \/ /\ \E h \in Live : runTask[h] = t
            /\ Exists(t)
            /\ status'[t] # "deleted"
<1>. USE DEF IInv
<1>1. CASE LoopStep
  BY <1>1 DEF LoopStep, Poll, PollFails, Dispatch, JoinAll, TimerFires, WokenByNotify
<1>2. CASE \E h \in Handles : WorkerStep(h)
  <2>1. PICK h \in Handles : WorkerStep(h)
    BY <1>2
  <2>2. h \in Live
    BY <2>1 DEF WorkerStep, SetTaskRunning, AgentReturns, RunPanics, RecordRun, Live
  <2>3. \/ UNCHANGED status
        \/ /\ Exists(runTask[h])
           /\ \E s \in {"running", "active"} : status' = [status EXCEPT ![runTask[h]] = s]
    BY <2>1 DEF WorkerStep, SetTaskRunning, AgentReturns, RunPanics, RecordRun,
                UpdateTaskAfterRun
  <2>. QED
    BY <2>2, <2>3 DEF TypeOK
<1>3. CASE \E u \in Tasks : OperatorStep(u)
  <2>1. PICK u \in Tasks : OperatorStep(u)
    BY <1>3
  <2>2. u # t => status'[t] = status[t]
    BY <2>1 DEF OperatorStep, InsertTask, CreateTask, ScheduleTask, RunBackground, InsertRow,
                NotifyNewTask, PauseTask, ResumeTask, UpdateTask,
                UpdateTaskStatus, DeleteTask, TypeOK
  <2>. QED
    BY <2>1, <2>2
<1>4. CASE (\E u \in Tasks : ComesDue(u)) \/ Restart \/ UNCHANGED vars
  BY <1>4 DEF ComesDue, Restart, vars
<1>. QED
  BY <1>1, <1>2, <1>3, <1>4 DEF Next

\* A deleted task is never brought back, by no request and by no run that was under way
\* when it was deleted.
THEOREM DeletedForGood == Spec => DeletedStaysDeleted
<1>1. IInv /\ [Next]_vars =>
         [\A t \in Tasks : status[t] = "deleted" => status'[t] = "deleted"]_vars
  <2>. SUFFICES ASSUME IInv, [Next]_vars, NEW t \in Tasks,
                       status[t] = "deleted", status'[t] # "deleted"
                PROVE  FALSE
    OBVIOUS
  <2>1. OperatorStep(t)
    BY WhoWritesStatus DEF Exists, NoRow
  <2>. QED
    BY <2>1 DEF OperatorStep, InsertTask, CreateTask, ScheduleTask, RunBackground, InsertRow,
                NotifyNewTask, PauseTask, ResumeTask, UpdateTask,
                UpdateTaskStatus, DeleteTask, Exists, NoRow
<1>. QED
  BY <1>1, Invariance, PTL DEF Spec, DeletedStaysDeleted

\* A paused row, or one a crash or a panic left 'running', is neither started nor changed
\* but by a request about it.
THEOREM InactiveStaysPut == Spec => InactiveNeedsOperator
<1>1. IInv /\ [Next]_vars =>
         [\A t \in Tasks :
            Idle(t) /\ status[t] # "active" =>
                /\ Idle(t)'
                /\ status'[t] # status[t] => OperatorStep(t)]_vars
  <2>. SUFFICES ASSUME IInv, [Next]_vars, NEW t \in Tasks, Idle(t), status[t] # "active"
                PROVE  /\ Idle(t)'
                       /\ status'[t] # status[t] => OperatorStep(t)
    OBVIOUS
  <2>1. status'[t] # status[t] => OperatorStep(t)
    BY WhoWritesStatus DEF Idle
  <2>2. t \notin batch'
    <3>1. batch' \subseteq batch \cup DueTasks
      BY DEF Next, LoopStep, Poll, PollFails, Dispatch, JoinAll, TimerFires, WokenByNotify,
             WorkerStep, SetTaskRunning, AgentReturns, RunPanics, RecordRun,
             OperatorStep, InsertTask, CreateTask, ScheduleTask, RunBackground, InsertRow,
             NotifyNewTask, PauseTask, ResumeTask, UpdateTask,
             UpdateTaskStatus, DeleteTask, ComesDue, Restart, vars
    <3>. QED
      BY <3>1 DEF Idle, DueTasks
  <2>3. \A h \in Live' : runTask'[h] # t
    <3>1. CASE \E u \in Tasks, g \in Handles : Dispatch(u, g)
      <4>1. PICK u \in Tasks, g \in Handles : Dispatch(u, g)
        BY <3>1
      <4>2. u # t /\ Live' = Live \cup {g} /\ runTask' = [runTask EXCEPT ![g] = u]
        BY <4>1, LiveGrows DEF Dispatch, Idle, IInv
      <4>. QED
        BY <4>2 DEF Idle, IInv, TypeOK, Live
    <3>2. CASE JoinAll \/ Restart
      BY <3>2 DEF JoinAll, Restart, Live
    <3>3. CASE \E h \in Handles : WorkerStep(h)
      <4>1. PICK h \in Handles : WorkerStep(h)
        BY <3>3
      <4>2. UNCHANGED runTask /\ h \in Live
        BY <4>1 DEF WorkerStep, SetTaskRunning, AgentReturns, RunPanics, RecordRun, Live
      <4>3. Live' \subseteq Live
        BY <4>1, <4>2, LiveStays, LiveShrinks
           DEF WorkerStep, SetTaskRunning, AgentReturns, RunPanics, RecordRun, IInv
      <4>. QED
        BY <4>2, <4>3 DEF Idle
    <3>4. CASE UNCHANGED workers
      BY <3>4 DEF Idle, Live
    <3>. QED
      BY <3>1, <3>2, <3>3, <3>4
         DEF Next, LoopStep, Poll, PollFails, TimerFires, WokenByNotify,
             OperatorStep, InsertTask, CreateTask, ScheduleTask, RunBackground, InsertRow,
             NotifyNewTask, PauseTask, ResumeTask, UpdateTask,
             UpdateTaskStatus, DeleteTask, ComesDue, vars
  <2>. QED
    BY <2>1, <2>2, <2>3 DEF Idle
<1>. QED
  BY <1>1, Invariance, PTL DEF Spec, InactiveNeedsOperator

-----------------------------------------------------------------------------
(* The refinement of TaskRegistry *)

\* The abstract variables at a task.
LEMMA Mapping ==
  ASSUME NEW t \in Tasks
  PROVE  /\ TaskOfRow[t] = IF status[t] = "unborn" THEN "unborn"
                           ELSE IF status[t] = "deleted" THEN "gone" ELSE "listed"
         /\ OwedByRow[t] = (nextRun[t] = "due")
         /\ RunOfTask[t] = IF t \in batch THEN "queued"
                           ELSE IF \E h \in Live : runTask[h] = t THEN "running" ELSE "idle"
<1>1. OwedByRow[t] = (nextRun[t] = "due")
  BY Zenon DEF OwedByRow
<1>. QED
  BY <1>1 DEF TaskOfRow, RunOfTask

\* What an abstract variable is after a step, in terms of what the step does to the rows
\* and the runs.
LEMMA SameRows == UNCHANGED <<status, nextRun>> => UNCHANGED <<TaskOfRow, OwedByRow>>
  BY DEF TaskOfRow, OwedByRow

LEMMA SameRuns == UNCHANGED <<batch, workers>> => UNCHANGED RunOfTask
  BY DEF RunOfTask, Live

\* The tasks that run are not more than the runs: each has a handle of its own.
LEMMA RunningTasksAreFew ==
  ASSUME IInv
  PROVE  LET R == {u \in Tasks : RunOfTask[u] = "running"}
         IN  Cardinality(R) \in Nat /\ Cardinality(R) <= Cardinality(Live)
<1>. DEFINE R == {u \in Tasks : RunOfTask[u] = "running"}
            T == {runTask[h] : h \in Live}
            f == [h \in Live |-> runTask[h]]
<1>1. IsFiniteSet(T) /\ Cardinality(T) <= Cardinality(Live)
  <2>1. f \in Surjection(Live, T)
    BY DEF Surjection
  <2>. QED
    BY <2>1, LiveIsFinite, FS_Surjection
<1>2. R \subseteq T
  BY Mapping
<1>3. IsFiniteSet(R) /\ Cardinality(R) <= Cardinality(T)
  BY <1>1, <1>2, FS_Subset
<1>4. Cardinality(R) \in Nat /\ Cardinality(T) \in Nat
  BY <1>1, <1>3, FS_CardinalityType
<1>. HIDE DEF R, T
<1>5. Cardinality(R) \in Nat /\ Cardinality(R) <= Cardinality(Live)
  BY <1>1, <1>3, <1>4, LiveIsFinite
<1>. QED
  BY <1>5 DEF R

\* A task whose run is not listed by the step keeps its abstract run.
LEMMA RunChanges ==
  ASSUME NEW t \in Tasks, NEW v,
         IF t \in batch' THEN v = "queued"
            ELSE IF \E h \in Live' : runTask'[h] = t THEN v = "running" ELSE v = "idle",
         \A u \in Tasks : u # t =>
            /\ u \in batch' <=> u \in batch
            /\ (\E h \in Live' : runTask'[h] = u) <=> (\E h \in Live : runTask[h] = u)
  PROVE  RunOfTask' = [RunOfTask EXCEPT ![t] = v]
<1>1. RunOfTask'[t] = v
  BY DEF RunOfTask
<1>2. \A u \in Tasks : u # t => RunOfTask'[u] = RunOfTask[u]
  BY DEF RunOfTask
<1>3. RunOfTask' = [u \in Tasks |-> RunOfTask'[u]] /\ RunOfTask = [u \in Tasks |-> RunOfTask[u]]
  BY DEF RunOfTask
<1>. QED
  BY <1>1, <1>2, <1>3

\* The empty database stands for a registry without tasks.
LEMMA InitMaps == Init => Registry!Init
<1>. SUFFICES ASSUME Init PROVE Registry!Init
  OBVIOUS
<1>1. TaskOfRow = [t \in Tasks |-> "unborn"]
  BY DEF Init, TaskOfRow
<1>2. OwedByRow = [t \in Tasks |-> FALSE]
  BY DEF Init, OwedByRow
<1>3. RunOfTask = [t \in Tasks |-> "idle"]
  BY DEF Init, RunOfTask, Live
<1>. QED
  BY <1>1, <1>2, <1>3 DEF Registry!Init

\* A poll queues the tasks it found, which are all owed an occurrence; before it every run
\* is idle.
LEMMA PollMaps ==
  ASSUME IInv, Poll
  PROVE  Registry!Queue(DueTasks) \/ UNCHANGED <<TaskOfRow, OwedByRow, RunOfTask>>
<1>1. UNCHANGED <<TaskOfRow, OwedByRow>>
  BY SameRows DEF Poll
<1>2. CASE DueTasks = {}
  BY <1>1, <1>2, SameRuns DEF Poll
<1>3. CASE DueTasks # {}
  <2>1. Live = {} /\ Live' = {} /\ batch = {} /\ batch' = DueTasks
    BY <1>3, AllFree DEF Poll, IInv, LoopIsQuiet, Live
  <2>2. \A t \in Tasks : RunOfTask[t] = "idle"
    BY <2>1, Mapping
  <2>3. \A t \in DueTasks : TaskOfRow[t] = "listed" /\ OwedByRow[t]
    BY Mapping DEF DueTasks
  <2>4. RunOfTask' = [t \in Tasks |-> IF t \in DueTasks THEN "queued" ELSE "idle"]
    BY <2>1 DEF RunOfTask
  <2>. QED
    BY <1>1, <2>2, <2>3, <2>4 DEF Registry!Queue
<1>. QED
  BY <1>2, <1>3

\* A permit that is free leaves room for one more task.
LEMMA DispatchMaps ==
  ASSUME IInv, NEW t \in Tasks, NEW h \in Handles, Dispatch(t, h)
  PROVE  Registry!Start(t)
<1>1. UNCHANGED <<TaskOfRow, OwedByRow>>
  BY SameRows DEF Dispatch
<1>2. RunOfTask[t] = "queued"
  BY Mapping DEF Dispatch
<1>3. Cardinality({u \in Tasks : RunOfTask[u] = "running"}) < MaxConcurrent
  <2>1. permits + Cardinality(Live) = MaxConcurrent /\ permits > 0 /\ permits \in Nat
    BY SchedulerAssumption DEF Dispatch, IInv, TypeOK, PermitsAccounted
  <2>. QED
    BY <2>1, RunningTasksAreFew, LiveIsFinite, SchedulerAssumption
<1>4. Live' = Live \cup {h} /\ h \notin Live
  BY LiveGrows DEF Dispatch, IInv, Live
<1>5. /\ runTask'[h] = t /\ \A g \in Live : runTask'[g] = runTask[g]
      /\ batch' = batch \ {t}
  BY <1>4 DEF Dispatch, IInv, TypeOK, Live
<1>6. RunOfTask' = [RunOfTask EXCEPT ![t] = "running"]
  BY <1>4, <1>5, RunChanges
<1>7. Registry!Cardinality({u \in Tasks : RunOfTask[u] = "running"}) < MaxConcurrent
  BY <1>3 DEF Registry!Cardinality, Cardinality
<1>. QED
  BY <1>1, <1>2, <1>6, <1>7 DEF Registry!Start

\* join_all and the return of an agent change nothing that the registry knows of.
LEMMA InnerStepsMap ==
  ASSUME IInv,
         \/ JoinAll
         \/ \E h \in Handles : SetTaskRunning(h) \/ AgentReturns(h)
  PROVE  UNCHANGED <<TaskOfRow, OwedByRow, RunOfTask>>
<1>1. CASE JoinAll
  <2>1. Live = {} /\ Live' = {} /\ batch' = batch
    BY <1>1 DEF JoinAll, Live
  <2>2. UNCHANGED RunOfTask
    BY <2>1 DEF RunOfTask
  <2>. QED
    BY <1>1, <2>2, SameRows DEF JoinAll
<1>2. ASSUME NEW h \in Handles, SetTaskRunning(h) \/ AgentReturns(h)
      PROVE  UNCHANGED <<TaskOfRow, OwedByRow, RunOfTask>>
  <2>1. h \in Live /\ runTask[h] \in Tasks
    BY <1>2 DEF SetTaskRunning, AgentReturns, Live, IInv, RunsAreIssued
  <2>2. Live' = Live
    BY <1>2, <2>1, LiveStays DEF SetTaskRunning, AgentReturns, IInv
  <2>3. UNCHANGED RunOfTask
    BY <1>2, <2>2 DEF RunOfTask, SetTaskRunning, AgentReturns
  <2>4. UNCHANGED OwedByRow
    BY <1>2 DEF OwedByRow, SetTaskRunning, AgentReturns
  <2>5. UNCHANGED TaskOfRow
    <3>1. \A t \in Tasks : /\ status'[t] = "unborn" <=> status[t] = "unborn"
                           /\ status'[t] = "deleted" <=> status[t] = "deleted"
      BY <1>2, <2>1 DEF SetTaskRunning, AgentReturns, Exists, NoRow, IInv, TypeOK
    <3>. QED
      BY <3>1 DEF TaskOfRow
  <2>. QED
    BY <2>3, <2>4, <2>5
<1>. QED
  BY <1>1, <1>2

\* A run that returns or panics is the only one of its task, and takes from the task at
\* most the occurrence it was owed: RunsAreOwed.
LEMMA RunEndsMaps ==
  ASSUME IInv, NEW h \in Handles, RecordRun(h) \/ RunPanics(h)
  PROVE  Registry!End(runTask[h])
<1>. DEFINE t == runTask[h]
<1>1. h \in Live /\ t \in Tasks
  BY DEF RecordRun, RunPanics, Live, IInv, RunsAreIssued
<1>2. Live' = Live \ {h} /\ UNCHANGED <<batch, runTask>>
  BY <1>1, LiveShrinks DEF RecordRun, RunPanics, IInv
<1>3. t \notin batch /\ \A g \in Live \ {h} : runTask[g] # t
  BY <1>1 DEF IInv, NoOverlappingRuns
<1>4. RunOfTask[t] = "running"
  BY <1>1, <1>3, Mapping
<1>5. RunOfTask' = [RunOfTask EXCEPT ![t] = "idle"]
  BY <1>1, <1>2, <1>3, RunChanges
<1>6. \/ /\ Exists(t)
         /\ \E n \in Schedules : nextRun' = [nextRun EXCEPT ![t] = n]
         /\ status' = [status EXCEPT ![t] = "active"]
      \/ UNCHANGED <<status, nextRun>>
  BY DEF RecordRun, RunPanics, UpdateTaskAfterRun, NextRunAfter, Schedules
<1>7. UNCHANGED TaskOfRow
  <2>1. \A u \in Tasks : /\ status'[u] = "unborn" <=> status[u] = "unborn"
                         /\ status'[u] = "deleted" <=> status[u] = "deleted"
    BY <1>1, <1>6 DEF Exists, NoRow, IInv, TypeOK
  <2>. QED
    BY <2>1 DEF TaskOfRow
<1>8. OwedByRow' \in {OwedByRow, [OwedByRow EXCEPT ![t] = FALSE]}
  <2>1. CASE UNCHANGED <<status, nextRun>>
    BY <2>1, SameRows
  <2>2. CASE Exists(t) /\ \E n \in Schedules : nextRun' = [nextRun EXCEPT ![t] = n]
    <3>1. nextRun[t] = "due"
      BY <1>1, <2>2 DEF IInv, RunsAreOwed
    <3>2. \A u \in Tasks : u # t => nextRun'[u] = nextRun[u]
      BY <2>2 DEF IInv, TypeOK
    <3>3. CASE nextRun'[t] = "due"
      BY <3>1, <3>2, <3>3 DEF OwedByRow
    <3>4. CASE nextRun'[t] # "due"
      <4>1. OwedByRow' = [u \in Tasks |-> IF u = t THEN FALSE ELSE nextRun[u] = "due"]
        BY <3>2, <3>4 DEF OwedByRow
      <4>2. OwedByRow' = [OwedByRow EXCEPT ![t] = FALSE]
        BY <4>1 DEF OwedByRow
      <4>. QED
        BY <4>2
    <3>. QED
      BY <3>3, <3>4
  <2>. QED
    BY <1>6, <2>1, <2>2
<1>. QED
  BY <1>4, <1>5, <1>7, <1>8 DEF Registry!End

\* A row that is inserted adds a task that nobody runs.
LEMMA InsertMaps ==
  ASSUME IInv, NEW t \in Tasks, NEW n \in Schedules, InsertRow(t, n)
  PROVE  Registry!Add(t)
<1>1. TaskOfRow[t] = "unborn"
  BY Mapping DEF InsertRow
<1>2. TaskOfRow' = [TaskOfRow EXCEPT ![t] = "listed"]
  BY DEF InsertRow, TaskOfRow, IInv, TypeOK
<1>3. \E now \in BOOLEAN : OwedByRow' = [OwedByRow EXCEPT ![t] = now]
  <2>1. OwedByRow' = [u \in Tasks |-> IF u = t THEN n = "due" ELSE nextRun[u] = "due"]
    BY DEF InsertRow, OwedByRow, IInv, TypeOK
  <2>2. OwedByRow' = [OwedByRow EXCEPT ![t] = (n = "due")]
    BY <2>1 DEF OwedByRow
  <2>. QED
    BY <2>2
<1>4. UNCHANGED RunOfTask
  BY SameRuns DEF InsertRow
<1>. QED
  BY <1>1, <1>2, <1>3, <1>4 DEF Registry!Add

\* Pausing, resuming and PATCH, and a deletion that fails half-way, are not seen by the
\* registry; a deletion removes the task, and not its run.
LEMMA UpdateStatusMaps ==
  ASSUME IInv, NEW t \in Tasks, NEW s \in Statuses, UpdateTaskStatus(t, s)
  PROVE  UNCHANGED <<TaskOfRow, OwedByRow, RunOfTask>>
<1>1. \A u \in Tasks : /\ status'[u] = "unborn" <=> status[u] = "unborn"
                       /\ status'[u] = "deleted" <=> status[u] = "deleted"
  BY DEF UpdateTaskStatus, Exists, NoRow, Statuses, IInv, TypeOK
<1>2. UNCHANGED TaskOfRow
  BY <1>1 DEF TaskOfRow
<1>3. UNCHANGED OwedByRow
  BY DEF UpdateTaskStatus, OwedByRow
<1>. QED
  BY <1>2, <1>3, SameRuns DEF UpdateTaskStatus

LEMMA DeleteMaps ==
  ASSUME IInv, NEW t \in Tasks, DeleteTask(t)
  PROVE  Registry!Remove(t) \/ UNCHANGED <<TaskOfRow, OwedByRow, RunOfTask>>
<1>1. UNCHANGED RunOfTask
  BY SameRuns DEF DeleteTask
<1>2. CASE UNCHANGED <<status, nextRun>>
  BY <1>1, <1>2, SameRows
<1>3. CASE /\ status' = [status EXCEPT ![t] = "deleted"]
           /\ nextRun' = [nextRun EXCEPT ![t] = "null"]
  <2>1. TaskOfRow[t] = "listed"
    BY Mapping DEF DeleteTask, Exists, NoRow
  <2>2. TaskOfRow' = [TaskOfRow EXCEPT ![t] = "gone"]
    BY <1>3 DEF TaskOfRow, IInv, TypeOK
  <2>3. OwedByRow' = [u \in Tasks |-> IF u = t THEN FALSE ELSE nextRun[u] = "due"]
    BY <1>3 DEF OwedByRow, IInv, TypeOK
  <2>4. OwedByRow' = [OwedByRow EXCEPT ![t] = FALSE]
    BY <2>3 DEF OwedByRow
  <2>. QED
    BY <1>1, <2>1, <2>2, <2>4 DEF Registry!Remove
<1>. QED
  BY <1>2, <1>3 DEF DeleteTask

\* The clock makes an occurrence owed.
LEMMA ComesDueMaps ==
  ASSUME IInv, NEW t \in Tasks, ComesDue(t)
  PROVE  Registry!Occur(t)
<1>1. TaskOfRow[t] = "listed"
  BY Mapping DEF ComesDue, Exists, NoRow
<1>2. OwedByRow' = [u \in Tasks |-> IF u = t THEN TRUE ELSE nextRun[u] = "due"]
  BY DEF ComesDue, OwedByRow, IInv, TypeOK
<1>3. OwedByRow' = [OwedByRow EXCEPT ![t] = TRUE]
  BY <1>2 DEF OwedByRow
<1>4. UNCHANGED TaskOfRow
  BY DEF ComesDue, TaskOfRow
<1>. QED
  BY <1>1, <1>3, <1>4, SameRuns DEF ComesDue, Registry!Occur

\* A restart ends every run and keeps the tables.
LEMMA RestartMaps == Restart => Registry!Crash
<1>. SUFFICES ASSUME Restart PROVE Registry!Crash
  OBVIOUS
<1>1. RunOfTask' = [t \in Tasks |-> "idle"]
  BY DEF Restart, RunOfTask, Live
<1>. QED
  BY <1>1, SameRows DEF Restart, Registry!Crash

\* Every step of the scheduler is a step of the registry or leaves it as it is.
LEMMA NextMaps ==
  ASSUME IInv, [Next]_vars
  PROVE  [Registry!Next]_(Registry!vars)
<1>. USE DEF Registry!Next, Registry!vars
<1>. DEFINE Unseen == UNCHANGED <<TaskOfRow, OwedByRow, RunOfTask>>
<1>1. CASE Poll
  <2>1. DueTasks \in SUBSET Tasks
    BY DEF DueTasks
  <2>. QED
    BY <1>1, <2>1, PollMaps
<1>2. CASE PollFails \/ TimerFires \/ WokenByNotify \/ UNCHANGED vars
  <2>1. UNCHANGED <<status, nextRun, batch, workers>>
    BY <1>2 DEF PollFails, TimerFires, WokenByNotify, vars
  <2>. QED
    BY <2>1, SameRows, SameRuns
<1>3. CASE \E t \in Tasks, h \in Handles : Dispatch(t, h)
  BY <1>3, DispatchMaps
<1>4. CASE JoinAll
  BY <1>4, InnerStepsMap
<1>5. ASSUME NEW h \in Handles, WorkerStep(h)
      PROVE  (\E t \in Tasks : Registry!End(t)) \/ Unseen
  <2>1. CASE SetTaskRunning(h) \/ AgentReturns(h)
    BY <2>1, InnerStepsMap
  <2>2. CASE RecordRun(h) \/ RunPanics(h)
    <3>1. runTask[h] \in Tasks
      BY <2>2 DEF RecordRun, RunPanics, Live, IInv, RunsAreIssued
    <3>. QED
      BY <2>2, <3>1, RunEndsMaps
  <2>. QED
    BY <1>5, <2>1, <2>2 DEF WorkerStep
<1>6. ASSUME NEW t \in Tasks, OperatorStep(t)
      PROVE  Registry!Add(t) \/ Registry!Remove(t) \/ Unseen
  <2>1. CASE InsertTask(t)
    BY <2>1, InsertMaps
       DEF InsertTask, CreateTask, ScheduleTask, RunBackground, InitialNextRun, NextRunOfTool,
           Schedules
  <2>2. CASE NotifyNewTask(t)
    BY <2>2, SameRows, SameRuns DEF NotifyNewTask
  <2>3. CASE PauseTask(t) \/ ResumeTask(t) \/ UpdateTask(t)
    BY <2>3, UpdateStatusMaps DEF PauseTask, ResumeTask, UpdateTask, Statuses
  <2>4. CASE DeleteTask(t)
    BY <2>4, DeleteMaps
  <2>. QED
    BY <1>6, <2>1, <2>2, <2>3, <2>4 DEF OperatorStep
<1>7. CASE \E t \in Tasks : ComesDue(t)
  BY <1>7, ComesDueMaps
<1>8. CASE Restart
  BY <1>8, RestartMaps
<1>. QED
  BY <1>1, <1>2, <1>3, <1>4, <1>5, <1>6, <1>7, <1>8 DEF Next, LoopStep

\* The scheduler implements the registry: TaskScheduler and run_task lose no occurrence
\* but by the end of a run of its own task, queue none that is not owed, never let batches
\* mix and never run more tasks than max_concurrent_tasks.
THEOREM SchedulerImplementsRegistry == Spec => ImplementsRegistry
  BY InitMaps, NextMaps, Invariance, PTL DEF Spec, ImplementsRegistry, Registry!Spec
=============================================================================
