# Claw Agent RS in TLA+

TLA+ specifications of the concurrent core of Claw Agent RS, a Rust server (axum, tokio,
SQLite) that runs LLM agents for a web chat and for scheduled tasks. The modules follow
the code under `src/src/`; `PROJECT.json` gives, for every definition, the lines it
models. Paths below are relative to `src/src/`.

## 1. The system

One process. A single SQLite connection sits behind one `tokio::Mutex`; the per-run state is
in `DashMap`s of `AppState`; everything else is tokio tasks and broadcast channels.

| Component | State | Operations | Hard behaviour | What makes it correct |
|---|---|---|---|---|
| Task scheduler, `scheduler/engine.rs`, `db/tasks.rs`, `tools/tasks.rs`, `web/routes/tasks.rs` | tables `scheduled_tasks`, `task_run_logs`; the `Notify`; the semaphore and join handles of a poll | poll, dispatch, `run_task` (mark running, run the agent, record), create, pause, resume, PATCH, cancel | the row is changed by requests while its run is queued or in flight; panics; crashes; a lost wake-up; permits | at most `max_concurrent_tasks` runs; one run per task; an occurrence is run once; no orphan logs; due tasks start; a deleted task stays deleted |
| Chat runs, `web/routes/chat.rs`, `web/state.rs` | `active_runs`, `custom_events`, `run_sessions`, `run_accumulators`, `abort_handles`; rows of `messages`, `web_sessions` | `create_chat`, agent task, accumulator task, `stop_agent`, `DELETE /api/sessions` | stop against the end of the run, stop against stop, deletion of the session meanwhile, guards held across awaits that block worker threads | answers are written once and kept; runs that are over are unlisted; a stop ends the run |
| Run event stream, `web/routes/chat.rs`, `web/sse.rs`, `agent/runner.rs` | a broadcast channel of 256 events, the accumulator, receivers | send, record, replay, subscribe, deliver, close | lag, reconnection in the middle of a run, senders that outlive the run | no event shown twice; what is live is in order and follows the replay; the record has no holes; responses end |
| ask_user, `tools/utility.rs`, `web/routes/chat.rs` | `pending_questions`, one oneshot channel per question | ask, wait with a limit, respond, abort | timeout against a late answer, two answers, answer before registration | one answer accepted, and it reaches the agent; every question ends |
| History, `db/messages.rs`, `web/routes/history.rs` | table `messages` | store, page, `hasMore`, delete, `migrate_timestamps` | timestamps compared as text in two formats, ties, an interrupted migration, a clock set back | pages chronological, without repetition, complete up to ties |
| Soul files and memory, `soul/`, `memory/`, `tools/memory.rs`, `tools/soul.rs`, `web/routes/soul.rs` | Markdown files | save (append, replace), forget, daily log, write | read-modify-write without a lock, non-atomic writes, headings matched in three ways | entries stay until they are removed; what is forgotten stays forgotten |
| Agent message store, `db/stores.rs` | table `agent_messages` | append, get, clear, `replace_history` | a replacement is a DELETE and many INSERTs without a transaction, other loops on the thread come in between, rowids are issued again | replacements have no holes; each thread's history grows at its end or is emptied |
| Groups, `main.rs`, `web/routes/groups.rs`, `soul/manager.rs` | directories under `groups/` | start-up copy of the template, create, remove, write and delete soul files | everything is one file-system call at a time, without a lock; crashes and failing copies leave what was done; a name that is spelled in two ways | edits are not overwritten by the template; the process serves a complete main group |
| Authentication, `web/routes/auth.rs`, `web/middleware.rs`, `web/server.rs`, `config.rs` | none but the settings; tokens live with clients | login, logout, verify, the middleware | tokens outlive the process, settings change with a restart, the clock is set, a cookie hides a header, clients sign for themselves | a guarded route answers exactly when the login behind the token still counts, unless the secret is known |
| Tool calls: subagents and `code_execute`, `tools/subagent.rs`, `tools/utility.rs`, `agent/runner.rs` | the channels of parent and child, the pipes of a process | receive with a limit, report progress, run and wait, read, forward | a child that outlives its call, full channels, a full pipe, a descendant that holds it open, panics in a cut, a stop meanwhile | progress stands inside its call; a success has the whole answer; calls return |
| Sessions, notifications, files, search, prompt, heartbeat, other tools, configuration | see `PROJECT.json` | | | in part or not at all; section 8 |

How they interact: `create_chat` and `run_task` both call `run_agent`, which starts the agent
loop of the `agent_sdk` library and forwards its events. The loop's tools write the task table and
wake the scheduler (`notify_new_task`), change the soul files, start subagents and processes, and
register questions that the `respond` route resolves; its history is in the agent message store.
`stop_agent` aborts the task of `run_agent` at whatever await it is in (`TakeAbort` of `ChatRuns`).
The loop is a task of the library: what happens to a tool that it is carrying out is up to the
library, so the models allow both, a tool that is dropped (`Abort` of `AskUser`, `DropCall`
of `SoulFiles`) and a tool that goes on without anybody who takes its events (`StopRun` of
`AgentTools`). Each module models one of these data structures with all the actors that touch
it; `AgentTools` composes the two tools it runs over one channel.

## 2. The modules

The granularity is that of the code: one critical section under the database mutex, one call
on a `DashMap` or a channel, and one stretch between two awaits that other actors can observe,
is one action.

**`Scheduler`**. `status` and `nextRun` are the columns of a row (`"unborn"` and `"deleted"`
where there is none); time is abstracted to what `get_due_tasks` tells apart, a `next_run` that
is NULL, in the future or due. `loop`, `batch`, `permits` are the polling loop and its
semaphore, `runTask` and `phase` the spawned `run_task` calls. The `Notify` is the bit
`notified`, with `unnotified` for creators between their INSERT and their notification. `Poll`
.. `JoinAll` are `poll_and_execute`; `SetTaskRunning`, `AgentReturns`, `RunPanics`, `RecordRun` are
`run_task`; `InsertTask` .. `DeleteTask` are the routes and the tools; `Restart` keeps the tables
and nothing else. Dropped errors (`let _ =`) are disjuncts that leave the row alone when
`DbMayFail`. `unseen` is a history variable.

**`ChatRuns`**. `handler`, `agent` and `stop` are the program counters of `create_chat`, the
agent task and `stop_agent`; `entries[r]` is the set of maps that hold run `r`, removed one by
one in the order of the code. `answers` counts the rows of `messages` by their author, the agent task or
a stop request. An INSERT may fail, because the session is gone (the foreign key from `messages`
to `web_sessions`) or for any other reason, and the code drops the error (`StoreMessage`). `Guarded` is the
`DashMap` guard that `stop_agent` keeps while it waits for the `RwLock` of the accumulator and for the
database. A call that has to wait for it does not give its thread back: what stands between two awaits
occupies one of `Workers` threads from its first action to its last (`Occupied`), and nothing is polled
unless one is free (`WorkerFree`). The database mutex is handed to who waits first; a task that is woken
may be queued on the thread that woke it and is not polled before that thread comes to an await (`lent`,
`DbFree`). One run is followed: other requests are `DeleteSession` and `OtherRequest`, which removes the
session or creates it again at any time. With several runs the maps are taken to have one shard,
which allows every wait that several shards do.

**`RunStream`**. Events are numbers, `NumEvents` the `Done`; `Texts` and `Calls` say which are text and
which begin and end a tool call. A receiver is a position; it is overrun when it is more than `Capacity`
behind. The record is kept as the code keeps it, a text and a list of calls, and `Replay` gives first all
the text and then each call with its result. A response ends when both channels it merges are closed
(`ChannelClosed`, `CustomClosed`), that is, when every sender is dropped: `run_agent`'s, those in
`active_runs` and `custom_events`, the clones that reconnecting handlers hold, and those that the library's
task holds in its hooks and in the context of the tools. `loop` is that task: it may be at work when an
abort takes effect, and go on (`RunnerIsAborted`, `RunnerEnds`, `LoopEnds`).

**`AskUser`**. `stage` is the tool call, `pending` the map, `value` the oneshot channel. The end of
the wait is three steps, the limit found exceeded (`Expire`), the receiver dropped, the entry
removed, because a response may come between any two of them. It implements **`AnswerOnce`**, which says
what is promised for each question: while it is open one answer may be accepted, none before and none
after, and the agent is given that answer or none. A question is open from its registration until the
receiver is dropped (`Turn`), the value in the channel is what was accepted, the result of the tool what was
given; showing the question, looking up its sender and finding the limit exceeded are stuttering.

**`History`**. A timestamp is a millisecond and a format; `Before` is the comparison of the two
texts. `NewestFirst` is the set of pages `ORDER BY timestamp DESC LIMIT n`, reversed, may return:
SQLite leaves the order of ties open. The client is the web front end, which is not in the
repository; it is modelled as the comments in `db/messages.rs` describe it (the cursor is the
timestamp of the oldest message shown).

**`SoulFiles`**. A file is a sequence of sections, a section a heading and a set of entries.
The three ways headings are matched are `Spells` (`eq_ignore_ascii_case`), `Opens`
(`starts_with`, which takes a longer heading for the one asked for) and equality. There is one action
per tool and route (`MemorySave`, `SoulUpdateSection`, `MemoryForget`, ...), then one per read, and a
write is `Truncate` and `WriteOut`; two writes that overlap may leave a mixture (`Overlaid`). The file
begins with the headings of the template of a group. `disturbed` and `detached` are history variables:
the first marks overlaps, failures and a heading taken for another, the second an append for which
`extract_section` and `update_section` mean two different sections (`Apart`).

**`TaskRegistry`** says what the scheduler promises without its tables, loop, semaphore and tokio
tasks. `Scheduler` implements it under this mapping: the row stands for the task, a `next_run`
that has passed for the occurrence the task is owed, its place in the batch or the tokio task that
carries it out for its run. The mapping turns `Poll` into `Queue`, `Dispatch` into `Start`,
the end of a run, recorded or by a panic, into `End`, and `set_task_running`, pauses, resumes,
and joins into stuttering: whatever they do, no occurrence may get lost by them. `TaskOfRow`,
`OwedByRow` and `RunOfTask` are the mapping.

**`ThreadHistories`** says what the message store promises: for each thread a sequence that grows at
its end or is emptied. **`AgentStore`** implements it. Its table is a function from the rowids in use
to their rows. SQLite gives a new row the number after the largest one in use (`NewRowid`), so
deleting the last rows makes their numbers available again, and `ORDER BY rowid` is the order of
insertion only because of that. `InOrder` is that order without recursion: the i-th rowid is the one
with i of them up to it. `ClearAndReplace` is the DELETE, `InsertNext` one INSERT.

**`Groups`**. `dir` and `file` are the disk; start-up (`Boot...`), `create_group`, `delete_group` and
the calls of `SoulManager` are split at every directory made, file copied and file removed.
The guard of `delete_group` compares strings, so a removal of the main group may be refused or accepted,
depending on how it is spelled (`DeleteChecks`). History variables say what users of a group did to its
files (`touched`), which of it some creation had still to copy over then (`exposed`), whether the
making or the removal of a group went wrong (`spoiled`, with its causes at `Spoil`), and whether the main
group was removed while it was served (`evicted`).

**`Access`**. A token is a date of expiry and the text it was signed with; `VerifyToken` compares
both with the clock and the settings of now. The secret is the value of the variable, or the text
`Derived` from the password, or the empty text, as in `config.rs:59-65`; a variable may be set to
any of these texts too. The client keeps one token in the cookie and one for the header, from logins or
signed by itself under a text it knows (`Sign`, `Known`); `Restart` changes the settings. `login`
remembers where each token came from.

**`Subagent`** and **`CodeExecute`** are the two tools, with the child and the process as their
environment; **`AgentTools`** instantiates both into one run that calls them one after the other.
`outbox` is the channel of the run's events, shared between the loop and the subagent's progress,
`inbox` the channel of the child; both are bounded. The loop calls tools one at a time: a
library that called two subagents of one run at once would make progress of both carry the same
numbers, and this is not modelled.

**`MCSoulFiles`**, **`MCRunStream`**, **`MCGroups`** and **`MCAccess`** add the symmetry sets and the structured values of
constants for TLC. `SchedulerProofs`, `ChatRunsProofs`,
`RunStreamProofs`, `AgentStoreProofs`, `GroupsProofs` and `AgentToolsProofs` hold the theorems about
the modules they are named after, `RoutesProofs` those about what two of the web routes answer,
`Access` and `History`, and `ToolStateProofs` those about what tools keep outside their run, `AskUser`
and `SoulFiles`; the names of `History` (`HistoryInit`, ...) and `SoulFiles` (`SoulInit`, ...) are such
that one module can extend both of a pair.

Definitions whose comment begins with "Mutant:" are variants of the definition that
follows them, with a plausible bug; no specification uses them. Each property is violated when
the definition is replaced by its mutant, so it really depends on that piece of the code.

## 3. What the runs check

| Run | States | Shows |
|---|---|---|
| `sched_safety` | 175 214 | the limit on runs across polls, one run per task, occurrences run once, no lost wake-up, inactive rows change by request only, due tasks start, and `Scheduler` implements `TaskRegistry` |
| `chat_runs` | 66 307 | answers are written once and kept; runs that are over are unlisted; a successful stop ends the run; runs that are over leave the maps, unless a guard jams the server |
| `run_stream` | 155 236 | the record is a prefix of the run; no client is shown an event twice; the first client misses nothing unless it lags; responses end |
| `ask_user` | 5 718 | one answer accepted; no stale entry unless the run was stopped; accepted answers arrive; questions end; `AskUser` implements `AnswerOnce` |
| `history` | 56 028 | pages fit together, only ties are missed, loading ends |
| `soul_files` | 1 874 622 | entries stay, forgotten entries do not come back |
| `agent_store` | 77 485 | replacements have no holes; `AgentStore` implements `ThreadHistories` |
| `groups` | 2 381 901 | edits are kept, a served main group is complete |
| `access` | 110 592 | routes answer exactly the requests whose login counts, unless the client knows the secret |
| `agent_tools` | 391 162 | progress is bracketed by its call, successful results are whole, calls return |

Two runs check what a document or a comment says and find it violated; each is a finding in
`PROJECT.json`:

- `sched_pause`: "It will not run until resumed" (`tools/tasks.rs:260`). A pause between the
  poll and the end of the run is overwritten by `set_task_running` and by
  `update_task_after_run`, which writes `'active'` unconditionally.
- `run_stream_replay`: "reconnecting clients get full replay" (`README.md:47`).
  Events between the copy of the accumulator and the subscription are lost.

**Bounds.** `MaxCrashes` restarts: one crash between any two steps already gives every state of the
tables with an empty process; `Groups` has two, since what the first leaves on the disk is
what the second start-up finds. `Scheduler`: two tasks, one recurring and one not, two handles, one
permit, so that one task waits for the permit of the other and is changed meanwhile; each id is
issued once; statements may fail. `ChatRuns`: one run, and two stop requests that race with each
other, with the end of the run, and with the session's deletion and return; two worker threads, which the
run and a stop request can block together. `RunStream`: `Capacity` 2
and four events, so that a receiver can be overrun, with a text said between the start and the end of a
tool call, which is replayed in another order than it was sent. `AskUser`: two questions, of either kind,
and three responses. `History`: three messages on three milliseconds (`LastMillis` 2), which gives ties,
and pages of one and two. `SoulFiles`: three calls of any kind; two spellings of one heading and a
longer one, with a template in which the longer one stands after the heading. `AgentStore`: three calls of up to two messages on two threads, enough
for rowids to be freed at the end, and in the middle, and issued again. `Groups`: two groups, either of
which may be the main group of a process; two creations, a removal and a write; a template of two soul files and
one plain file; states that differ by a permutation of the groups or of the creations count once.
`Access`: three passwords, one empty, and three values of the variable, one empty and one the text of a
password; a client that knows the texts that need no secret; a clock of two instants with a
lifetime of one, so that tokens expire and come back to life when the clock is set back.
`AgentTools`: two calls, so that a child of the first can be at work during the second; channels
of two events and of one; a pipe that holds two units and a process that writes up to three.

Deadlock is checked for `Scheduler`, `History` and `Access`, whose loop, clock and clients never
stop. The other systems come to rest when all requests have been made.

**Fairness.** Weak fairness of what the runtime guarantees: a ready task is polled, a lock is
granted, a timer fires, a handler goes on after its await. Not fair: requests, stops, crashes,
panics. The one strong fairness is that of `Poll` in `Scheduler`: while the query fails the
loop goes back to its wait, which disables `Poll` again, and a query that failed every time would
start nothing. A stop request that waits for the accumulator's `RwLock` is not taken to get it while another one
holds it, as it may be queued behind a writer. Nothing in the code bounds the time a run of an agent takes (`AGENT_TIMEOUT` is read
and never used), so the return of the agent is fair only in `LiveSpec` of `Scheduler` and in
`RunStream`, where a property is about what comes after it; `ChatRuns` does without. Of the
library's task `RunStream` assumes nothing: that it ends is a condition of `StreamsEnd`. In `AgentTools`
the child, the process and its descendants may hang: the time limits, and the tasks of
the server, have to suffice.

The type invariants of `RunStream`, `History` and `AgentTools` (`TypeOK`, `HistoryTypeOK`, `ToolsTypeOK`)
are proved and are not among the properties of their runs.

## 4. What is proved

Every safety property that the passing runs check is a theorem, for every value of the constants; so
are the three refinements. Each component has an inductive invariant `IInv` (`PagesInv` and `SoulInv`
for the second component of a module), the conjunction of the properties and of the named parts
below, a lemma for each action that says it preserves `IInv`, and a lemma `Next...` that puts them
together. To see that `IInv` is an invariant before proving it, run TLC on the proof module with the
constants of the component's `.cfg` and `INVARIANT IInv`.
Nothing is assumed but what the modules assume of their
constants (`SchedulerAssumption`, ...): that the placeholders are none of the values they stand
beside, that bounds are numbers, in `RunStream` that a call ends after it starts and events have one kind, and in
`Access` that the empty texts need no knowledge.

`SchedulerProofs` proves, for any set of tasks, any finite set of handles, any limit
`MaxConcurrent \in Nat` and any number of crashes, with failing statements or without:

| Theorem | States |
|---|---|
| `TypeCorrect` | `Spec => []TypeOK`, hence permits never exceed the limit |
| `NeverTooManyRuns` | `Spec => []ConcurrencyLimit` |
| `OneRunPerTask` | `Spec => []NoOverlappingRuns` |
| `OccurrencesRunOnce` | `Spec => []RunsAreOwed` |
| `LogsAndWakeups` | `Spec => [](LogsBelongToTasks /\ WakeupNotLost)`: no orphan logs, no lost wake-up |
| `DeletedForGood` | `Spec => DeletedStaysDeleted`; on the instance this is part of `ImplementsRegistry`, where a removed task is `"gone"` |
| `InactiveStaysPut` | `Spec => InactiveNeedsOperator` |
| `SchedulerImplementsRegistry` | `Spec => ImplementsRegistry`: the refinement of `TaskRegistry` |

They rest on `SchedulerAssumption` only. The argument: none of the invariants is inductive.
`ConcurrencyLimit` speaks of runs that hold permits of *some* semaphore, while every poll makes a
new one, so one has to know that no run survives its poll: that is `LoopIsQuiet` (between polls
nothing is queued and no handle is in use), and it is what `join_all` is for. While a poll is
carried out, `PermitsAccounted` (free permits and live runs add up to the limit) bounds the runs; it
needs that a run gives back its permit once, on the normal path and in a panic. `NoOverlappingRuns`
needs `LoopIsQuiet` at `Poll` and the disjointness of batch and live runs at `Dispatch`.
`RunsAreOwed` needs `NoOverlappingRuns`: only a task's one run moves its `next_run` forward. And
a freshly issued id must not be queued already, which is `RunsAreIssued`. `IInv` is the conjunction;
there is one lemma per kind of step that says the step preserves it (`PollPreserves`, ...),
`NextPreserves` puts them together, and `WhoWritesStatus` carries the two action properties. The
refinement has a lemma for each step that the registry sees and one for those it does not:
`RunsAreOwed` gives the occurrence that `Queue` takes, `PermitsAccounted` that `Start` respects the
limit, `LoopIsQuiet` that `Poll` finds no run in its way.

`ToolStateProofs` proves of `AskUser`, for any questions, answers and responses:

| Theorem | States |
|---|---|
| `TypeCorrect` | `Spec => []TypeOK` |
| `OneAnswerIsAccepted` | `Spec => []OneAnswerAccepted` |
| `NoEntryIsStale` | `Spec => []NoStaleEntry` |
| `AskUserImplementsAnswerOnce` | `Spec => ImplementsAnswerOnce`: the refinement of `AnswerOnce` |

The argument is one of ownership. A sender is not registered yet (`TakenIsRegistered`), or in the
map, unused and taken by nobody (`PendingIsUnused`), or taken by the one request that may use it
or has used it (`TakenOnce`), or dropped. `OneAnswerAccepted` alone is not inductive: two requests
that both hold the sender would both be accepted, and only the removal from the map, in the same
step that finds the sender, keeps them apart. `ResultIsValue` ties what the tool returns to what
the channel held. In the refinement `TakenOnce` gives that nothing was accepted before when a
request uses the sender it holds, and `HeldIsAnswerable`, an invariant of its own, that the question
it holds is not one of a scheduled run.

And of `SoulFiles`, for any calls, headings, template and number of crashes, with failing reads and
writes or without:

| Theorem | States |
|---|---|
| `SoulTypeCorrect` | `SoulSpec => []SoulTypeOK` |
| `EntriesAreNotLost` | `SoulSpec => []EntriesStay` |
| `ForgottenStaysGone` | `SoulSpec => []ForgottenIsGone` |

Neither property is inductive: what a call will write was put together several steps before, so the
invariant speaks of the text in its memory. As long as nothing is `disturbed`, one call is at work on
a file (`Alone`), and what it took from the file is still there (`Fresh`). The text that it is about to
write has every entry that is kept but those it may remove (`OutKeeps`), and none that was forgotten
(`OutForgets`); `FilesAreDone` and `EntriesDone` keep an entry that was forgotten from being
written for the first time later. About the operators it is shown that an edit changes the
sections under its heading and no other (`UpdateIsLocal`, `ForgetIsLocal`), that a mixture of texts is made
of their sections (`OverlaidIsText`), and from these what becomes of entries that stand and entries
that are forgotten (`StandsAfterUpdate`, `ForgottenAfterUpdate`, ...). `QuietStep` is the common part of
the steps that leave the files alone. The first attempt at `EntriesStay` failed where an append
meets two sections of one name up to case with another between them. That is a fault of the
code (section 6), and `detached` marks it: without it TLC finds `EntriesStay` violated by two
calls, one after the other, of which none fails.

`RunStreamProofs` proves, for any number of events, any capacity from 1 on and any returning
clients:

| Theorem | States |
|---|---|
| `TypeCorrect` | `Spec => []TypeOK` |
| `RecordHasNoHoles` | `Spec => []RecordIsPrefix` |
| `LiveFollowsReplay` | `Spec => []NothingShownTwice` |
| `FirstClientSeesAll` | `Spec => []FirstClientMissesNothing` |

`RecordFollows` says that a live accumulator has recorded the texts and calls of all it consumed, so the
next event it consumes is the next of the record (`RecordKeepsPrefix`); an overrun ends it. A replay of such
a record repeats nothing (`ReplayOfRecord`). `ViewsFollow` and `PositionsAreSent` say that
nothing shown is later than the receiver's position, nor later than what was sent; a subscription
takes its position from the sender, after whatever was replayed. `FirstIsLive` says
that the first client never replays. The capacity matters only in that a receiver that
skips moves forward.

`ChatRunsProofs` proves, for any runs, sessions, stop requests and number of workers:

| Theorem | States |
|---|---|
| `TypeCorrect` | `Spec => []TypeOK` |
| `AnswersStay` | `Spec => []AnswersAreKept` |
| `EndedRunsLeaveTheMaps` | `Spec => []EndedRunsAreUnlisted` |

Both sweeps remove the five maps one by one, in different orders, while the other one and
`create_chat` are at work. `CleanedIsGone` and `SweptIsGone` say that a prefix of the order of the
code stays removed, but for `abort_handles`, the one map that is written after the task was spawned.
`AbortsAreStops` finds the sweep that an aborted task leaves to the request that aborted it.
`UnspawnedIsUnknown` keeps requests from a run that is not yet spawned, so the maps are filled before
anyone empties them. `AnswersAreCounted` gives every author one turn to write. For the run that is
aborted the argument goes from the abort back to the look: the request that aborted it, or the first
one to have swept it, looked when the run was still in the maps (`ListedUntilSwept`), so it stored what had
been said by then (`PartIsStored`).

`AgentStoreProofs` proves, for any threads, calls and sizes, with failing statements or without:

| Theorem | States |
|---|---|
| `TypeCorrect` | `Spec => []TypeOK` |
| `ReplacementsAreWhole` | `Spec => []ReplacementIsWhole` |
| `StoreImplementsHistories` | `Spec => ImplementsHistories`: the refinement of `ThreadHistories` |

Two facts carry them. The new rowid is above all those in use (`NewRowidIsLargest`), and a rowid above
a finite set of others comes last in its order and leaves the others in their places (`OrderOfAdded`,
by counting: `RanksAreOneToOne`). So an INSERT appends to the list of its thread, and to what
survives of its call there, and to no other (`InsertExtends`), and a DELETE empties the lists of its
thread and leaves the others, whose rowids keep their order (`DeleteEmpties`). `UncalledIsUnseen` and
`DeletersHaveThread` are what makes `ReplacementIsWhole` inductive: no call begins with rows in the
table, and a call inserts only into the thread that it cleared.

`GroupsProofs` proves, for any groups, files, requests and number of crashes, with failing calls of
the file system or without:

| Theorem | States |
|---|---|
| `TypeCorrect` | `Spec => []TypeOK` |
| `EditsStay` | `Spec => []EditsAreKept` |
| `MainHasItsFiles` | `Spec => []MainIsComplete` |

A creation begins only where there is no directory, and an edit is in a soul directory: so no creation
that begins after an edit can copy over it, and none that has copied the file already (`TouchedStands`, with
`StagesFit` and `MainStands`). What is left is a creation that passed its check before and has the
file still to copy, which is `exposed`.
`MissingIsToCome` says that whatever a group lacks, unless it is spoiled, is still to be copied by the
request that makes it or by start-up, or the group is being removed; a crash turns each of
these into `spoiled`, or into a group without a soul directory, which the next start makes anew.

`RoutesProofs` proves, for any passwords, secrets, lifetime and clock:

| Theorem | States |
|---|---|
| `TypeCorrect` | `Spec => []TypeOK` of `Access` |
| `AccessIsByLogin` | `Spec => AccessFollowsLogin` |

`TokenOfLogin` ties each token that a client keeps to the expiry and the secret of the login it came
from, or to a text that the client knows (`SignPreserves`); `SecretIsText` says that the secret is one of the texts
that `SignsWith` allows, and the only one, and `VerdictIsLogin` that `VerifyToken` is the verdict of the property.

And, for any finite set of messages, any limits, clock and number of crashes, with failing
queries or without:

| Theorem | States |
|---|---|
| `PagesAreChronological` | `HistorySpec => [](HistoryTypeOK /\ PagesFitTogether)` |
| `OnlyTiesAndFailuresHide` | `HistorySpec => []OnlyTiesAreMissed` |

`PageOfQuery` says what `ORDER BY timestamp DESC LIMIT` returns: rows from older to newer, each once,
none of them before a row left out, and nothing only if there is nothing. Neither property is
inductive alone. `NothingIsOld`: once the server has started, the migration is complete, so a
comparison of texts is one of milliseconds; a crash in the middle of the migration leaves old rows and
a server that does not serve. `ShownAreStamped`: the timestamps of what is shown no longer
change. Then the cursor separates (`CursorSeparates`): what is asked for is older than all that is
shown, and what was there at the opening is asked for, shown, tied, or lost to a failed query. Both
requests put a page on top of what is shown under that condition (`AnswerFits`, `AnswerMissesTies`).

`AgentToolsProofs` proves, for any capacities, texts, uses, outputs and number of calls:

| Theorem | States |
|---|---|
| `TypeCorrect` | `Spec => []ToolsTypeOK` |
| `ProgressStaysInItsCall` | `Spec => []ProgressIsBracketed` |
| `SuccessHasEverything` | `Spec => []ResultIsWhole` |

`ProgressIsBracketed` is about what was shown, and not inductive: `LogInv` says the same of what was
shown followed by what is in the channel, with `CallIsOpen` (the log has the beginning of the call
that goes on and not its end) and `UsesAreSent` (the use of every tool of the child but the one about
to be sent). `ResultIsWhole` is a balance: texts heard and texts in the channel of the child are the
texts said (`SubInv`), bytes read and bytes in the pipe are those written (`CodeInv`), and a call
succeeds only when `Done`, which is last, has come, or nothing is left.

**Only model-checked**: liveness (`DueTaskStarts`, `StopEndsRun`, `RunsLeaveTheMaps`, `StreamsEnd`,
`AcceptedAnswerArrives`, `EveryQuestionEnds`, `LoadingEnds`, `CallsReturn`), which is out of reach of
the prover.
The statements that the two violations refute are false.

## 5. What the properties do not say

- `EntriesStay` and `ForgottenIsGone` are claimed for calls that do not overlap, reads and writes that
  succeed, crashes outside a write, and saves that did not take a longer heading for their own;
  `EntriesStay` also for files without an append that read one section and replaced another. The
  code takes no lock, so nothing survives two overlapping writers; the interleavings are in the
  model, and the history variable `disturbed` marks them.
- `EndedRunsAreUnlisted` excepts `abort_handles`: the handle is inserted after the task was
  spawned, and a task that has ended before leaves it behind for ever.
- `AnswersAreKept` is about conversations that were not deleted and INSERTs that succeed: both writers
  of answers drop the error (`chat.rs:223`, `chat.rs:438`), so an answer that could not be stored is lost without a
  trace, and a failed INSERT takes the run out of the property (`unstored`). An aborted run of which a
  stop request looked before the first word need not have an answer (`overlooked`). And a run may have
  several: its own beside a partial one of each request that stopped it.
- `StopEndsRun` and `RunsLeaveTheMaps` except a server that is jammed (`Jammed`, see section 6) and runs that
  panicked; a stop that answers 404, because the abort handle is not there yet, ends nothing.
  `stream_events` keeps the same kind of guard while it waits for the accumulator (`chat.rs:293`), and
  could hold up the same threads; it is not one of the actors of `ChatRuns`.
- `StreamsEnd` excepts runs that panicked and were not stopped, and is conditional on the library's task
  letting go of its senders: an abort drops `run_agent`, which waits for that task, and not the task.
- `NothingShownTwice` does not say that a replay is in the order of the run, because it is not (section 6).
- `AcceptedAnswerArrives` is about answers accepted while the tool waits. One accepted between the
  expiry of the limit and the drop of the receiver is answered 200 and lost.
- `OnlyTiesAreMissed` excepts messages of the same millisecond as one that is shown: the strict
  comparison with the cursor skips them.
- `ReplacementIsWhole` is about the last call that deleted the thread's rows. Of two replacements
  that overlap, the later DELETE wins, and what the earlier one still inserts stays in the history
  between the messages of the later one.
- `MainIsComplete` excepts groups whose making or removal went wrong (`spoiled`) while they had a soul
  directory, the one thing start-up looks at: start-up or a creation cut off by a crash or an error; a
  creation that lost a copy, whose error is dropped, and answered 200; a removal cut off or failed
  halfway; and a directory that was removed and then made again by a write or by the end of a creation. It
  also excepts a main group that was removed while it was served (`evicted`).
- `EditsAreKept` excepts edits of a file that some creation of the group had still to copy when they
  were made (`exposed`): two creations may both find no directory, and the slower one copies the
  template over what users wrote after the faster one had answered (`groups.rs:53`-`groups.rs:69`). And it is about
  soul files: `AGENTS.md` and the other plain files are copied again when the soul directory is missing at
  start-up, over whatever was in them.
- `AccessFollowsLogin` excepts clients that know the text the server signs with (`SecretIsKnown`). Without
  `AUTH_SECRET` and `AUTH_PASSWORD` that is the empty text (`config.rs:63`; `auth.rs:257` tests that such a token
  passes), and whoever knows the password knows the secret that is made from it, without a login and for
  any lifetime. With such a text a client needs no login.
- `CallsReturn` excepts a process that exited and left a descendant with its pipes: the reading after
  the exit has no limit. A process that fills a pipe does return, with a time-out, as nobody
  reads before it exits: output larger than the pipe never succeeds.
- `ResultIsWhole` counts a channel that closed without `Done` as success, as the code does, and calls
  the text of all turns the answer, each `Text` and each `TextDelta` of it (`subagent.rs:259-263`), while the tool's description speaks of the "final response".

## 6. Known divergences

Met while modelling, and not made a run of their own:

- `tools/utility.rs:211` says "The user sees the question in the chat UI". Questions of scheduled
  runs go to `chat_tx`, which has no subscriber, and a question asked while no client listens is
  not replayed; the run waits for the limit.
- `soul/markdown.rs:4` says "If the section does not exist, it is appended". A save to `Lessons`
  overwrites `## Lessons Learned`, which the search at `markdown.rs:14` takes for it.
- `memory/manager.rs:27` says of "append" that it "appends content to the existing section". The section
  it reads is the first of the name in any case; the one it replaces has the name as it is
  written. With `## Facts` before another section, the first append to `facts` makes a section
  `## facts` at the end, and the second reads `## Facts` and replaces `## facts`: the entry of the
  first is gone. The proof of `EntriesStay` found it.
- A guard of a `DashMap` locks its shard, and who has to wait for it blocks its thread. `stop_agent` keeps the
  guard of the accumulator (`chat.rs:419`) while it waits for the lock at `chat.rs:420` and for the database at
  `chat.rs:437`; the agent task removes from the same shard (`chat.rs:237`), and so do other stop requests, and
  `create_chat` inserts into it (`chat.rs:125`). When as many of them wait as there are worker threads, nobody polls
  the request that holds the guard; and with any number of threads, when the database was handed to a task that is
  queued on a thread that waits for the guard. The server then does not go on. `Jammed` is these two states; without
  it TLC finds both `StopEndsRun` and `RunsLeaveTheMaps` violated, the first way after 13 states with one worker and
  21 with two, the second after 14 with two.
- A client that reconnects is shown all the text so far at once and then the tool calls (`chat.rs:296-318`),
  each with its result: text said after a call stands before it. The accumulator records where the call belongs
  (`contentSplitIndex`, `chat.rs:140`), but the replay does not send it.
- `groups.rs:103` refuses to delete `default` and the main group by comparing strings, and `groups.rs:107` joins the
  string to the directory: `main/` or `main/.` names the same directory and is removed, while the process serves it.
- `README.md:309` says "Logout (clears cookie)". `logout` answers ok and sets nothing; its own
  comment (`auth.rs:158`) leaves the cookie to the front end.
- `web/routes/chat.rs:27`: `idempotencyKey` is documented as a dedup key and read by nobody, so a
  POST that is retried starts a second run.
- `db/tasks.rs:113` compares `next_run` with the current time as texts. Two ways of writing an
  instant (`Z`, `+00:00`, another offset) are not ordered as instants are.
- `DELETE /api/sessions` leaves the rows of `agent_messages`, so a session created again under its id
  goes on with the history of the deleted one.
- A subagent that runs out of time is reported as over while its loop goes on, tools included.

## 7. Plan

Written, in this order: `Scheduler` and its proofs, `ChatRuns`, `RunStream`, `AskUser`, `History`,
`SoulFiles`, the proofs about `AskUser` and `RunStream`, `TaskRegistry`, `AgentStore` with
`ThreadHistories`, `Groups`, `Access`, `AgentTools` with `Subagent` and `CodeExecute`, then the
refinement of `TaskRegistry` and the proofs about `Access`, `AgentTools`, `ChatRuns`, `Groups`,
`AgentStore`, `History` and `SoulFiles`, and `AnswerOnce` with its refinement. The plan is carried out.
What would come next needs more of the code: a model of the agent loop of the library, which
would decide what becomes of a tool when its run is stopped.

## 8. What is not modelled

- The agent loop and the LLM provider: library code. How they return is nondeterministic.
- `SqliteStateStore`: one `INSERT OR REPLACE` and one `SELECT` by key.
- `hooks.rs` allows every tool call and logs; `context.rs` and `error.rs` are types.
- Titles, renaming and `touch_session` (`db/sessions.rs`), notifications and their read marks:
  single statements under the database mutex that no other state depends on. The broadcast of
  notifications has no subscriber.
- Files, uploads and search: reading, or one write of a new file, in one request.
- The system prompt, the texts of messages and events, CORS and static files: formatting.
- `web_fetch`, `send_notification`, `send_chat_message`: one request, one row, one send.
- Cryptography: a signature is taken to be the secret it was made with.

The hazards of `PROJECT.json` without a property have a note saying why.
