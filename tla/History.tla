------------------------------- MODULE History -------------------------------
(***************************************************************************)
(* The messages of one session and how a client reads them: store_message   *)
(* stamps a row with the wall clock in milliseconds, GET /api/history        *)
(* returns the newest rows, or with a cursor the newest rows older than it, *)
(* and tells whether there are older ones.  The client (the web front end,  *)
(* not in this repository) asks for older pages with the timestamp of the   *)
(* oldest message it shows, until it is told there are none.                *)
(*                                                                         *)
(* Timestamps are compared as text.  Rows written by earlier versions carry *)
(* "...123456789+00:00" where rows of this version carry "...123Z", and     *)
(* sort before a row of this version in the same millisecond;               *)
(* migrate_timestamps rewrites them, one UPDATE each, before the server     *)
(* starts to serve.  A request runs under the database mutex: one action.   *)
(***************************************************************************)
EXTENDS Naturals, FiniteSets, Sequences, SequencesExt, FiniteSetsExt

CONSTANTS
    Messages,   \* message ids
    LastMillis, \* bound on the clock, in milliseconds
    Limits,     \* the values of limit the client uses
    MaxCrashes, \* bound on the number of restarts
    DbMayFail   \* whether the query of has_messages_before may return an error

ASSUME HistoryAssumption ==
    /\ IsFiniteSet(Messages)
    /\ LastMillis \in Nat
    /\ Limits \subseteq Nat \ {0}
    /\ MaxCrashes \in Nat
    /\ DbMayFail \in BOOLEAN

VARIABLES
    row,        \* [Messages -> whether there is a row, and the format of its timestamp]
    time,       \* [Messages -> the millisecond of its timestamp]
    clock,      \* Utc::clock()
    serving,    \* the server has started
    crashes,    \* restarts so far
    shown,      \* the messages the client shows, from the top of the page
    opened,     \* the client has loaded its first page
    more,       \* hasMore of the last page
    atOpening,  \* history: the rows there were when the client opened
    misled      \* history: a failed query was reported as hasMore = false

table == <<row, time>>
server == <<clock, serving, crashes>>
client == <<shown, opened, more, atOpening, misled>>
historyVars == <<table, server, client>>

HistoryTypeOK ==
    /\ row \in [Messages -> {"unborn", "old", "new", "deleted"}]
    /\ time \in [Messages -> 0..LastMillis]
    /\ clock \in 0..LastMillis
    /\ serving \in BOOLEAN
    /\ crashes \in 0..MaxCrashes
    /\ shown \in Seq(Messages)
    /\ opened \in BOOLEAN
    /\ more \in BOOLEAN
    /\ atOpening \subseteq Messages
    /\ misled \in BOOLEAN

Stored == {m \in Messages : row[m] \in {"old", "new"}}

\* A database an earlier version may have left.
HistoryInit ==
    /\ \E left \in SUBSET Messages :
          row = [m \in Messages |-> IF m \in left THEN "old" ELSE "unborn"]
    /\ time \in [Messages -> 0..LastMillis]
    /\ \A m \in Messages : row[m] = "unborn" => time[m] = 0
    /\ clock \in 0..LastMillis
    /\ \A m \in Stored : time[m] <= clock
    /\ serving = FALSE
    /\ crashes = 0
    /\ shown = <<>>
    /\ opened = FALSE
    /\ more = FALSE
    /\ atOpening = {}
    /\ misled = FALSE

-----------------------------------------------------------------------------
(* The queries *)

\* timestamp < ?: the text of m's timestamp sorts before millisecond t in format f.
Before(m, t, f) == time[m] < t \/ (time[m] = t /\ row[m] = "old" /\ f = "new")

\* WHERE timestamp < the cursor, which normalize_cursor has put into this version's format.
OlderThan(t) == {m \in Stored : Before(m, t, "new")}

SmallerOf(a, b) == IF a < b THEN a ELSE b

\* Mutant: ORDER BY timestamp ASC.
OldestFirst(rows, n) ==
    {s \in UNION {SetToSeqs(P) : P \in kSubset(SmallerOf(n, Cardinality(rows)), rows)} :
        /\ \A m \in rows \ ToSet(s), k \in ToSet(s) : ~Before(m, time[k], row[k])
        /\ \A i, j \in DOMAIN s : i < j => ~Before(s[j], time[s[i]], row[s[i]])}

\* ORDER BY timestamp DESC LIMIT n, reversed.  The order within a millisecond is left to
\* SQLite: every page it may return.
NewestFirst(rows, n) ==
    {s \in UNION {SetToSeqs(P) : P \in kSubset(SmallerOf(n, Cardinality(rows)), rows)} :
        /\ \A m \in rows \ ToSet(s), k \in ToSet(s) : ~Before(k, time[m], row[m])
        /\ \A i, j \in DOMAIN s : i < j => ~Before(s[j], time[s[i]], row[s[i]])}

\* Mutant: hasMore compares the page with the whole session.
HasMoreByTotal(page) == Cardinality(Stored) > Len(page)

\* hasMore: rows older than the first of the page, with its timestamp as stored.
HasMore(page) ==
    /\ page # <<>>
    /\ \E m \in Stored : Before(m, time[page[1]], row[page[1]])

\* What get_history answers over the given rows: the page is put on top of what is shown;
\* when the second query fails, the answer is "no more".
Answered(rows, failed) ==
    \E n \in Limits : \E page \in NewestFirst(rows, n) :
        /\ shown' = page \o shown
        /\ more' = (HasMore(page) /\ ~failed)
        /\ misled' = (misled \/ failed)

-----------------------------------------------------------------------------
(* Start-up *)

\* One UPDATE of migrate_timestamps.
MigrateRow(m) ==
    /\ ~serving
    /\ row[m] = "old"
    /\ row' = [row EXCEPT ![m] = "new"]
    /\ UNCHANGED <<time, server, client>>

\* Mutant: the server does not wait for the migration.
ServeAtOnce ==
    /\ ~serving
    /\ serving' = TRUE
    /\ UNCHANGED <<table, clock, crashes, client>>

\* The migration has returned without an error; an error ends the process.
Serve ==
    /\ ~serving
    /\ \A m \in Messages : row[m] # "old"
    /\ serving' = TRUE
    /\ UNCHANGED <<table, clock, crashes, client>>

\* The process dies, between two UPDATEs too, and is started again.
RestartServer ==
    /\ crashes < MaxCrashes
    /\ crashes' = crashes + 1
    /\ serving' = FALSE
    /\ UNCHANGED <<table, clock, client>>

-----------------------------------------------------------------------------
(* The requests *)

\* store_message, for the user or the agent.
StoreMessage(m) ==
    /\ serving
    /\ row[m] = "unborn"
    /\ row' = [row EXCEPT ![m] = "new"]
    /\ time' = [time EXCEPT ![m] = clock]
    /\ UNCHANGED <<server, client>>

\* DELETE /api/history, DELETE /api/sessions.
DeleteHistory ==
    /\ serving
    /\ row' = [m \in Messages |-> IF m \in Stored THEN "deleted" ELSE row[m]]
    /\ UNCHANGED <<time, server, client>>

\* GET /api/history without a cursor.
OpenHistory(failed) ==
    /\ serving
    /\ ~opened
    /\ opened' = TRUE
    /\ atOpening' = Stored
    /\ Answered(Stored, failed)
    /\ UNCHANGED <<table, server>>

\* GET /api/history?before=..., the timestamp of the oldest message shown.
LoadMore(failed) ==
    /\ serving
    /\ more
    /\ Answered(OlderThan(time[shown[1]]), failed)
    /\ UNCHANGED <<table, server, opened, atOpening>>

\* The wall clock, which may be set back.
ClockMoves ==
    /\ clock' \in 0..LastMillis
    /\ clock' # clock
    /\ UNCHANGED <<table, serving, crashes, client>>

HistoryNext ==
    \/ \E m \in Messages : MigrateRow(m) \/ StoreMessage(m)
    \/ Serve \/ RestartServer
    \/ DeleteHistory
    \/ \E failed \in {FALSE, DbMayFail} : OpenHistory(failed) \/ LoadMore(failed)
    \/ ClockMoves

\* Start-up makes progress, and a client that scrolls up goes on asking
\* and is answered; a query need not fail.
HistoryFairness ==
    /\ WF_historyVars(Serve \/ \E m \in Messages : MigrateRow(m))
    /\ WF_historyVars(LoadMore(FALSE))

HistorySpec == HistoryInit /\ [][HistoryNext]_historyVars /\ HistoryFairness

-----------------------------------------------------------------------------
(* Properties *)

\* The pages put together are chronological and show no message twice, although messages
\* are stored, the clock is set back and the server is restarted between them.
PagesFitTogether ==
    \A i, j \in DOMAIN shown :
        i < j => shown[i] # shown[j] /\ time[shown[i]] <= time[shown[j]]

\* A message that was there when the client opened, and still is, is shown, or is older and
\* announced by hasMore; only one stored in the same millisecond as the oldest message of
\* a page can be missed.
OnlyTiesAreMissed ==
    \A m \in atOpening \cap Stored :
        \/ m \in ToSet(shown)
        \/ misled
        \/ more /\ time[m] < time[shown[1]]
        \/ \E k \in ToSet(shown) : time[k] = time[m]

\* A client that goes on loading comes to the end, also while messages are stored, the clock
\* is set back and rows are deleted.
LoadingEnds == opened ~> ~more
=============================================================================
