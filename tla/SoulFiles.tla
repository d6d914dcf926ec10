------------------------------ MODULE SoulFiles ------------------------------
(***************************************************************************)
(* MEMORY.md and the daily log, as the memory and soul tools of concurrent  *)
(* runs and the HTTP routes change them: every call reads the file, edits   *)
(* the text and writes the file back, with awaits in between and no lock.   *)
(* memory_save with "append" reads the file twice, once for the section and *)
(* once inside update_section.                                             *)
(*                                                                         *)
(* A file is a sequence of sections, a section a heading and a set of       *)
(* entries; a missing file is an empty one.  A write truncates the file and *)
(* then writes it, in one blocking closure that an abort does not interrupt *)
(* but a crash does.                                                        *)
(***************************************************************************)
EXTENDS Naturals, Sequences, SequencesExt

CONSTANTS
    Ops,        \* calls of the tools and routes; the entry a call writes has its name
    Headings,   \* section headings of MEMORY.md
    Alike,      \* headings that differ only in the case of their letters
    Short,      \* a heading ...
    Longer,     \* ... and the headings that begin with it and a blank
    Blank,      \* the entry of a call whose content is empty
    Template,   \* the headings of MEMORY.md in a new group, in their order
    MaxCrashes, \* bound on the number of restarts
    IoMayFail   \* whether a read or a write may return an error

Kinds == {"append", "replace", "forget", "write", "log"}

ASSUME SoulFilesAssumption ==
    /\ Alike \subseteq Headings
    /\ Short \in Headings
    /\ Blank \notin Ops
    /\ Longer \subseteq Headings \ {Short}
    /\ Template \in Seq(Headings)
    /\ MaxCrashes \in Nat
    /\ IoMayFail \in BOOLEAN

VARIABLES
    file,      \* [Files -> content]
    phase,     \* [Ops -> where the call stands]
    call,      \* [Ops -> its arguments]
    text,      \* [Ops -> the new body of the section, for "append"]
    out,       \* [Ops -> the content to write]
    crashes,   \* restarts so far
    removable, \* history: [Ops -> the entries the call may remove]
    kept,      \* history: [Files -> the entries that calls left there and none removed]
    disturbed, \* history: calls overlapped, a read or write failed, a crash cut a write, or
               \* a save took a longer heading for its own
    detached   \* history: a save appended to a section that is apart from another, of its name
               \* up to case, that stands before it

history == <<removable, kept, disturbed, detached>>
soulVars == <<file, phase, call, text, out, crashes, history>>

Memory == "MEMORY.md"
DailyLog == "daily log"
Files == {Memory, DailyLog}

LogHeading == "# Daily Log"

Section == [head : Headings \cup {LogHeading}, body : SUBSET Ops]

\* What a call is asked to do; "entry" is what it leaves in the file or is to forget.
Calls == [kind : Kinds, head : Headings, entry : Ops \cup {Blank}]

NoCall == [kind |-> "none"]

Phases == {"none", "begun", "located", "ready", "truncated", "done", "failed", "gone"}

SoulTypeOK ==
    /\ file \in [Files -> Seq(Section)]
    /\ \A i \in DOMAIN file[Memory] : file[Memory][i].head \in Headings
    /\ phase \in [Ops -> Phases]
    /\ call \in [Ops -> Calls \cup {NoCall}]
    /\ text \in [Ops -> SUBSET Ops]
    /\ out \in [Ops -> Seq(Section)]
    /\ crashes \in 0..MaxCrashes
    /\ removable \in [Ops -> SUBSET Ops]
    /\ kept \in [Files -> SUBSET Ops]
    /\ disturbed \in BOOLEAN
    /\ detached \in BOOLEAN

\* The sections of the template hold no entries yet, and the first log of the day is missing.
SoulInit ==
    /\ file = [f \in Files |-> IF f = DailyLog THEN <<>>
                               ELSE [i \in DOMAIN Template |->
                                        [head |-> Template[i], body |-> {}]]]
    /\ phase = [o \in Ops |-> "none"]
    /\ call = [o \in Ops |-> NoCall]
    /\ text = [o \in Ops |-> {}]
    /\ out = [o \in Ops |-> <<>>]
    /\ crashes = 0
    /\ removable = [o \in Ops |-> {}]
    /\ kept = [f \in Files |-> {}]
    /\ disturbed = FALSE
    /\ detached = FALSE

-----------------------------------------------------------------------------
(* Editing the text *)

\* eq_ignore_ascii_case, in extract_section and forget.
Spells(g, h) == g = h \/ {g, h} \subseteq Alike

\* The line "## g" is taken for the heading h by markdown::update_section: it is equal, or
\* begins with "## h ".
Opens(g, h) == g = h \/ (h = Short /\ g \in Longer)

Bodies(content) == UNION {content[i].body : i \in DOMAIN content}

\* A section that spells h stands before the k-th, and one that does not between the two.
Apart(content, h, k) ==
    \E i, j \in 1..k : i < j /\ Spells(content[i].head, h) /\ ~Spells(content[j].head, h)

\* Mutant: the scan of the section ends at its own heading.
ExtractNothing(content, h) == {}

\* extract_section: from the first heading that matches to the next one that does not.
Extract(content, h) ==
    UNION {content[k].body : k \in
             {k \in DOMAIN content : Spells(content[k].head, h) /\ ~Apart(content, h, k)}}

\* The section that update_section replaces; 0 when there is none.
Found(content, h) == SelectInSeq(content, LAMBDA s : Opens(s.head, h))

\* markdown::update_section: replaces the first section that matches, or appends one.
UpdateSection(content, h, body) ==
    LET section == [head |-> h, body |-> body]
    IN  IF Found(content, h) = 0
        THEN Append(content, section)
        ELSE [content EXCEPT ![Found(content, h)] = section]

\* forget removes the matching lines of every section that matches.
Forget(content, h, entry) ==
    [i \in DOMAIN content |->
        IF Spells(content[i].head, h)
        THEN [content[i] EXCEPT !.body = @ \ {entry}]
        ELSE content[i]]

\* daily_log: the entry is put at the end; a file that cannot be read gets its header.
AddLogEntry(content, entry) == <<[head |-> LogHeading, body |-> Bodies(content) \cup {entry}]>>

\* What is in the file when another writer has put a text into it after both had truncated
\* it: mine, and of theirs, when it is longer, a tail that is cut anywhere.
Overlaid(mine, theirs) ==
    IF mine = <<>> THEN {theirs}
    ELSE {mine} \cup
         UNION {{[mine EXCEPT ![Len(mine)].body = @ \cup rest] \o SubSeq(theirs, k + 1, Len(theirs)) :
                    rest \in SUBSET theirs[k].body} : k \in DOMAIN theirs}

-----------------------------------------------------------------------------
(* The calls *)

\* Mutant: the daily log is written to MEMORY.md.
OneFile(o) == Memory

FileOf(o) == IF call[o].kind = "log" THEN DailyLog ELSE Memory

Busy(o) == phase[o] \in {"begun", "located", "ready", "truncated"}

\* What a call leaves in its file.
Leaves(o) == IF call[o].kind = "forget" THEN {} ELSE {call[o].entry} \ {Blank}

\* A call that has returned, or was dropped, has nothing in memory.
Return(o, how) ==
    /\ phase' = [phase EXCEPT ![o] = how]
    /\ text' = [text EXCEPT ![o] = {}]
    /\ out' = [out EXCEPT ![o] = <<>>]

Begin(o, c, next) ==
    /\ phase[o] = "none"
    /\ call' = [call EXCEPT ![o] = c]
    /\ phase' = [phase EXCEPT ![o] = next]
    /\ disturbed' = (disturbed \/ \E p \in Ops : Busy(p) /\ FileOf(p) = FileOf(o)')
    /\ UNCHANGED <<file, text, crashes, kept, detached>>

BeginReading(o, c) == Begin(o, c, "begun") /\ UNCHANGED <<out, removable>>

\* A text for the whole file is given: there is nothing to read.
BeginWriting(o, c) ==
    /\ Begin(o, c, "ready")
    /\ out' = [out EXCEPT ![o] = IF c.entry = Blank THEN <<>>
                                 ELSE <<[head |-> c.head, body |-> {o}]>>]
    /\ removable' = [removable EXCEPT ![o] = Ops]

\* memory_save, which wants a content.
MemorySave(o, h, action) ==
    BeginReading(o, [kind |-> action, head |-> h, entry |-> o])

\* soul_update_section, which takes an empty one too.
SoulUpdateSection(o, h, entry) ==
    BeginReading(o, [kind |-> "replace", head |-> h, entry |-> entry])

\* memory_forget
MemoryForget(o, h, entry) ==
    BeginReading(o, [kind |-> "forget", head |-> h, entry |-> entry])

\* memory_daily_log; the log has one heading.
MemoryDailyLog(o) == BeginReading(o, [kind |-> "log", head |-> Short, entry |-> o])

\* soul_update, which wants a content.
SoulUpdate(o, h) == BeginWriting(o, [kind |-> "write", head |-> h, entry |-> o])

\* PUT /api/soul/..., which takes an empty one too.
WriteSoul(o, h, entry) ==
    BeginWriting(o, [kind |-> "write", head |-> h, entry |-> entry])

\* read_to_string; a failed read is taken for an empty file.
Content(o, failed) == IF failed THEN <<>> ELSE file[FileOf(o)]

\* save with "append": the section as it is, and the new entry.
ReadSection(o) ==
    /\ phase[o] = "begun"
    /\ call[o].kind = "append"
    /\ \E failed \in {FALSE, IoMayFail} :
          /\ text' = [text EXCEPT ![o] = Extract(Content(o, failed), call[o].head) \cup {o}]
          /\ disturbed' = (disturbed \/ failed)
    /\ phase' = [phase EXCEPT ![o] = "located"]
    /\ UNCHANGED <<file, call, out, crashes, removable, kept, detached>>

\* update_section, for both kinds of save: the second read, or the only one.
ReadAndUpdate(o) ==
    /\ phase[o] = "located" \/ (phase[o] = "begun" /\ call[o].kind = "replace")
    /\ \E failed \in {FALSE, IoMayFail} :
          LET h == call[o].head
              content == Content(o, failed)
              found == Found(content, h)
              body == IF phase[o] = "located" THEN text[o] ELSE Leaves(o)
          IN  /\ out' = [out EXCEPT ![o] = UpdateSection(content, h, body)]
              /\ removable' = [removable EXCEPT ![o] =
                    IF phase[o] = "located" THEN {}
                    ELSE UNION {content[i].body : i \in {k \in DOMAIN content : content[k].head = h}}]
              /\ disturbed' = (disturbed \/ failed \/ (found # 0 /\ content[found].head # h))
              /\ detached' = (detached \/ (phase[o] = "located" /\ found # 0
                                            /\ Apart(content, h, found)))
    /\ phase' = [phase EXCEPT ![o] = "ready"]
    /\ UNCHANGED <<file, call, text, crashes, kept>>

\* daily_log
ReadLog(o) ==
    /\ phase[o] = "begun"
    /\ call[o].kind = "log"
    /\ \E failed \in {FALSE, IoMayFail} :
          /\ out' = [out EXCEPT ![o] = AddLogEntry(Content(o, failed), o)]
          /\ disturbed' = (disturbed \/ failed)
    /\ phase' = [phase EXCEPT ![o] = "ready"]
    /\ UNCHANGED <<file, call, text, crashes, removable, kept, detached>>

\* forget reads the file and edits it; when nothing matches it writes nothing.
ReadToForget(o) ==
    LET content == file[FileOf(o)]
        updated == Forget(content, call[o].head, call[o].entry)
    IN  /\ phase[o] = "begun"
        /\ call[o].kind = "forget"
        /\ phase' = [phase EXCEPT ![o] = IF updated = content THEN "done" ELSE "ready"]
        /\ out' = [out EXCEPT ![o] = IF updated = content THEN <<>> ELSE updated]
        /\ removable' = [removable EXCEPT ![o] =
                           IF updated = content THEN {} ELSE {call[o].entry}]
        /\ UNCHANGED <<file, call, text, crashes, kept, disturbed, detached>>

\* forget does not go on when it cannot read.
ForgetFails(o) ==
    /\ IoMayFail
    /\ phase[o] = "begun"
    /\ call[o].kind = "forget"
    /\ Return(o, "failed")
    /\ UNCHANGED <<file, call, crashes, history>>

\* Mutant: the file is opened without O_TRUNC.
OpenOnly(o) ==
    /\ phase[o] = "ready"
    /\ phase' = [phase EXCEPT ![o] = "truncated"]
    /\ UNCHANGED <<file, call, text, out, crashes, history>>

\* fs::write opens the file and truncates it ...
Truncate(o) ==
    /\ phase[o] = "ready"
    /\ phase' = [phase EXCEPT ![o] = "truncated"]
    /\ file' = [file EXCEPT ![FileOf(o)] = <<>>]
    /\ UNCHANGED <<call, text, out, crashes, history>>

\* ... and writes from its beginning.
WriteOut(o) ==
    LET f == FileOf(o)
    IN  /\ phase[o] = "truncated"
        /\ Return(o, "done")
        /\ \E content \in Overlaid(out[o], file[f]) : file' = [file EXCEPT ![f] = content]
        /\ kept' = [kept EXCEPT ![f] = (@ \ removable[o]) \cup Leaves(o)]
        /\ UNCHANGED <<call, crashes, removable, disturbed, detached>>

\* The disk is full: the file stays empty, the tool reports the error.
WriteFails(o) ==
    /\ IoMayFail
    /\ phase[o] = "truncated"
    /\ Return(o, "failed")
    /\ disturbed' = TRUE
    /\ UNCHANGED <<file, call, crashes, removable, kept, detached>>

\* The run is stopped, and the call dropped at one of its awaits.
DropCall(o) ==
    /\ phase[o] \in {"begun", "located", "ready"}
    /\ Return(o, "gone")
    /\ UNCHANGED <<file, call, crashes, history>>

\* The process dies.
Restart ==
    /\ crashes < MaxCrashes
    /\ crashes' = crashes + 1
    /\ phase' = [o \in Ops |-> IF Busy(o) THEN "gone" ELSE phase[o]]
    /\ disturbed' = (disturbed \/ \E o \in Ops : phase[o] = "truncated")
    /\ text' = [o \in Ops |-> {}]
    /\ out' = [o \in Ops |-> <<>>]
    /\ UNCHANGED <<file, call, removable, kept, detached>>

\* (A call that forgets leaves no entry of its own name, so none asks for that one.)
CallStep(o) ==
    \/ \E h \in Headings, action \in {"append", "replace"} : MemorySave(o, h, action)
    \/ \E h \in Headings, entry \in {o, Blank} :
          SoulUpdateSection(o, h, entry) \/ WriteSoul(o, h, entry)
    \/ \E h \in Headings, entry \in Ops \ {o} : MemoryForget(o, h, entry)
    \/ \E h \in Headings : SoulUpdate(o, h)
    \/ MemoryDailyLog(o)
    \/ ReadSection(o) \/ ReadAndUpdate(o) \/ ReadLog(o)
    \/ ReadToForget(o) \/ ForgetFails(o)
    \/ Truncate(o) \/ WriteOut(o) \/ WriteFails(o)
    \/ DropCall(o)

SoulNext == (\E o \in Ops : CallStep(o)) \/ Restart

SoulSpec == SoulInit /\ [][SoulNext]_soulVars

-----------------------------------------------------------------------------
(* Properties *)

Writing(f) == \E o \in Ops : phase[o] = "truncated" /\ FileOf(o) = f

\* The entry of a call stands in a text of its file; in MEMORY.md under its heading up to case.
Stands(o, f, content) ==
    IF f = DailyLog THEN o \in Bodies(content)
    ELSE \E i \in DOMAIN content :
            Spells(content[i].head, call[o].head) /\ o \in content[i].body

\* As long as calls do not overlap, nothing fails, no save takes another section for its own
\* and no append reads one section and replaces another, every entry a call wrote stays in
\* the file until a call that may remove it does; aborts and restarts between the steps of a
\* call lose nothing.
EntriesStay ==
    \A f \in Files : \A o \in kept[f] :
        disturbed \/ detached \/ Writing(f) \/ Stands(o, f, file[f])

\* The sections that spell the heading of the forgetting call do not hold its entry.
Forgotten(o, content) ==
    \A i \in DOMAIN content :
        Spells(content[i].head, call[o].head) => call[o].entry \notin content[i].body

\* What was forgotten does not come back from a copy of its section, which memory_save makes
\* when the case of the heading differs.
ForgottenIsGone ==
    \A o \in Ops :
        phase[o] = "done" /\ call[o].kind = "forget" /\ removable[o] # {} /\ ~disturbed
            => Forgotten(o, file[Memory])
=============================================================================
