-------------------------------- MODULE Groups --------------------------------
(***************************************************************************)
(* The directories of the groups: start-up provides the main group with a   *)
(* copy of the template "default", POST and DELETE /api/groups make and     *)
(* remove groups, and runs and routes write the soul files of a group.      *)
(*                                                                         *)
(* Nothing locks a directory: the steps of requests on one group interleave *)
(* at every call of the file system, and a crash or a failing call leaves   *)
(* what was done so far.  The template is taken to be whole and never        *)
(* changed, though a removal that spells "default" another way would take   *)
(* it; a single file is written at once (SoulFiles has the steps).          *)
(***************************************************************************)
EXTENDS FiniteSets, Naturals

CONSTANTS
    Groups,      \* folders of groups/ other than the template
    SoulFiles,   \* the files of default/soul
    Bootstrap,   \* BOOTSTRAP.md, one of them
    PlainFiles,  \* the files of default itself
    Creates,     \* POST /api/groups requests
    Deletes,     \* DELETE /api/groups requests
    Writes,      \* writes of a soul file, by tools and routes
    Nothing,     \* the group of a request that has not been made
    MaxCrashes,  \* bound on the number of restarts
    IoMayFail    \* whether a call of the file system may fail

ASSUME GroupsAssumption ==
    /\ Bootstrap \in SoulFiles
    /\ SoulFiles \cap PlainFiles = {}
    /\ Creates \cap Deletes = {} /\ Writes \cap (Creates \cup Deletes) = {}
    /\ Nothing \notin Groups
    /\ MaxCrashes \in Nat
    /\ IoMayFail \in BOOLEAN

VARIABLES
    dir,        \* [Groups -> which directories exist: none, the group's, also its soul's]
    file,       \* [Groups -> [Files -> what is in the file, if there is one]]
    main,       \* MAIN_GROUP of the running process
    boot,       \* where start-up stands
    stage,      \* [Requests -> where the request stands]
    about,      \* [Requests -> its group]
    todo,       \* [Requests \cup {Boot} -> files still to be copied or removed]
    crashes,    \* restarts so far
    touched,    \* history: [Groups -> soul files its users wrote or deleted]
    exposed,    \* history: [Groups -> those of them some creation had still to copy then]
    spoiled,    \* history: [Groups -> whether its making or removal went wrong, see Spoil]
    evicted     \* history: a removal of the main group of this process was accepted

disk == <<dir, file>>
process == <<main, boot, crashes>>
requests == <<stage, about>>
edits == <<touched, exposed>>
history == <<edits, spoiled, evicted>>
vars == <<disk, process, requests, todo, history>>

Files == SoulFiles \cup PlainFiles

Requests == Creates \cup Deletes \cup Writes

Boot == "start-up"

ASSUME BootAssumption == Boot \notin Requests

Stages == {"none", "checked", "soul", "plain", "removing", "made", "done", "failed", "gone"}

TypeOK ==
    /\ dir \in [Groups -> {"none", "group", "soul"}]
    /\ file \in [Groups -> [Files -> {"absent", "template", "edited"}]]
    /\ \A g \in Groups, f \in Files :
          file[g][f] # "absent" => dir[g] # "none" /\ (f \in SoulFiles => dir[g] = "soul")
    /\ main \in Groups
    /\ boot \in {"checking", "soul", "plain", "serving", "failed"}
    /\ stage \in [Requests -> Stages]
    /\ about \in [Requests -> Groups \cup {Nothing}]
    /\ todo \in [Requests \cup {Boot} -> SUBSET Files]
    /\ crashes \in 0..MaxCrashes
    /\ touched \in [Groups -> SUBSET SoulFiles]
    /\ exposed \in [Groups -> SUBSET SoulFiles]
    /\ spoiled \in [Groups -> BOOLEAN]
    /\ evicted \in BOOLEAN

Init ==
    /\ dir = [g \in Groups |-> "none"]
    /\ file = [g \in Groups |-> [f \in Files |-> "absent"]]
    /\ main \in Groups
    /\ boot = "checking"
    /\ stage = [x \in Requests |-> "none"]
    /\ about = [x \in Requests |-> Nothing]
    /\ todo = [x \in Requests \cup {Boot} |-> {}]
    /\ crashes = 0
    /\ touched = [g \in Groups |-> {}]
    /\ exposed = [g \in Groups |-> {}]
    /\ spoiled = [g \in Groups |-> FALSE]
    /\ evicted = FALSE

InFlight(x) == stage[x] \in {"checked", "soul", "plain", "removing"}

\* A creation or a removal of the group is under way.
Changing(g) == \E x \in Creates \cup Deletes : about[x] = g /\ InFlight(x)

MakeDirs(g) == dir' = [dir EXCEPT ![g] = "soul"]

Put(g, f, what) == file' = [file EXCEPT ![g][f] = what]

\* Something of the group's making or removal went wrong while it had a soul directory:
\* start-up or a creation was cut off by a crash or an error, a creation lost a copy and
\* answered 200 all the same, a removal was cut off or failed halfway, or a directory that
\* was removed was made again by a write or by the end of a creation.
Spoil(g) == spoiled' = [spoiled EXCEPT ![g] = TRUE]

\* Mutant: the soul directory is taken to be there when the group's is.
HasGroupDir(g, f) == dir[g] # "none"

\* The directory that the file goes into is there.
HasPlace(g, f) == dir[g] = "soul" \/ (f \in PlainFiles /\ dir[g] = "group")

-----------------------------------------------------------------------------
(* Start-up *)

\* Mutant: the template is copied at every start.
BootChecksNothing ==
    /\ boot = "checking"
    /\ MakeDirs(main)
    /\ boot' = "soul"
    /\ todo' = [todo EXCEPT ![Boot] = SoulFiles]
    /\ UNCHANGED <<file, main, crashes, requests, history>>

\* Mutant: it is the directory of the group that is looked for.
BootChecksGroupDir ==
    /\ boot = "checking"
    /\ IF dir[main] # "none"
       THEN boot' = "serving" /\ MakeDirs(main) /\ UNCHANGED todo
       ELSE /\ MakeDirs(main)
            /\ boot' = "soul"
            /\ todo' = [todo EXCEPT ![Boot] = SoulFiles]
    /\ UNCHANGED <<file, main, crashes, requests, history>>

\* A soul directory that exists is taken for a group that is complete.
BootChecks ==
    /\ boot = "checking"
    /\ IF dir[main] = "soul"
       THEN boot' = "serving" /\ UNCHANGED <<dir, todo>>
       ELSE /\ MakeDirs(main)
            /\ boot' = "soul"
            /\ todo' = [todo EXCEPT ![Boot] = SoulFiles]
    /\ UNCHANGED <<file, main, crashes, requests, history>>

\* The files of the template, the soul files first.
BootCopies(f) ==
    /\ boot \in {"soul", "plain"}
    /\ f \in todo[Boot]
    /\ Put(main, f, "template")
    /\ todo' = [todo EXCEPT ![Boot] = @ \ {f}]
    /\ UNCHANGED <<dir, process, requests, history>>

BootGoesOn ==
    /\ todo[Boot] = {}
    /\ \/ boot = "soul" /\ boot' = "plain" /\ todo' = [todo EXCEPT ![Boot] = PlainFiles]
       \/ boot = "plain" /\ boot' = "serving" /\ UNCHANGED todo
    /\ UNCHANGED <<disk, main, crashes, requests, history>>

\* A directory cannot be made or a copy fails, and the process ends with the error.
BootFails ==
    /\ IoMayFail
    /\ boot \in {"checking", "soul", "plain"}
    /\ boot' = "failed"
    /\ spoiled' = [spoiled EXCEPT ![main] = @ \/ boot # "checking"]
    /\ todo' = [todo EXCEPT ![Boot] = {}]
    /\ UNCHANGED <<disk, main, crashes, requests, edits, evicted>>

\* The process ends, by a crash or not, and is started again, maybe for another group.
Restart ==
    /\ crashes < MaxCrashes
    /\ crashes' = crashes + 1
    /\ main' \in Groups
    /\ boot' = "checking"
    /\ evicted' = FALSE
    /\ spoiled' = [g \in Groups |->
          spoiled[g] \/ (dir[g] = "soul" /\ (Changing(g) \/ (g = main /\ boot \in {"soul", "plain"})))]
    /\ stage' = [x \in Requests |-> IF stage[x] \in {"none", "done", "failed"} THEN stage[x] ELSE "gone"]
    /\ todo' = [x \in Requests \cup {Boot} |-> {}]
    /\ UNCHANGED <<disk, about, edits>>

-----------------------------------------------------------------------------
(* create_group *)

\* 409 when there is a directory of that name.
CreateChecks(x, g) ==
    /\ boot = "serving"
    /\ stage[x] = "none"
    /\ about' = [about EXCEPT ![x] = g]
    /\ stage' = [stage EXCEPT ![x] = IF dir[g] = "none" THEN "checked" ELSE "failed"]
    /\ UNCHANGED <<disk, process, todo, history>>

CreateMakesDirs(x) ==
    /\ stage[x] = "checked"
    /\ x \in Creates
    /\ MakeDirs(about[x])
    /\ stage' = [stage EXCEPT ![x] = "soul"]
    /\ todo' = [todo EXCEPT ![x] = SoulFiles]
    /\ UNCHANGED <<file, process, about, history>>

\* An error of a copy is dropped.
CreateCopies(x, f) ==
    LET g == about[x]
    IN  /\ stage[x] \in {"soul", "plain"}
        /\ f \in todo[x]
        /\ todo' = [todo EXCEPT ![x] = @ \ {f}]
        /\ \/ HasPlace(g, f) /\ Put(g, f, "template") /\ UNCHANGED spoiled
           \/ (IoMayFail \/ ~HasPlace(g, f)) /\ Spoil(g) /\ UNCHANGED file
        /\ UNCHANGED <<dir, process, requests, edits, evicted>>

\* After the soul files the plain ones; in the end the directory of the daily logs, with
\* the directories above it.
CreateGoesOn(x) ==
    LET g == about[x]
    IN  /\ todo[x] = {}
        /\ \/ /\ stage[x] = "soul"
              /\ stage' = [stage EXCEPT ![x] = "plain"]
              /\ todo' = [todo EXCEPT ![x] = PlainFiles]
              /\ UNCHANGED <<dir, spoiled>>
           \/ /\ stage[x] = "plain"
              /\ stage' = [stage EXCEPT ![x] = "done"]
              /\ MakeDirs(g)
              /\ spoiled' = [spoiled EXCEPT ![g] = @ \/ dir[g] # "soul"]
              /\ UNCHANGED todo
        /\ UNCHANGED <<file, process, about, edits, evicted>>

\* A directory cannot be made: 500, and what there is stays.
CreateFails(x) ==
    LET g == about[x]
    IN  /\ IoMayFail
        /\ stage[x] \in {"checked", "plain"} /\ x \in Creates /\ todo[x] = {}
        /\ stage' = [stage EXCEPT ![x] = "failed"]
        /\ \/ UNCHANGED dir
           \/ dir[g] = "none" /\ dir' = [dir EXCEPT ![g] = "group"]
        /\ UNCHANGED <<file, process, about, todo, history>>

-----------------------------------------------------------------------------
(* delete_group *)

\* The name is compared as a string, so the main group is refused only under its own
\* spelling: its directory under another one ("main/") is removed.  404 when there is none.
DeleteChecks(x, g) ==
    /\ boot = "serving"
    /\ stage[x] = "none"
    /\ about' = [about EXCEPT ![x] = g]
    /\ \/ /\ g = main \/ dir[g] = "none"
          /\ stage' = [stage EXCEPT ![x] = "failed"]
          /\ UNCHANGED <<todo, evicted>>
       \/ /\ dir[g] # "none"
          /\ stage' = [stage EXCEPT ![x] = "removing"]
          /\ todo' = [todo EXCEPT ![x] = {f \in Files : file[g][f] # "absent"}]
          /\ evicted' = (evicted \/ g = main)
    /\ UNCHANGED <<disk, process, edits, spoiled>>

\* What users did to these files of the group is gone with the group.
Forget(g, gone) ==
    /\ touched' = [touched EXCEPT ![g] = @ \ gone]
    /\ exposed' = [exposed EXCEPT ![g] = @ \ gone]

\* remove_dir_all unlinks the files it finds, one by one.
DeleteRemovesFile(x, f) ==
    /\ stage[x] = "removing"
    /\ f \in todo[x]
    /\ Put(about[x], f, "absent")
    /\ Forget(about[x], {f})
    /\ todo' = [todo EXCEPT ![x] = @ \ {f}]
    /\ UNCHANGED <<dir, process, requests, spoiled, evicted>>

\* A directory that is empty is removed, first the soul's, then the group's.
DeleteRemovesDir(x) ==
    LET g == about[x]
        left == {f \in Files : file[g][f] # "absent"}
    IN  /\ stage[x] = "removing"
        /\ \/ /\ dir[g] = "soul"
              /\ left \cup todo[x] \subseteq PlainFiles
              /\ dir' = [dir EXCEPT ![g] = "group"]
              /\ Forget(g, SoulFiles)
              /\ UNCHANGED <<stage, spoiled>>
           \/ /\ dir[g] = "group"
              /\ left \cup todo[x] = {}
              /\ dir' = [dir EXCEPT ![g] = "none"]
              /\ stage' = [stage EXCEPT ![x] = "done"]
              /\ spoiled' = [spoiled EXCEPT ![g] = FALSE]
              /\ UNCHANGED edits
        /\ UNCHANGED <<file, process, about, todo, evicted>>

\* A file or a directory made meanwhile, or another error, ends the removal with 500.
DeleteFails(x) ==
    LET g == about[x]
    IN  /\ stage[x] = "removing"
        /\ IoMayFail \/ dir[g] = "none" \/ \E f \in Files \ todo[x] : file[g][f] # "absent"
        /\ stage' = [stage EXCEPT ![x] = "failed"]
        /\ Spoil(g)
        /\ todo' = [todo EXCEPT ![x] = {}]
        /\ UNCHANGED <<disk, process, about, edits, evicted>>

-----------------------------------------------------------------------------
(* SoulManager *)

\* A run works on the group of its request when its soul directory exists, and else on
\* the main group, as the routes do.  SoulManager::write makes the directory first, even
\* when it has been removed since the run began ...
RunBegins(x, g) ==
    /\ boot = "serving"
    /\ stage[x] = "none"
    /\ about' = [about EXCEPT ![x] = IF dir[g] = "soul" THEN g ELSE main]
    /\ stage' = [stage EXCEPT ![x] = "checked"]
    /\ UNCHANGED <<disk, process, todo, history>>

WriteMakesDirs(x) ==
    LET g == about[x]
    IN  /\ stage[x] = "checked"
        /\ x \in Writes
        /\ MakeDirs(g)
        /\ stage' = [stage EXCEPT ![x] = "made"]
        /\ spoiled' = [spoiled EXCEPT ![g] = @ \/ dir[g] # "soul"]
        /\ UNCHANGED <<file, process, about, todo, edits, evicted>>

\* A creation of the group is under way that has still to copy the file.
StillCopies(g, f) ==
    \E x \in Creates : about[x] = g /\ (stage[x] = "checked" \/ (stage[x] = "soul" /\ f \in todo[x]))

\* A user wrote or deleted the file.
Touch(g, f) ==
    /\ touched' = [touched EXCEPT ![g] = @ \cup {f}]
    /\ exposed' = [exposed EXCEPT ![g] = IF StillCopies(g, f) THEN @ \cup {f} ELSE @ \ {f}]

\* ... and then writes the file.
WriteFile(x, f) ==
    LET g == about[x]
    IN  /\ stage[x] = "made"
        /\ f \in SoulFiles
        /\ IF HasPlace(g, f)
           THEN /\ Put(g, f, "edited")
                /\ Touch(g, f)
                /\ stage' = [stage EXCEPT ![x] = "done"]
           ELSE stage' = [stage EXCEPT ![x] = "failed"] /\ UNCHANGED <<file, edits>>
        /\ UNCHANGED <<dir, process, about, todo, spoiled, evicted>>

\* SoulManager::delete: only BOOTSTRAP.md can be deleted, and nothing happens when it is
\* not there.
DeleteBootstrap(x, g) ==
    /\ about' = [about EXCEPT ![x] = g]
    /\ stage' = [stage EXCEPT ![x] = "done"]
    /\ IF file[g][Bootstrap] = "absent"
       THEN UNCHANGED <<file, edits>>
       ELSE Put(g, Bootstrap, "absent") /\ Touch(g, Bootstrap)
    /\ UNCHANGED <<dir, process, todo, spoiled, evicted>>

\* The tool soul_delete of a run, and DELETE /api/soul/..., which is about the main group.
SoulDelete(x) == stage[x] = "checked" /\ DeleteBootstrap(x, about[x])

DeleteSoul(x) == boot = "serving" /\ stage[x] = "none" /\ DeleteBootstrap(x, main)

Next ==
    \/ BootChecks \/ BootGoesOn \/ BootFails \/ Restart
    \/ \E f \in Files : BootCopies(f)
    \/ \E x \in Creates :
          \/ \E g \in Groups : CreateChecks(x, g)
          \/ CreateMakesDirs(x) \/ CreateGoesOn(x) \/ CreateFails(x)
          \/ \E f \in Files : CreateCopies(x, f)
    \/ \E x \in Deletes :
          \/ \E g \in Groups : DeleteChecks(x, g)
          \/ DeleteRemovesDir(x) \/ DeleteFails(x)
          \/ \E f \in Files : DeleteRemovesFile(x, f)
    \/ \E x \in Writes :
          \/ \E g \in Groups : RunBegins(x, g)
          \/ WriteMakesDirs(x) \/ SoulDelete(x) \/ DeleteSoul(x)
          \/ \E f \in Files : WriteFile(x, f)

Spec == Init /\ [][Next]_vars

-----------------------------------------------------------------------------
(* Properties *)

\* What users of a group wrote into a soul file, or that they deleted BOOTSTRAP.md, is
\* undone by a copy of the template only if a creation that found no such group before had
\* still to copy that file when they did it (exposed): not by a restart, with this main
\* group or another one, and not by a creation that comes later or has copied the file
\* already.  A removal of the group takes its files, and the edits of them, one by one.
EditsAreKept ==
    \A g \in Groups : \A f \in touched[g] \ exposed[g] : file[g][f] # "template"

\* The process serves only when the main group has every file of the template, but for a
\* BOOTSTRAP.md that its users deleted, unless something went wrong with the making or the
\* removal of the group while it had a soul directory, the one thing start-up looks at
\* (Spoil), or the group was removed under another spelling while it was served.
MainIsComplete ==
    boot = "serving" /\ ~spoiled[main] /\ ~evicted =>
        \A f \in Files : file[main][f] # "absent" \/ (f = Bootstrap /\ f \in touched[main])
=============================================================================
