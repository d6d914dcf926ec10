----------------------------- MODULE GroupsProofs -----------------------------
(***************************************************************************)
(* Theorems about Groups, for any groups, files, requests and number of     *)
(* restarts, whether calls of the file system fail or not.  The argument:   *)
(* what users did and no creation had still to copy, none copies later, for *)
(* a creation begins only where there is no directory; and whatever is      *)
(* missing from a group that is not spoiled is still to be copied by        *)
(* someone, or the group is being removed.                                  *)
(***************************************************************************)
EXTENDS Groups, TLAPS

Idle == {"none", "done", "failed", "gone"}

\* Requests have a group and go through their own stages, while the process serves.
StagesFit ==
    /\ \A x \in Creates : stage[x] \in Idle \cup {"checked", "soul", "plain"}
    /\ \A x \in Deletes : stage[x] \in Idle \cup {"removing"}
    /\ \A x \in Writes : stage[x] \in Idle \cup {"checked", "made"}
    /\ \A x \in Requests :
          /\ stage[x] # "none" => about[x] \in Groups
          /\ boot # "serving" => stage[x] \in Idle
    /\ \A x \in Creates : stage[x] = "plain" => todo[x] \subseteq PlainFiles

\* A BOOTSTRAP.md that users deleted is not missing.
Missing(g) == {f \in Files : file[g][f] = "absent" /\ ~(f = Bootstrap /\ f \in touched[g])}

\* The main group of a process that copies or serves has its soul directory, and no
\* request makes or removes it unless a removal of it was accepted; what start-up has not
\* copied it still has to do.
MainStands ==
    /\ boot = "serving" /\ ~evicted => dir[main] = "soul" /\ ~Changing(main)
    /\ boot \in {"soul", "plain"} =>
          /\ dir[main] = "soul"
          /\ touched[main] = {}
          /\ Missing(main) \subseteq todo[Boot] \cup (IF boot = "soul" THEN PlainFiles ELSE {})

\* Users did something only in a soul directory that is still there, and what they did
\* unexposed no creation has still to copy.
TouchedStands ==
    \A g \in Groups :
        /\ touched[g] # {} => dir[g] = "soul"
        /\ \A f \in touched[g] \ exposed[g] : ~StillCopies(g, f)

\* What a request that makes a group still has to copy.
ToCome(x) == todo[x] \cup (IF stage[x] = "soul" THEN PlainFiles ELSE {})

Removing(g) == \E x \in Deletes : about[x] = g /\ stage[x] = "removing"

Making(g) ==
    \E x \in Creates :
        about[x] = g /\ stage[x] \in {"soul", "plain"} /\ Missing(g) \subseteq ToCome(x)

MissingIsToCome ==
    \A g \in Groups :
        dir[g] = "soul" /\ ~spoiled[g] =>
            \/ Missing(g) = {}
            \/ Removing(g)
            \/ Making(g)
            \/ g = main /\ boot \in {"soul", "plain"}

IInv ==
    /\ TypeOK
    /\ StagesFit
    /\ MainStands
    /\ TouchedStands
    /\ EditsAreKept
    /\ MissingIsToCome
USE DEF disk, process, requests, edits, history

-----------------------------------------------------------------------------
(* Requests and files *)

\* A request that is making or removing a group does so while the process serves, and if
\* that is its main group then a removal of it was accepted.
LEMMA RequestsInFlight ==
  ASSUME StagesFit, MainStands, NEW x \in Creates \cup Deletes, InFlight(x)
  PROVE  /\ boot = "serving" /\ about[x] \in Groups /\ Changing(about[x])
         /\ about[x] = main => evicted
<1>1. boot = "serving" /\ about[x] \in Groups
  BY DEF StagesFit, InFlight, Idle, Requests
<1>2. Changing(about[x])
  BY DEF Changing
<1>. QED
  BY <1>1, <1>2 DEF MainStands

\* While the process does not serve, no group is being made or removed.
LEMMA NothingInFlight ==
  ASSUME StagesFit, boot # "serving"
  PROVE  \A g : ~Changing(g) /\ ~Removing(g) /\ ~Making(g) /\ \A f : ~StillCopies(g, f)
  BY DEF StagesFit, InFlight, Changing, Removing, Making, StillCopies, Idle, Requests

\* Writing or removing a file changes that file only.
LEMMA PutChanges ==
  ASSUME TypeOK, NEW g \in Groups, NEW f \in Files, NEW what \in {"absent", "template", "edited"},
         Put(g, f, what)
  PROVE  /\ file' \in [Groups -> [Files -> {"absent", "template", "edited"}]]
         /\ \A h \in Groups, k \in Files :
                file'[h][k] = IF h = g /\ k = f THEN what ELSE file[h][k]
  BY DEF Put, TypeOK

-----------------------------------------------------------------------------
(* Start-up *)

LEMMA BootChecksPreserves == ASSUME IInv, BootChecks PROVE IInv'
<1>. USE DEF IInv
<1>1. /\ boot = "checking" /\ UNCHANGED <<file, main, crashes, stage, about, history>>
      /\ \/ dir[main] = "soul" /\ boot' = "serving" /\ UNCHANGED <<dir, todo>>
         \/ /\ dir[main] # "soul" /\ boot' = "soul"
            /\ dir' = [dir EXCEPT ![main] = "soul"]
            /\ todo' = [todo EXCEPT ![Boot] = SoulFiles]
  BY DEF BootChecks, MakeDirs
<1>2. /\ \A g : ~Changing(g) /\ ~Removing(g) /\ ~Making(g) /\ ~Changing(g)'
      /\ \A g, f : ~StillCopies(g, f)'
  <2>1. \A g : Changing(g)' <=> Changing(g)
    BY <1>1 DEF Changing, InFlight
  <2>2. \A g, f : ~StillCopies(g, f)'
    BY <1>1 DEF StillCopies, StagesFit, Idle, Requests
  <2>. QED
    BY <1>1, <2>1, <2>2, NothingInFlight
<1>3. TypeOK'
  BY <1>1, BootAssumption DEF TypeOK, Files
<1>4. StagesFit'
  BY <1>1 DEF StagesFit, Idle, Requests
<1>5. dir'[main] = "soul" /\ (boot' = "soul" => touched[main] = {} /\ todo'[Boot] = SoulFiles)
  BY <1>1 DEF TypeOK, TouchedStands
<1>6. MainStands'
  BY <1>1, <1>2, <1>5 DEF MainStands, Missing, Files
<1>7. TouchedStands'
  BY <1>1, <1>2 DEF TouchedStands, TypeOK
<1>8. EditsAreKept'
  BY <1>1 DEF EditsAreKept
<1>9. MissingIsToCome'
  <2>1. \A g : Missing(g)' = Missing(g)
    BY <1>1 DEF Missing
  <2>2. \A g \in Groups : dir'[g] = dir[g] \/ (g = main /\ boot' = "soul")
    BY <1>1 DEF TypeOK
  <2>. QED
    BY <1>1, <1>2, <2>1, <2>2 DEF MissingIsToCome
<1>. QED
  BY <1>3, <1>4, <1>6, <1>7, <1>8, <1>9

\* Users count on nothing that start-up copies.
LEMMA BootCopiesPreserves == ASSUME IInv, NEW f \in Files, BootCopies(f) PROVE IInv'
<1>. USE DEF IInv
<1>1. /\ boot \in {"soul", "plain"} /\ f \in todo[Boot] /\ Put(main, f, "template")
      /\ todo' = [todo EXCEPT ![Boot] = @ \ {f}]
      /\ UNCHANGED <<dir, main, boot, crashes, stage, about, history>>
  BY DEF BootCopies
<1>2. /\ main \in Groups /\ dir[main] = "soul" /\ touched[main] = {}
      /\ todo'[Boot] = todo[Boot] \ {f} /\ todo' \in [Requests \cup {Boot} -> SUBSET Files]
  BY <1>1 DEF TypeOK, MainStands
<1>3. /\ file' \in [Groups -> [Files -> {"absent", "template", "edited"}]]
      /\ \A h \in Groups, k \in Files :
             file'[h][k] = IF h = main /\ k = f THEN "template" ELSE file[h][k]
  BY <1>1, <1>2, PutChanges
<1>4. TypeOK'
  BY <1>1, <1>2, <1>3 DEF TypeOK
<1>5. StagesFit'
  BY <1>1 DEF StagesFit, Idle, Requests
<1>6. \A g : Changing(g)' <=> Changing(g)
  BY <1>1 DEF Changing, InFlight
<1>7. MainStands'
  <2>1. Missing(main)' \subseteq Missing(main) \ {f}
    BY <1>1, <1>2, <1>3 DEF Missing
  <2>. QED
    BY <1>1, <1>2, <1>6, <2>1 DEF MainStands
<1>8. TouchedStands'
  <2>1. \A g, k : ~StillCopies(g, k)'
    BY <1>1 DEF StillCopies, StagesFit, Idle, Requests
  <2>. QED
    BY <1>1, <2>1 DEF TouchedStands
<1>9. EditsAreKept'
  BY <1>1, <1>2, <1>3 DEF EditsAreKept, TypeOK, Files
<1>10. MissingIsToCome'
  <2>1. \A g \in Groups \ {main} : Missing(g)' = Missing(g)
    BY <1>1, <1>3 DEF Missing
  <2>2. \A g : ~Removing(g) /\ ~Making(g)
    BY <1>1, NothingInFlight
  <2>. QED
    BY <1>1, <2>1, <2>2 DEF MissingIsToCome
<1>. QED
  BY <1>4, <1>5, <1>7, <1>8, <1>9, <1>10

LEMMA BootGoesOnPreserves == ASSUME IInv, BootGoesOn PROVE IInv'
<1>. USE DEF IInv
<1>1. /\ todo[Boot] = {}
      /\ \/ boot = "soul" /\ boot' = "plain" /\ todo' = [todo EXCEPT ![Boot] = PlainFiles]
         \/ boot = "plain" /\ boot' = "serving" /\ todo' = todo
      /\ UNCHANGED <<dir, file, main, crashes, stage, about, history>>
  BY DEF BootGoesOn
<1>2. boot' = "plain" => todo'[Boot] = PlainFiles
  BY <1>1 DEF TypeOK
<1>3. TypeOK'
  <2>1. todo' \in [Requests \cup {Boot} -> SUBSET Files]
    BY <1>1 DEF TypeOK, Files
  <2>. QED
    BY <1>1, <2>1 DEF TypeOK
<1>4. StagesFit'
  BY <1>1 DEF StagesFit, Idle, Requests
<1>5. /\ \A g : ~Changing(g) /\ ~Removing(g) /\ ~Making(g) /\ ~Changing(g)'
      /\ \A g, f : ~StillCopies(g, f)'
  <2>1. \A g : Changing(g)' <=> Changing(g)
    BY <1>1 DEF Changing, InFlight
  <2>2. \A g, f : ~StillCopies(g, f)'
    BY <1>1 DEF StillCopies, StagesFit, Idle, Requests
  <2>. QED
    BY <1>1, <2>1, <2>2, NothingInFlight
<1>6. MainStands'
  BY <1>1, <1>2, <1>5 DEF MainStands, Missing
<1>7. TouchedStands' /\ EditsAreKept'
  BY <1>1, <1>5 DEF TouchedStands, EditsAreKept
<1>8. MissingIsToCome'
  <2>1. \A g : Missing(g)' = Missing(g)
    BY <1>1 DEF Missing
  <2>2. boot' = "serving" => Missing(main) = {}
    BY <1>1 DEF MainStands
  <2>. QED
    BY <1>1, <1>5, <2>1, <2>2 DEF MissingIsToCome
<1>. QED
  BY <1>3, <1>4, <1>6, <1>7, <1>8

\* Start-up that fails, and a restart, spoil what was being made.
LEMMA BootFailsPreserves == ASSUME IInv, BootFails PROVE IInv'
<1>. USE DEF IInv
<1>1. /\ boot \in {"checking", "soul", "plain"} /\ boot' = "failed"
      /\ spoiled' = [spoiled EXCEPT ![main] = @ \/ boot # "checking"]
      /\ todo' = [todo EXCEPT ![Boot] = {}]
      /\ UNCHANGED <<dir, file, main, crashes, stage, about, edits, evicted>>
  BY DEF BootFails
<1>2. TypeOK'
  BY <1>1, BootAssumption DEF TypeOK
<1>3. StagesFit' /\ MainStands'
  BY <1>1 DEF StagesFit, MainStands, Idle, Requests
<1>4. TouchedStands' /\ EditsAreKept'
  <2>1. \A g, f : ~StillCopies(g, f)'
    BY <1>1 DEF StillCopies, StagesFit, Idle, Requests
  <2>. QED
    BY <1>1, <2>1 DEF TouchedStands, EditsAreKept
<1>5. MissingIsToCome'
  <2>1. \A g : Missing(g)' = Missing(g)
    BY <1>1 DEF Missing
  <2>2. \A g : ~Removing(g) /\ ~Making(g)
    BY <1>1, NothingInFlight
  <2>3. \A g \in Groups : ~spoiled'[g] => ~spoiled[g] /\ (g = main => boot = "checking")
    BY <1>1 DEF TypeOK
  <2>. QED
    BY <1>1, <2>1, <2>2, <2>3 DEF MissingIsToCome
<1>. QED
  BY <1>2, <1>3, <1>4, <1>5

LEMMA RestartPreserves == ASSUME IInv, Restart PROVE IInv'
<1>. USE DEF IInv
<1>1. /\ crashes < MaxCrashes /\ crashes' = crashes + 1 /\ main' \in Groups /\ boot' = "checking"
      /\ spoiled' = [g \in Groups |-> spoiled[g]
            \/ (dir[g] = "soul" /\ (Changing(g) \/ (g = main /\ boot \in {"soul", "plain"})))]
      /\ stage' = [x \in Requests |->
            IF stage[x] \in {"none", "done", "failed"} THEN stage[x] ELSE "gone"]
      /\ todo' = [x \in Requests \cup {Boot} |-> {}]
      /\ UNCHANGED <<dir, file, about, edits>>
      /\ evicted' = FALSE
  BY DEF Restart
<1>2. TypeOK'
  <2>1. stage' \in [Requests -> Stages]
    BY <1>1 DEF TypeOK, Stages
  <2>2. spoiled' \in [Groups -> BOOLEAN]
    BY <1>1, Zenon
  <2>3. crashes' \in 0..MaxCrashes
    BY <1>1, GroupsAssumption DEF TypeOK
  <2>4. todo' \in [Requests \cup {Boot} -> SUBSET Files]
    BY <1>1
  <2>. QED
    BY <1>1, <2>1, <2>2, <2>3, <2>4 DEF TypeOK
<1>3. \A x \in Requests : stage'[x] \in Idle /\ (stage'[x] # "none" => stage[x] # "none")
  BY <1>1 DEF Idle
<1>4. StagesFit'
  BY <1>1, <1>3 DEF StagesFit, Requests
<1>5. MainStands' /\ EditsAreKept'
  BY <1>1 DEF MainStands, EditsAreKept
<1>6. TouchedStands'
  <2>1. \A g, f : ~StillCopies(g, f)'
    BY <1>3 DEF StillCopies, Idle, Requests
  <2>. QED
    BY <1>1, <2>1 DEF TouchedStands
<1>7. MissingIsToCome'
  <2>1. \A g : Missing(g)' = Missing(g)
    BY <1>1 DEF Missing
  <2>2. \A g : Removing(g) \/ Making(g) => Changing(g)
    BY DEF Removing, Making, Changing, InFlight
  <2>3. \A g \in Groups : dir[g] = "soul" /\ ~spoiled'[g] =>
            ~spoiled[g] /\ ~Changing(g) /\ ~(g = main /\ boot \in {"soul", "plain"})
    BY <1>1, Zenon
  <2>. QED
    BY <1>1, <2>1, <2>2, <2>3 DEF MissingIsToCome
<1>. QED
  BY <1>2, <1>4, <1>5, <1>6, <1>7
-----------------------------------------------------------------------------
(* create_group *)

\* A step that touches no file, and neither begins nor ends a change to a group but for
\* requests that are about to begin one on a group without directories.
LEMMA CreateChecksPreserves ==
  ASSUME IInv, NEW x \in Creates, NEW g \in Groups, CreateChecks(x, g) PROVE IInv'
<1>. USE DEF IInv
<1>1. /\ boot = "serving" /\ stage[x] = "none" /\ about' = [about EXCEPT ![x] = g]
      /\ \/ dir[g] = "none" /\ stage' = [stage EXCEPT ![x] = "checked"]
         \/ stage' = [stage EXCEPT ![x] = "failed"]
      /\ UNCHANGED <<dir, file, main, boot, crashes, todo, history>>
  BY DEF CreateChecks
<1>2. /\ x \in Requests /\ x \notin Deletes /\ x \notin Writes
      /\ \A y \in Requests : y # x => stage'[y] = stage[y] /\ about'[y] = about[y]
      /\ about'[x] = g /\ stage'[x] \in {"checked", "failed"}
      /\ stage'[x] = "checked" => dir[g] = "none"
  BY <1>1, GroupsAssumption DEF TypeOK, Requests
<1>3. TypeOK'
  BY <1>1 DEF TypeOK, Stages
<1>4. StagesFit'
  BY <1>1, <1>2 DEF StagesFit, Idle, Requests
<1>5. \A h : Changing(h)' => Changing(h) \/ (h = g /\ dir[g] = "none")
  BY <1>2 DEF Changing, InFlight, Requests
<1>6. MainStands'
  BY <1>1, <1>5 DEF MainStands
<1>7. TouchedStands' /\ EditsAreKept'
  <2>1. \A h, f : StillCopies(h, f)' => StillCopies(h, f) \/ (h = g /\ dir[g] = "none")
    BY <1>1, <1>2 DEF StillCopies, Requests
  <2>. QED
    BY <1>1, <2>1 DEF TouchedStands, EditsAreKept
<1>8. MissingIsToCome'
  <2>1. \A h : Missing(h)' = Missing(h)
    BY <1>1 DEF Missing
  <2>2. \A h : Removing(h) => Removing(h)'
    BY <1>2 DEF Removing, Requests
  <2>3. \A h : Making(h) => Making(h)'
    BY <1>1, <1>2, <2>1 DEF Making, ToCome, Requests
  <2>. QED
    BY <1>1, <2>1, <2>2, <2>3 DEF MissingIsToCome
<1>. QED
  BY <1>3, <1>4, <1>6, <1>7, <1>8

\* The new directories are the place of all that the request has to copy.
LEMMA CreateMakesDirsPreserves ==
  ASSUME IInv, NEW x \in Creates, CreateMakesDirs(x) PROVE IInv'
<1>. USE DEF IInv
<1>. DEFINE g == about[x]
<1>1. /\ stage[x] = "checked" /\ dir' = [dir EXCEPT ![g] = "soul"]
      /\ stage' = [stage EXCEPT ![x] = "soul"] /\ todo' = [todo EXCEPT ![x] = SoulFiles]
      /\ UNCHANGED <<file, main, boot, crashes, about, history>>
  BY DEF CreateMakesDirs, MakeDirs
<1>2. boot = "serving" /\ g \in Groups /\ Changing(g) /\ (g = main => evicted)
  BY <1>1, RequestsInFlight DEF InFlight
<1>3. /\ x \in Requests /\ x \notin Deletes /\ x \notin Writes
      /\ \A y \in Requests : y # x => stage'[y] = stage[y] /\ todo'[y] = todo[y]
      /\ stage'[x] = "soul" /\ todo'[x] = SoulFiles
      /\ dir'[g] = "soul" /\ \A h \in Groups : h # g => dir'[h] = dir[h]
  BY <1>1, <1>2, GroupsAssumption DEF TypeOK, Requests
<1>4. TypeOK'
  <2>1. dir' \in [Groups -> {"none", "group", "soul"}] /\ stage' \in [Requests -> Stages]
    BY <1>1 DEF TypeOK, Stages
  <2>2. todo' \in [Requests \cup {Boot} -> SUBSET Files]
    BY <1>1 DEF TypeOK, Files
  <2>. QED
    BY <1>1, <1>3, <2>1, <2>2 DEF TypeOK
<1>5. StagesFit'
  BY <1>1, <1>2, <1>3 DEF StagesFit, Idle, Requests
<1>6. \A h : Changing(h)' => Changing(h)
  BY <1>1, <1>3 DEF Changing, InFlight, Requests
<1>7. MainStands'
  BY <1>1, <1>2, <1>3, <1>6 DEF MainStands, TypeOK
<1>8. TouchedStands' /\ EditsAreKept'
  <2>1. \A h, f : StillCopies(h, f)' => StillCopies(h, f)
    BY <1>1, <1>3 DEF StillCopies, Requests
  <2>. QED
    BY <1>1, <1>2, <1>3, <2>1 DEF TouchedStands, EditsAreKept, TypeOK
<1>9. MissingIsToCome'
  <2>1. \A h : Missing(h)' = Missing(h)
    BY <1>1 DEF Missing
  <2>2. \A h : Removing(h) => Removing(h)'
    BY <1>1, <1>3 DEF Removing, Requests
  <2>3. \A h : Making(h) => Making(h)'
    BY <1>1, <1>3, <2>1 DEF Making, ToCome, Requests
  <2>4. Making(g)'
    BY <1>1, <1>3 DEF Making, ToCome, Missing, Files
  <2>. QED
    BY <1>1, <1>3, <2>1, <2>2, <2>3, <2>4 DEF MissingIsToCome
<1>. QED
  BY <1>4, <1>5, <1>7, <1>8, <1>9

\* A file is copied, or the group is spoiled.
LEMMA CreateCopiesPreserves ==
  ASSUME IInv, NEW x \in Creates, NEW f \in Files, CreateCopies(x, f) PROVE IInv'
<1>. USE DEF IInv
<1>. DEFINE g == about[x]
<1>1. /\ stage[x] \in {"soul", "plain"} /\ f \in todo[x] /\ todo' = [todo EXCEPT ![x] = @ \ {f}]
      /\ \/ HasPlace(g, f) /\ Put(g, f, "template") /\ spoiled' = spoiled
         \/ spoiled' = [spoiled EXCEPT ![g] = TRUE] /\ file' = file
      /\ UNCHANGED <<dir, main, boot, crashes, stage, about, edits, evicted>>
  BY DEF CreateCopies, Spoil
<1>2. boot = "serving" /\ g \in Groups /\ Changing(g) /\ (g = main => evicted)
  BY <1>1, RequestsInFlight DEF InFlight
<1>3. /\ x \in Requests /\ todo'[x] = todo[x] \ {f}
      /\ \A y \in Requests : y # x => todo'[y] = todo[y]
      /\ todo' \in [Requests \cup {Boot} -> SUBSET Files]
      /\ todo'[Boot] = todo[Boot]
  BY <1>1, BootAssumption DEF TypeOK, Requests
<1>4. /\ file' \in [Groups -> [Files -> {"absent", "template", "edited"}]]
      /\ \A h \in Groups, k \in Files :
            file'[h][k] # "absent" => file[h][k] # "absent" \/ (h = g /\ k = f /\ HasPlace(g, f))
      /\ \A h \in Groups, k \in Files : h # g => file'[h][k] = file[h][k]
      /\ \A k \in Files : file[g][k] # "absent" => file'[g][k] # "absent"
      /\ spoiled'[g] \/ (file'[g][f] # "absent" /\ spoiled' = spoiled)
      /\ \A h \in Groups : h # g => spoiled'[h] = spoiled[h]
      /\ spoiled' \in [Groups -> BOOLEAN]
  <2>1. CASE HasPlace(g, f) /\ Put(g, f, "template") /\ spoiled' = spoiled
    <3>1. /\ file' \in [Groups -> [Files -> {"absent", "template", "edited"}]]
          /\ \A h \in Groups, k \in Files :
                file'[h][k] = IF h = g /\ k = f THEN "template" ELSE file[h][k]
      BY <1>2, <2>1, PutChanges
    <3>. QED
      BY <1>2, <2>1, <3>1 DEF TypeOK
  <2>2. CASE spoiled' = [spoiled EXCEPT ![g] = TRUE] /\ file' = file
    BY <1>2, <2>2 DEF TypeOK
  <2>. QED
    BY <1>1, <2>1, <2>2
<1>5. TypeOK'
  <2>1. HasPlace(g, f) => dir[g] # "none" /\ (f \in SoulFiles => dir[g] = "soul")
    BY GroupsAssumption DEF HasPlace
  <2>. QED
    BY <1>1, <1>3, <1>4, <2>1 DEF TypeOK
<1>6. StagesFit'
  BY <1>1, <1>3 DEF StagesFit, Requests
<1>7. \A h : Changing(h)' <=> Changing(h)
  BY <1>1 DEF Changing, InFlight
<1>8. MainStands'
  BY <1>1, <1>2, <1>7 DEF MainStands
<1>9. TouchedStands' /\ EditsAreKept'
  <2>1. TouchedStands'
    <3>1. \A h, k : StillCopies(h, k)' => StillCopies(h, k)
      BY <1>1, <1>3 DEF StillCopies, Requests
    <3>. QED
      BY <1>1, <3>1 DEF TouchedStands
  <2>2. EditsAreKept'
    <3>1. f \notin touched[g] \ exposed[g]
      <4>1. f \in SoulFiles => StillCopies(g, f)
        BY <1>1, GroupsAssumption DEF StillCopies, StagesFit
      <4>. QED
        BY <1>2, <4>1 DEF TouchedStands, TypeOK
    <3>2. \A h \in Groups, k \in Files : file'[h][k] = file[h][k] \/ (h = g /\ k = f)
      BY <1>1, <1>2, PutChanges
    <3>. QED
      BY <1>1, <3>1, <3>2 DEF EditsAreKept, TypeOK, Files
  <2>. QED
    BY <2>1, <2>2
<1>10. MissingIsToCome'
  <2>1. /\ \A h \in Groups : h # g => Missing(h)' = Missing(h)
        /\ Missing(g)' \subseteq Missing(g)
        /\ ~spoiled'[g] => f \notin Missing(g)' /\ ~spoiled[g]
    BY <1>1, <1>4 DEF Missing
  <2>2. \A h : Removing(h) => Removing(h)'
    BY <1>1 DEF Removing
  <2>3. \A h \in Groups : h # g /\ Making(h) => Making(h)'
    BY <1>1, <1>3, <2>1 DEF Making, ToCome, Requests
  <2>4. ~spoiled'[g] /\ Making(g) => Making(g)'
    BY <1>1, <1>3, <2>1 DEF Making, ToCome, Requests
  <2>5. Missing(g) = {} => Missing(g)' = {}
    BY <2>1
  <2>. QED
    BY <1>1, <1>2, <1>4, <2>1, <2>2, <2>3, <2>4, <2>5 DEF MissingIsToCome
<1>. QED
  BY <1>5, <1>6, <1>8, <1>9, <1>10
\* The request goes on to the plain files, or ends with its group complete.
LEMMA CreateGoesOnPreserves ==
  ASSUME IInv, NEW x \in Creates, CreateGoesOn(x) PROVE IInv'
<1>. USE DEF IInv
<1>. DEFINE g == about[x]
<1>1. /\ todo[x] = {}
      /\ \/ /\ stage[x] = "soul" /\ stage' = [stage EXCEPT ![x] = "plain"]
            /\ todo' = [todo EXCEPT ![x] = PlainFiles]
            /\ UNCHANGED <<dir, spoiled>>
         \/ /\ stage[x] = "plain" /\ stage' = [stage EXCEPT ![x] = "done"]
            /\ dir' = [dir EXCEPT ![g] = "soul"]
            /\ spoiled' = [spoiled EXCEPT ![g] = @ \/ dir[g] # "soul"]
            /\ UNCHANGED todo
      /\ UNCHANGED <<file, main, boot, crashes, about, edits, evicted>>
  BY DEF CreateGoesOn, MakeDirs
<1>2. boot = "serving" /\ g \in Groups /\ Changing(g) /\ (g = main => evicted)
  BY <1>1, RequestsInFlight DEF InFlight
<1>3. /\ x \in Requests /\ x \notin Deletes /\ x \notin Writes
      /\ \A y \in Requests : y # x => stage'[y] = stage[y] /\ todo'[y] = todo[y]
      /\ \/ stage[x] = "soul" /\ stage'[x] = "plain" /\ todo'[x] = PlainFiles
         \/ stage[x] = "plain" /\ stage'[x] = "done"
      /\ \A h \in Groups : dir'[h] = dir[h] \/ (h = g /\ dir'[h] = "soul")
      /\ \A h \in Groups : ~spoiled'[h] => ~spoiled[h] /\ dir'[h] = dir[h]
  BY <1>1, <1>2, GroupsAssumption DEF TypeOK, Requests
<1>4. TypeOK'
  <2>1. dir' \in [Groups -> {"none", "group", "soul"}] /\ stage' \in [Requests -> Stages]
    BY <1>1 DEF TypeOK, Stages
  <2>2. todo' \in [Requests \cup {Boot} -> SUBSET Files]
    BY <1>1 DEF TypeOK, Files
  <2>3. spoiled' \in [Groups -> BOOLEAN]
    BY <1>1 DEF TypeOK
  <2>. QED
    BY <1>1, <1>3, <2>1, <2>2, <2>3 DEF TypeOK
<1>5. StagesFit'
  BY <1>1, <1>2, <1>3 DEF StagesFit, Idle, Requests
<1>6. \A h : Changing(h)' => Changing(h)
  BY <1>1, <1>3 DEF Changing, InFlight, Requests
<1>7. MainStands'
  BY <1>1, <1>2, <1>3, <1>6 DEF MainStands, TypeOK
<1>8. TouchedStands' /\ EditsAreKept'
  <2>1. \A h, f : StillCopies(h, f)' => StillCopies(h, f)
    BY <1>1, <1>3 DEF StillCopies, Requests
  <2>. QED
    BY <1>1, <1>2, <1>3, <2>1 DEF TouchedStands, EditsAreKept, TypeOK
<1>9. MissingIsToCome'
  <2>1. \A h : Missing(h)' = Missing(h)
    BY <1>1 DEF Missing
  <2>2. \A h : Removing(h) => Removing(h)'
    BY <1>1, <1>3 DEF Removing, Requests
  <2>3. \A h : Making(h) => Making(h)' \/ Missing(h) = {}
    BY <1>1, <1>3, <2>1 DEF Making, ToCome, Requests
  <2>. QED
    BY <1>1, <1>3, <2>1, <2>2, <2>3 DEF MissingIsToCome
<1>. QED
  BY <1>4, <1>5, <1>7, <1>8, <1>9

\* A request that fails has copied all that it had to copy, or nothing yet.
LEMMA CreateFailsPreserves ==
  ASSUME IInv, NEW x \in Creates, CreateFails(x) PROVE IInv'
<1>. USE DEF IInv
<1>. DEFINE g == about[x]
<1>1. /\ stage[x] \in {"checked", "plain"} /\ todo[x] = {}
      /\ stage' = [stage EXCEPT ![x] = "failed"]
      /\ dir' = dir \/ (dir[g] = "none" /\ dir' = [dir EXCEPT ![g] = "group"])
      /\ UNCHANGED <<file, main, boot, crashes, about, todo, history>>
  BY DEF CreateFails
<1>2. boot = "serving" /\ g \in Groups /\ Changing(g) /\ (g = main => evicted)
  BY <1>1, RequestsInFlight DEF InFlight
<1>3. /\ x \in Requests /\ x \notin Deletes /\ x \notin Writes
      /\ \A y \in Requests : y # x => stage'[y] = stage[y]
      /\ stage'[x] = "failed"
      /\ \A h \in Groups : dir'[h] = dir[h] \/ (h = g /\ dir[h] = "none" /\ dir'[h] = "group")
  BY <1>1, <1>2, GroupsAssumption DEF TypeOK, Requests
<1>4. TypeOK'
  <2>1. dir' \in [Groups -> {"none", "group", "soul"}] /\ stage' \in [Requests -> Stages]
    BY <1>1 DEF TypeOK, Stages
  <2>. QED
    BY <1>1, <1>3, <2>1 DEF TypeOK
<1>5. StagesFit'
  BY <1>1, <1>2, <1>3 DEF StagesFit, Idle, Requests
<1>6. \A h : Changing(h)' => Changing(h)
  BY <1>1, <1>3 DEF Changing, InFlight, Requests
<1>7. MainStands'
  BY <1>1, <1>2, <1>3, <1>6 DEF MainStands, TypeOK
<1>8. TouchedStands' /\ EditsAreKept'
  <2>1. \A h, f : StillCopies(h, f)' => StillCopies(h, f)
    BY <1>1, <1>3 DEF StillCopies, Requests
  <2>. QED
    BY <1>1, <1>2, <1>3, <2>1 DEF TouchedStands, EditsAreKept, TypeOK
<1>9. MissingIsToCome'
  <2>1. \A h : Missing(h)' = Missing(h)
    BY <1>1 DEF Missing
  <2>2. \A h : Removing(h) => Removing(h)'
    BY <1>1, <1>3 DEF Removing, Requests
  <2>3. \A h : Making(h) => Making(h)' \/ Missing(h) = {}
    BY <1>1, <1>3, <2>1 DEF Making, ToCome, Requests
  <2>. QED
    BY <1>1, <1>3, <2>1, <2>2, <2>3 DEF MissingIsToCome
<1>. QED
  BY <1>4, <1>5, <1>7, <1>8, <1>9

-----------------------------------------------------------------------------
(* delete_group *)

\* No file is changed; the group is being removed from now on.
LEMMA DeleteChecksPreserves ==
  ASSUME IInv, NEW x \in Deletes, NEW g \in Groups, DeleteChecks(x, g) PROVE IInv'
<1>. USE DEF IInv
<1>1. /\ boot = "serving" /\ stage[x] = "none"
      /\ about' = [about EXCEPT ![x] = g]
      /\ \/ stage' = [stage EXCEPT ![x] = "failed"] /\ UNCHANGED <<todo, evicted>>
         \/ /\ stage' = [stage EXCEPT ![x] = "removing"]
            /\ todo' = [todo EXCEPT ![x] = {f \in Files : file[g][f] # "absent"}]
            /\ evicted' = (evicted \/ g = main)
      /\ UNCHANGED <<dir, file, main, boot, crashes, edits, spoiled>>
  BY DEF DeleteChecks
<1>2. /\ x \in Requests /\ x \notin Creates /\ x \notin Writes
      /\ \A y \in Requests : y # x => stage'[y] = stage[y] /\ about'[y] = about[y] /\ todo'[y] = todo[y]
      /\ about'[x] = g /\ stage'[x] \in {"failed", "removing"}
      /\ evicted => evicted'
      /\ stage'[x] = "removing" /\ g = main => evicted'
  BY <1>1, GroupsAssumption DEF TypeOK, Requests
<1>3. TypeOK'
  <2>. DEFINE found == {f \in Files : file[g][f] # "absent"}
  <2>1. todo' \in [Requests \cup {Boot} -> SUBSET Files]
    <3>1. found \in SUBSET Files /\ (todo' = todo \/ todo' = [todo EXCEPT ![x] = found])
      BY <1>1
    <3>. HIDE DEF found
    <3>. QED
      BY <3>1 DEF TypeOK
  <2>2. evicted' \in BOOLEAN
    BY <1>1 DEF TypeOK
  <2>. QED
    BY <1>1, <2>1, <2>2 DEF TypeOK, Stages
<1>4. StagesFit'
  BY <1>1, <1>2 DEF StagesFit, Idle, Requests
<1>5. \A h : Changing(h)' => Changing(h) \/ (h = g /\ stage'[x] = "removing")
  BY <1>2 DEF Changing, InFlight, Requests
<1>6. MainStands'
  BY <1>1, <1>2, <1>5 DEF MainStands
<1>7. TouchedStands' /\ EditsAreKept'
  <2>1. \A h, f : StillCopies(h, f)' => StillCopies(h, f)
    BY <1>1, <1>2 DEF StillCopies, Requests
  <2>. QED
    BY <1>1, <2>1 DEF TouchedStands, EditsAreKept
<1>8. MissingIsToCome'
  <2>1. \A h : Missing(h)' = Missing(h)
    BY <1>1 DEF Missing
  <2>2. \A h : Removing(h) => Removing(h)'
    BY <1>1, <1>2 DEF Removing, Requests
  <2>3. \A h : Making(h) => Making(h)'
    BY <1>1, <1>2, <2>1 DEF Making, ToCome, Requests
  <2>. QED
    BY <1>1, <2>1, <2>2, <2>3 DEF MissingIsToCome
<1>. QED
  BY <1>3, <1>4, <1>6, <1>7, <1>8

\* What is forgotten is counted no more, and the rest stays as it was.
LEMMA Forgotten ==
  ASSUME TypeOK, NEW g \in Groups, NEW gone, Forget(g, gone)
  PROVE  /\ touched' \in [Groups -> SUBSET SoulFiles] /\ exposed' \in [Groups -> SUBSET SoulFiles]
         /\ \A h \in Groups : h # g => touched'[h] = touched[h] /\ exposed'[h] = exposed[h]
         /\ touched'[g] = touched[g] \ gone /\ exposed'[g] = exposed[g] \ gone
         /\ \A h \in Groups : touched'[h] \ exposed'[h] \subseteq touched[h] \ exposed[h]
<1>1. /\ touched' \in [Groups -> SUBSET SoulFiles] /\ exposed' \in [Groups -> SUBSET SoulFiles]
      /\ \A h \in Groups : h # g => touched'[h] = touched[h] /\ exposed'[h] = exposed[h]
      /\ touched'[g] = touched[g] \ gone /\ exposed'[g] = exposed[g] \ gone
  BY DEF Forget, TypeOK
<1>. QED
  BY <1>1

LEMMA DeleteRemovesFilePreserves ==
  ASSUME IInv, NEW x \in Deletes, NEW f \in Files, DeleteRemovesFile(x, f) PROVE IInv'
<1>. USE DEF IInv
<1>. DEFINE g == about[x]
<1>1. /\ stage[x] = "removing" /\ Put(g, f, "absent") /\ Forget(g, {f})
      /\ todo' = [todo EXCEPT ![x] = @ \ {f}]
      /\ UNCHANGED <<dir, main, boot, crashes, stage, about, spoiled, evicted>>
  BY DEF DeleteRemovesFile
<1>2. boot = "serving" /\ g \in Groups /\ Changing(g) /\ (g = main => evicted)
  BY <1>1, RequestsInFlight DEF InFlight
<1>3. /\ x \in Requests /\ x \notin Creates
      /\ \A y \in Requests : y # x => todo'[y] = todo[y]
      /\ todo' \in [Requests \cup {Boot} -> SUBSET Files]
  BY <1>1, GroupsAssumption DEF TypeOK, Requests
<1>4. /\ file' \in [Groups -> [Files -> {"absent", "template", "edited"}]]
      /\ \A h \in Groups, k \in Files :
             file'[h][k] = IF h = g /\ k = f THEN "absent" ELSE file[h][k]
  BY <1>1, <1>2, PutChanges
<1>4a. /\ touched' \in [Groups -> SUBSET SoulFiles] /\ exposed' \in [Groups -> SUBSET SoulFiles]
       /\ \A h \in Groups : h # g => touched'[h] = touched[h]
       /\ \A h \in Groups : touched'[h] \subseteq touched[h]
       /\ \A h \in Groups : touched'[h] \ exposed'[h] \subseteq touched[h] \ exposed[h]
  BY <1>1, <1>2, Forgotten
<1>5. TypeOK'
  BY <1>1, <1>3, <1>4, <1>4a DEF TypeOK
<1>6. StagesFit'
  BY <1>1, <1>3 DEF StagesFit, Requests
<1>7. \A h : Changing(h)' <=> Changing(h)
  BY <1>1 DEF Changing, InFlight
<1>8. MainStands'
  BY <1>1, <1>2, <1>7 DEF MainStands
<1>9. TouchedStands' /\ EditsAreKept'
  <2>1. \A h, k : StillCopies(h, k)' => StillCopies(h, k)
    BY <1>1, <1>3 DEF StillCopies, Requests
  <2>2. TouchedStands'
    BY <1>1, <1>4a, <2>1 DEF TouchedStands
  <2>3. EditsAreKept'
    <3>1. \A h \in Groups, k \in Files : file'[h][k] = "template" => file[h][k] = "template"
      BY <1>4
    <3>2. \A h \in Groups : touched[h] \subseteq Files
      BY DEF TypeOK, Files
    <3>. QED
      BY <1>4a, <3>1, <3>2 DEF EditsAreKept
  <2>. QED
    BY <2>2, <2>3
<1>10. MissingIsToCome'
  <2>1. \A h \in Groups : h # g => Missing(h)' = Missing(h)
    BY <1>1, <1>4, <1>4a DEF Missing
  <2>2. \A h : Removing(h) => Removing(h)'
    BY <1>1 DEF Removing
  <2>3. \A h \in Groups : h # g /\ Making(h) => Making(h)'
    BY <1>1, <1>3, <2>1 DEF Making, ToCome, Requests
  <2>4. Removing(g)'
    BY <1>1 DEF Removing
  <2>. QED
    BY <1>1, <2>1, <2>2, <2>3, <2>4 DEF MissingIsToCome
<1>. QED
  BY <1>5, <1>6, <1>8, <1>9, <1>10

\* A directory that is removed is empty.
LEMMA DeleteRemovesDirPreserves ==
  ASSUME IInv, NEW x \in Deletes, DeleteRemovesDir(x) PROVE IInv'
<1>. USE DEF IInv
<1>. DEFINE g == about[x]
<1>1. /\ stage[x] = "removing"
      /\ \/ /\ {f \in Files : file[g][f] # "absent"} \subseteq PlainFiles
            /\ dir[g] = "soul" /\ dir' = [dir EXCEPT ![g] = "group"]
            /\ Forget(g, SoulFiles)
            /\ UNCHANGED <<stage, spoiled>>
         \/ /\ {f \in Files : file[g][f] # "absent"} = {}
            /\ dir[g] = "group" /\ dir' = [dir EXCEPT ![g] = "none"]
            /\ stage' = [stage EXCEPT ![x] = "done"]
            /\ spoiled' = [spoiled EXCEPT ![g] = FALSE]
            /\ UNCHANGED edits
      /\ UNCHANGED <<file, main, boot, crashes, about, todo, evicted>>
  BY DEF DeleteRemovesDir
<1>2. boot = "serving" /\ g \in Groups /\ Changing(g) /\ (g = main => evicted)
  BY <1>1, RequestsInFlight DEF InFlight
<1>3. /\ x \in Requests /\ x \notin Creates /\ x \notin Writes
      /\ \A y \in Requests : y # x => stage'[y] = stage[y]
      /\ stage'[x] \in {"removing", "done"}
      /\ \A h \in Groups : h # g => dir'[h] = dir[h] /\ spoiled'[h] = spoiled[h]
      /\ \/ dir'[g] = "group" /\ \A f \in SoulFiles : file[g][f] = "absent"
         \/ dir'[g] = "none" /\ \A f \in Files : file[g][f] = "absent"
  BY <1>1, <1>2, GroupsAssumption DEF TypeOK, Requests, Files
<1>3a. /\ touched' \in [Groups -> SUBSET SoulFiles] /\ exposed' \in [Groups -> SUBSET SoulFiles]
       /\ \A h \in Groups : h # g => touched'[h] = touched[h]
       /\ touched'[g] = {}
       /\ \A h \in Groups : touched'[h] \ exposed'[h] \subseteq touched[h] \ exposed[h]
  <2>1. CASE Forget(g, SoulFiles)
    BY <1>2, <2>1, Forgotten DEF TypeOK
  <2>2. CASE dir[g] = "group" /\ UNCHANGED edits
    BY <1>2, <2>2 DEF TouchedStands, TypeOK
  <2>. QED
    BY <1>1, <2>1, <2>2
<1>4. TypeOK'
  <2>1. dir' \in [Groups -> {"none", "group", "soul"}] /\ stage' \in [Requests -> Stages]
        /\ spoiled' \in [Groups -> BOOLEAN]
    BY <1>1 DEF TypeOK, Stages
  <2>. QED
    BY <1>1, <1>3, <1>3a, <2>1 DEF TypeOK
<1>5. StagesFit'
  BY <1>1, <1>2, <1>3 DEF StagesFit, Idle, Requests
<1>6. \A h : Changing(h)' => Changing(h)
  BY <1>1, <1>3 DEF Changing, InFlight, Requests
<1>7. MainStands'
  BY <1>1, <1>2, <1>3, <1>6 DEF MainStands, TypeOK
<1>8. TouchedStands' /\ EditsAreKept'
  <2>1. \A h, f : StillCopies(h, f)' => StillCopies(h, f)
    BY <1>1, <1>3 DEF StillCopies, Requests
  <2>2. TouchedStands'
    BY <1>3, <1>3a, <2>1 DEF TouchedStands
  <2>3. EditsAreKept'
    BY <1>1, <1>3a DEF EditsAreKept
  <2>. QED
    BY <2>2, <2>3
<1>9. MissingIsToCome'
  <2>1. \A h \in Groups : h # g => Missing(h)' = Missing(h)
    BY <1>1, <1>3a DEF Missing
  <2>2. \A h : h # g /\ Removing(h) => Removing(h)'
    BY <1>1, <1>3 DEF Removing, Requests
  <2>3. \A h \in Groups : h # g /\ Making(h) => Making(h)'
    BY <1>1, <1>3, <2>1 DEF Making, ToCome, Requests
  <2>. QED
    BY <1>1, <1>3, <2>1, <2>2, <2>3 DEF MissingIsToCome
<1>. QED
  BY <1>4, <1>5, <1>7, <1>8, <1>9

LEMMA DeleteFailsPreserves ==
  ASSUME IInv, NEW x \in Deletes, DeleteFails(x) PROVE IInv'
<1>. USE DEF IInv
<1>. DEFINE g == about[x]
<1>1. /\ stage[x] = "removing" /\ stage' = [stage EXCEPT ![x] = "failed"]
      /\ spoiled' = [spoiled EXCEPT ![g] = TRUE]
      /\ todo' = [todo EXCEPT ![x] = {}]
      /\ UNCHANGED <<dir, file, main, boot, crashes, about, edits, evicted>>
  BY DEF DeleteFails, Spoil
<1>2. boot = "serving" /\ g \in Groups /\ Changing(g) /\ (g = main => evicted)
  BY <1>1, RequestsInFlight DEF InFlight
<1>3. /\ x \in Requests /\ x \notin Creates /\ x \notin Writes
      /\ \A y \in Requests : y # x => stage'[y] = stage[y] /\ todo'[y] = todo[y]
      /\ stage'[x] = "failed"
      /\ spoiled'[g] /\ \A h \in Groups : h # g => spoiled'[h] = spoiled[h]
  BY <1>1, <1>2, GroupsAssumption DEF TypeOK, Requests
<1>4. TypeOK'
  <2>1. stage' \in [Requests -> Stages] /\ spoiled' \in [Groups -> BOOLEAN]
    BY <1>1 DEF TypeOK, Stages
  <2>2. todo' \in [Requests \cup {Boot} -> SUBSET Files]
    BY <1>1 DEF TypeOK
  <2>. QED
    BY <1>1, <2>1, <2>2 DEF TypeOK
<1>5. StagesFit'
  BY <1>1, <1>2, <1>3 DEF StagesFit, Idle, Requests
<1>6. \A h : Changing(h)' => Changing(h)
  BY <1>1, <1>3 DEF Changing, InFlight, Requests
<1>7. MainStands'
  BY <1>1, <1>2, <1>6 DEF MainStands
<1>8. TouchedStands' /\ EditsAreKept'
  <2>1. \A h, f : StillCopies(h, f)' => StillCopies(h, f)
    BY <1>1, <1>3 DEF StillCopies, Requests
  <2>. QED
    BY <1>1, <2>1 DEF TouchedStands, EditsAreKept
<1>9. MissingIsToCome'
  <2>1. \A h : Missing(h)' = Missing(h)
    BY <1>1 DEF Missing
  <2>2. \A h : h # g /\ Removing(h) => Removing(h)'
    BY <1>1, <1>3 DEF Removing, Requests
  <2>3. \A h : Making(h) => Making(h)'
    BY <1>1, <1>3, <2>1 DEF Making, ToCome, Requests
  <2>. QED
    BY <1>1, <1>2, <1>3, <2>1, <2>2, <2>3 DEF MissingIsToCome
<1>. QED
  BY <1>4, <1>5, <1>7, <1>8, <1>9
-----------------------------------------------------------------------------
(* SoulManager *)

\* Writers neither make nor remove a group: what is under way stays so.
LEMMA WritersChangeNothing ==
  ASSUME TypeOK, NEW x \in Writes,
         \A y \in Requests : y # x => stage'[y] = stage[y] /\ about'[y] = about[y],
         UNCHANGED todo
  PROVE  \A h : /\ Changing(h)' <=> Changing(h)
                /\ Removing(h)' <=> Removing(h)
                /\ Missing(h)' \subseteq Missing(h) /\ Making(h) => Making(h)'
                /\ \A f : StillCopies(h, f)' <=> StillCopies(h, f)
<1>1. \A y \in Creates \cup Deletes :
          stage'[y] = stage[y] /\ about'[y] = about[y] /\ todo'[y] = todo[y]
  BY GroupsAssumption DEF Requests
<1>. QED
  BY <1>1 DEF Changing, InFlight, Removing, Making, ToCome, StillCopies

\* What a user does is counted, and is exposed just when a creation has still to copy it.
LEMMA Touched ==
  ASSUME TypeOK, NEW g \in Groups, NEW f \in SoulFiles, Touch(g, f)
  PROVE  /\ touched' \in [Groups -> SUBSET SoulFiles] /\ exposed' \in [Groups -> SUBSET SoulFiles]
         /\ \A h \in Groups : touched[h] \subseteq touched'[h]
         /\ \A h \in Groups : h # g => touched'[h] = touched[h]
         /\ f \in touched'[g]
         /\ \A h \in Groups : \A k \in touched'[h] \ exposed'[h] :
                k \in touched[h] \ exposed[h] \/ (h = g /\ k = f /\ ~StillCopies(g, f))
<1>1. /\ touched' \in [Groups -> SUBSET SoulFiles]
      /\ \A h \in Groups : h # g => touched'[h] = touched[h]
      /\ touched'[g] = touched[g] \cup {f}
  BY DEF Touch, TypeOK
<1>2. /\ exposed' \in [Groups -> SUBSET SoulFiles]
      /\ \A h \in Groups : h # g => exposed'[h] = exposed[h]
      /\ exposed'[g] = IF StillCopies(g, f) THEN exposed[g] \cup {f} ELSE exposed[g] \ {f}
  BY DEF Touch, TypeOK
<1>3. \A h \in Groups : \A k \in touched'[h] \ exposed'[h] :
          k \in touched[h] \ exposed[h] \/ (h = g /\ k = f /\ ~StillCopies(g, f))
  <2>1. SUFFICES ASSUME NEW k \in touched'[g] \ exposed'[g]
                 PROVE  k \in touched[g] \ exposed[g] \/ (k = f /\ ~StillCopies(g, f))
    BY <1>1, <1>2
  <2>. QED
    BY <1>1, <1>2
<1>. QED
  BY <1>1, <1>2, <1>3

LEMMA RunBeginsPreserves ==
  ASSUME IInv, NEW x \in Writes, NEW g \in Groups, RunBegins(x, g) PROVE IInv'
<1>. USE DEF IInv
<1>1. /\ boot = "serving" /\ stage' = [stage EXCEPT ![x] = "checked"]
      /\ about' = [about EXCEPT ![x] = g] \/ about' = [about EXCEPT ![x] = main]
      /\ UNCHANGED <<dir, file, main, boot, crashes, todo, history>>
  BY DEF RunBegins
<1>2. /\ x \in Requests /\ x \notin Creates /\ x \notin Deletes
      /\ \A y \in Requests : y # x => stage'[y] = stage[y] /\ about'[y] = about[y]
      /\ stage'[x] = "checked" /\ about'[x] \in Groups
  BY <1>1, GroupsAssumption DEF TypeOK, Requests
<1>3. TypeOK'
  <2>1. about' \in [Requests -> Groups \cup {Nothing}] /\ stage' \in [Requests -> Stages]
    BY <1>1 DEF TypeOK, Stages
  <2>. QED
    BY <1>1, <2>1 DEF TypeOK
<1>4. StagesFit'
  BY <1>1, <1>2 DEF StagesFit, Idle, Requests
<1>5. \A h : Missing(h)' = Missing(h)
  BY <1>1 DEF Missing
<1>6. MainStands' /\ TouchedStands' /\ EditsAreKept'
  BY <1>1, <1>2, WritersChangeNothing DEF MainStands, TouchedStands, EditsAreKept
<1>7. MissingIsToCome'
  BY <1>1, <1>2, <1>5, WritersChangeNothing DEF MissingIsToCome
<1>. QED
  BY <1>3, <1>4, <1>6, <1>7

\* A soul directory that a write brings back spoils the group.
LEMMA WriteMakesDirsPreserves ==
  ASSUME IInv, NEW x \in Writes, WriteMakesDirs(x) PROVE IInv'
<1>. USE DEF IInv
<1>. DEFINE g == about[x]
<1>1. /\ stage[x] = "checked" /\ stage' = [stage EXCEPT ![x] = "made"]
      /\ dir' = [dir EXCEPT ![g] = "soul"]
      /\ spoiled' = [spoiled EXCEPT ![g] = @ \/ dir[g] # "soul"]
      /\ UNCHANGED <<file, main, boot, crashes, about, todo, edits, evicted>>
  BY DEF WriteMakesDirs, MakeDirs
<1>2. /\ x \in Requests /\ x \notin Creates /\ x \notin Deletes
      /\ \A y \in Requests : y # x => stage'[y] = stage[y] /\ about'[y] = about[y]
      /\ stage'[x] = "made" /\ g \in Groups /\ boot = "serving"
  BY <1>1, GroupsAssumption DEF TypeOK, Requests, StagesFit, Idle
<1>3. /\ \A h \in Groups : dir'[h] = dir[h] \/ (h = g /\ dir'[h] = "soul")
      /\ \A h \in Groups : ~spoiled'[h] => ~spoiled[h] /\ dir'[h] = dir[h]
  BY <1>1, <1>2 DEF TypeOK
<1>4. TypeOK'
  <2>1. dir' \in [Groups -> {"none", "group", "soul"}] /\ stage' \in [Requests -> Stages]
        /\ spoiled' \in [Groups -> BOOLEAN]
    BY <1>1 DEF TypeOK, Stages
  <2>. QED
    BY <1>1, <1>3, <2>1 DEF TypeOK
<1>5. StagesFit'
  BY <1>1, <1>2 DEF StagesFit, Idle, Requests
<1>6. \A h : Missing(h)' = Missing(h)
  BY <1>1 DEF Missing
<1>7. MainStands'
  BY <1>1, <1>2, <1>3, WritersChangeNothing DEF MainStands, TypeOK
<1>8. TouchedStands' /\ EditsAreKept'
  BY <1>1, <1>2, <1>3, WritersChangeNothing DEF TouchedStands, EditsAreKept
<1>9. MissingIsToCome'
  BY <1>1, <1>2, <1>3, <1>6, WritersChangeNothing DEF MissingIsToCome
<1>. QED
  BY <1>4, <1>5, <1>7, <1>8, <1>9

\* A write goes into a soul directory.
LEMMA WriteFilePreserves ==
  ASSUME IInv, NEW x \in Writes, NEW f \in Files, WriteFile(x, f) PROVE IInv'
<1>. DEFINE g == about[x]
<1>. USE DEF IInv
<1>1. /\ stage[x] = "made" /\ f \in SoulFiles
      /\ \/ /\ Put(g, f, "edited") /\ Touch(g, f) /\ dir[g] = "soul"
            /\ stage' = [stage EXCEPT ![x] = "done"]
         \/ stage' = [stage EXCEPT ![x] = "failed"] /\ UNCHANGED <<file, edits>>
      /\ UNCHANGED <<dir, main, boot, crashes, about, todo, spoiled, evicted>>
  BY GroupsAssumption DEF WriteFile, HasPlace
<1>2. /\ x \in Requests /\ x \notin Creates /\ x \notin Deletes
      /\ \A y \in Requests : y # x => stage'[y] = stage[y] /\ about'[y] = about[y]
      /\ stage'[x] \in {"done", "failed"} /\ g \in Groups /\ boot = "serving"
      /\ stage' \in [Requests -> Stages]
  BY <1>1, GroupsAssumption DEF TypeOK, Requests, Stages, StagesFit, Idle
<1>3. StagesFit'
  BY <1>1, <1>2 DEF StagesFit, Idle, Requests
<1>4. CASE Put(g, f, "edited") /\ Touch(g, f) /\ dir[g] = "soul"
  <2>1. /\ file' \in [Groups -> [Files -> {"absent", "template", "edited"}]]
        /\ \A h \in Groups, k \in Files :
               file'[h][k] = IF h = g /\ k = f THEN "edited" ELSE file[h][k]
    BY <1>2, <1>4, PutChanges
  <2>2. /\ touched' \in [Groups -> SUBSET SoulFiles] /\ exposed' \in [Groups -> SUBSET SoulFiles]
        /\ \A h \in Groups : touched[h] \subseteq touched'[h]
        /\ \A h \in Groups : h # g => touched'[h] = touched[h]
        /\ f \in touched'[g]
        /\ \A h \in Groups : \A k \in touched'[h] \ exposed'[h] :
               k \in touched[h] \ exposed[h] \/ (h = g /\ k = f /\ ~StillCopies(g, f))
    BY <1>1, <1>2, <1>4, Touched
  <2>3. TypeOK'
    BY <1>1, <1>2, <1>4, <2>1, <2>2 DEF TypeOK
  <2>4. \A h \in Groups : Missing(h)' \subseteq Missing(h)
    BY <2>1, <2>2, <1>2 DEF Missing
  <2>5. MainStands'
    <3>1. boot' = "serving"
      BY <1>1, <1>2
    <3>. QED
      BY <1>1, <1>2, <3>1, WritersChangeNothing DEF MainStands
  <2>6. TouchedStands'
    <3>1. \A h \in Groups : touched'[h] # {} => dir'[h] = "soul"
      BY <1>1, <1>4, <2>2 DEF TouchedStands
    <3>2. \A h \in Groups : \A k \in touched'[h] \ exposed'[h] : ~StillCopies(h, k)
      BY <2>2 DEF TouchedStands
    <3>3. \A h, k : StillCopies(h, k)' <=> StillCopies(h, k)
      BY <1>1, <1>2, WritersChangeNothing
    <3>. QED
      BY <3>1, <3>2, <3>3 DEF TouchedStands
  <2>7. EditsAreKept'
    <3>1. \A h \in Groups : touched'[h] \subseteq Files
      BY <2>2 DEF Files
    <3>2. \A h \in Groups, k \in Files :
              file'[h][k] = "template" => file[h][k] = "template" /\ ~(h = g /\ k = f)
      BY <2>1
    <3>. QED
      BY <2>2, <3>1, <3>2 DEF EditsAreKept
  <2>8. MissingIsToCome'
    <3>1. \A h \in Groups : Missing(h) = {} => Missing(h)' = {}
      BY <2>4
    <3>. QED
      BY <1>1, <1>2, <2>4, <3>1, WritersChangeNothing DEF MissingIsToCome
  <2>. QED
    BY <1>3, <2>3, <2>5, <2>6, <2>7, <2>8
<1>5. CASE UNCHANGED <<file, edits>>
  <2>1. \A h : Missing(h)' = Missing(h)
    BY <1>5 DEF Missing
  <2>2. TypeOK'
    BY <1>1, <1>2, <1>5 DEF TypeOK
  <2>3. MainStands' /\ TouchedStands' /\ EditsAreKept'
    BY <1>1, <1>2, <1>5, WritersChangeNothing DEF MainStands, TouchedStands, EditsAreKept
  <2>4. MissingIsToCome'
    BY <1>1, <1>2, <1>5, <2>1, WritersChangeNothing DEF MissingIsToCome
  <2>. QED
    BY <1>3, <2>2, <2>3, <2>4
<1>. QED
  BY <1>1, <1>4, <1>5

\* A BOOTSTRAP.md that is deleted was there.
LEMMA DeleteBootstrapPreserves ==
  ASSUME IInv, NEW x \in Writes, NEW g \in Groups, boot = "serving", DeleteBootstrap(x, g)
  PROVE  IInv'
<1>. USE DEF IInv
<1>1. /\ about' = [about EXCEPT ![x] = g] /\ stage' = [stage EXCEPT ![x] = "done"]
      /\ \/ UNCHANGED <<file, edits>>
         \/ Put(g, Bootstrap, "absent") /\ Touch(g, Bootstrap) /\ dir[g] = "soul"
      /\ UNCHANGED <<dir, main, boot, crashes, todo, spoiled, evicted>>
  <2>1. file[g][Bootstrap] # "absent" => dir[g] = "soul"
    BY GroupsAssumption DEF TypeOK, Files
  <2>. QED
    BY <2>1 DEF DeleteBootstrap
<1>2. /\ x \in Requests /\ x \notin Creates /\ x \notin Deletes
      /\ \A y \in Requests : y # x => stage'[y] = stage[y] /\ about'[y] = about[y]
      /\ stage'[x] = "done" /\ about'[x] = g
      /\ stage' \in [Requests -> Stages] /\ about' \in [Requests -> Groups \cup {Nothing}]
      /\ Bootstrap \in Files /\ Bootstrap \in SoulFiles
  BY <1>1, GroupsAssumption DEF TypeOK, Requests, Stages, Files
<1>3. StagesFit'
  BY <1>1, <1>2 DEF StagesFit, Idle, Requests
<1>4. CASE Put(g, Bootstrap, "absent") /\ Touch(g, Bootstrap) /\ dir[g] = "soul"
  <2>1. /\ file' \in [Groups -> [Files -> {"absent", "template", "edited"}]]
        /\ \A h \in Groups, k \in Files :
               file'[h][k] = IF h = g /\ k = Bootstrap THEN "absent" ELSE file[h][k]
    BY <1>2, <1>4, PutChanges
  <2>2. /\ touched' \in [Groups -> SUBSET SoulFiles] /\ exposed' \in [Groups -> SUBSET SoulFiles]
        /\ \A h \in Groups : touched[h] \subseteq touched'[h]
        /\ \A h \in Groups : h # g => touched'[h] = touched[h]
        /\ Bootstrap \in touched'[g]
        /\ \A h \in Groups : \A k \in touched'[h] \ exposed'[h] :
               k \in touched[h] \ exposed[h] \/ (h = g /\ k = Bootstrap /\ ~StillCopies(g, Bootstrap))
    BY <1>1, <1>2, <1>4, Touched
  <2>3. TypeOK'
    BY <1>1, <1>2, <1>4, <2>1, <2>2 DEF TypeOK
  <2>4. \A h \in Groups : Missing(h)' \subseteq Missing(h)
    BY <2>1, <2>2, <1>2 DEF Missing
  <2>5. MainStands'
    <3>1. boot' = "serving"
      BY <1>1, <1>2
    <3>. QED
      BY <1>1, <1>2, <3>1, WritersChangeNothing DEF MainStands
  <2>6. TouchedStands'
    <3>1. \A h \in Groups : touched'[h] # {} => dir'[h] = "soul"
      BY <1>1, <1>4, <2>2 DEF TouchedStands
    <3>2. \A h \in Groups : \A k \in touched'[h] \ exposed'[h] : ~StillCopies(h, k)
      BY <2>2 DEF TouchedStands
    <3>3. \A h, k : StillCopies(h, k)' <=> StillCopies(h, k)
      BY <1>1, <1>2, WritersChangeNothing
    <3>. QED
      BY <3>1, <3>2, <3>3 DEF TouchedStands
  <2>7. EditsAreKept'
    <3>1. \A h \in Groups : touched'[h] \subseteq Files
      BY <2>2 DEF Files
    <3>2. \A h \in Groups, k \in Files :
              file'[h][k] = "template" => file[h][k] = "template" /\ ~(h = g /\ k = Bootstrap)
      BY <2>1
    <3>. QED
      BY <2>2, <3>1, <3>2 DEF EditsAreKept
  <2>8. MissingIsToCome'
    <3>1. \A h \in Groups : Missing(h) = {} => Missing(h)' = {}
      BY <2>4
    <3>. QED
      BY <1>1, <1>2, <2>4, <3>1, WritersChangeNothing DEF MissingIsToCome
  <2>. QED
    BY <1>3, <2>3, <2>5, <2>6, <2>7, <2>8
<1>5. CASE UNCHANGED <<file, edits>>
  <2>1. \A h : Missing(h)' = Missing(h)
    BY <1>5 DEF Missing
  <2>2. TypeOK'
    BY <1>1, <1>2, <1>5 DEF TypeOK
  <2>3. MainStands' /\ TouchedStands' /\ EditsAreKept'
    BY <1>1, <1>2, <1>5, WritersChangeNothing DEF MainStands, TouchedStands, EditsAreKept
  <2>4. MissingIsToCome'
    BY <1>1, <1>2, <1>5, <2>1, WritersChangeNothing DEF MissingIsToCome
  <2>. QED
    BY <1>3, <2>2, <2>3, <2>4
<1>. QED
  BY <1>1, <1>4, <1>5

LEMMA SoulDeletePreserves ==
  ASSUME IInv, NEW x \in Writes, SoulDelete(x) \/ DeleteSoul(x) PROVE IInv'
<1>1. CASE SoulDelete(x)
  <2>1. boot = "serving" /\ about[x] \in Groups /\ DeleteBootstrap(x, about[x])
    BY <1>1 DEF SoulDelete, IInv, StagesFit, Idle, Requests
  <2>. QED
    BY <2>1, DeleteBootstrapPreserves
<1>2. CASE DeleteSoul(x)
  <2>1. boot = "serving" /\ main \in Groups /\ DeleteBootstrap(x, main)
    BY <1>2 DEF DeleteSoul, IInv, TypeOK
  <2>. QED
    BY <2>1, DeleteBootstrapPreserves
<1>. QED
  BY <1>1, <1>2

-----------------------------------------------------------------------------
(* The inductive invariant and what follows from it *)

LEMMA InitEstablishes == Init => IInv
<1>. SUFFICES ASSUME Init PROVE IInv
  OBVIOUS
<1>1. TypeOK
  <2>1. /\ dir \in [Groups -> {"none", "group", "soul"}]
        /\ file \in [Groups -> [Files -> {"absent", "template", "edited"}]]
        /\ \A g \in Groups, f \in Files : file[g][f] = "absent"
    BY DEF Init
  <2>2. main \in Groups /\ boot = "checking" /\ crashes \in 0..MaxCrashes
    BY GroupsAssumption DEF Init
  <2>3. /\ stage \in [Requests -> Stages] /\ about \in [Requests -> Groups \cup {Nothing}]
        /\ todo \in [Requests \cup {Boot} -> SUBSET Files]
    BY DEF Init, Stages
  <2>4. /\ touched \in [Groups -> SUBSET SoulFiles] /\ exposed \in [Groups -> SUBSET SoulFiles]
        /\ spoiled \in [Groups -> BOOLEAN] /\ evicted \in BOOLEAN
    BY DEF Init
  <2>. QED
    BY <2>1, <2>2, <2>3, <2>4 DEF TypeOK
<1>2. StagesFit /\ MainStands
  BY DEF Init, StagesFit, Idle, Requests, MainStands
<1>3. TouchedStands /\ EditsAreKept /\ MissingIsToCome
  BY DEF Init, TouchedStands, EditsAreKept, MissingIsToCome
<1>. QED
  BY <1>1, <1>2, <1>3 DEF IInv

LEMMA NextPreserves == IInv /\ [Next]_vars => IInv'
<1>. SUFFICES ASSUME IInv, [Next]_vars PROVE IInv'
  OBVIOUS
<1>1. CASE BootChecks \/ BootGoesOn \/ BootFails \/ Restart \/ \E f \in Files : BootCopies(f)
  BY <1>1, BootChecksPreserves, BootGoesOnPreserves, BootFailsPreserves, RestartPreserves,
     BootCopiesPreserves
<1>2. ASSUME NEW x \in Creates,
             \/ \E g \in Groups : CreateChecks(x, g)
             \/ CreateMakesDirs(x) \/ CreateGoesOn(x) \/ CreateFails(x)
             \/ \E f \in Files : CreateCopies(x, f)
      PROVE  IInv'
  BY <1>2, CreateChecksPreserves, CreateMakesDirsPreserves, CreateGoesOnPreserves,
     CreateFailsPreserves, CreateCopiesPreserves
<1>3. ASSUME NEW x \in Deletes,
             \/ \E g \in Groups : DeleteChecks(x, g)
             \/ DeleteRemovesDir(x) \/ DeleteFails(x)
             \/ \E f \in Files : DeleteRemovesFile(x, f)
      PROVE  IInv'
  BY <1>3, DeleteChecksPreserves, DeleteRemovesDirPreserves, DeleteFailsPreserves,
     DeleteRemovesFilePreserves
<1>4. ASSUME NEW x \in Writes,
             \/ \E g \in Groups : RunBegins(x, g)
             \/ WriteMakesDirs(x) \/ SoulDelete(x) \/ DeleteSoul(x)
             \/ \E f \in Files : WriteFile(x, f)
      PROVE  IInv'
  BY <1>4, RunBeginsPreserves, WriteMakesDirsPreserves, SoulDeletePreserves, WriteFilePreserves
<1>5. CASE UNCHANGED vars
  <2>1. UNCHANGED <<disk, process, requests, todo, history>>
    BY <1>5 DEF vars
  <2>2. TypeOK' /\ StagesFit'
    BY <2>1 DEF IInv, TypeOK, StagesFit
  <2>3. \A h : /\ Missing(h)' = Missing(h) /\ (Changing(h)' <=> Changing(h))
               /\ (Removing(h)' <=> Removing(h)) /\ (Making(h)' <=> Making(h))
    BY <2>1 DEF Missing, Changing, InFlight, Removing, Making, ToCome
  <2>3a. \A h, f : StillCopies(h, f)' <=> StillCopies(h, f)
    BY <2>1 DEF StillCopies
  <2>4. MainStands' /\ TouchedStands' /\ EditsAreKept' /\ MissingIsToCome'
    BY <2>1, <2>3, <2>3a DEF IInv, MainStands, TouchedStands, EditsAreKept, MissingIsToCome
  <2>. QED
    BY <2>2, <2>4 DEF IInv
<1>. QED
  BY <1>1, <1>2, <1>3, <1>4, <1>5 DEF Next

\* The invariant of the directories of groups.
THEOREM InvariantHolds == Spec => []IInv
<1>1. Init => IInv
  BY InitEstablishes
<1>2. IInv /\ [Next]_vars => IInv'
  BY NextPreserves
<1>. QED
  BY <1>1, <1>2, PTL DEF Spec

\* Type correctness: no file lies in a directory that does not exist.
THEOREM TypeCorrect == Spec => []TypeOK
<1>1. IInv => TypeOK
  BY DEF IInv
<1>. QED
  BY <1>1, InvariantHolds, PTL

\* What users of a group did is undone by a copy of the template only if a creation had
\* still to copy that file when they did it, whatever other requests do in between and
\* wherever the process is cut off.
THEOREM EditsStay == Spec => []EditsAreKept
<1>1. IInv => EditsAreKept
  BY DEF IInv
<1>. QED
  BY <1>1, InvariantHolds, PTL

\* A process that serves has its main group complete, unless its making or removal went
\* wrong (Spoil) or the group was removed under another spelling of its name.
THEOREM MainHasItsFiles == Spec => []MainIsComplete
<1>1. IInv => MainIsComplete
  <2>1. ASSUME IInv, boot = "serving", ~spoiled[main], ~evicted PROVE Missing(main) = {}
    <3>1. main \in Groups /\ dir[main] = "soul" /\ ~Changing(main)
      BY <2>1 DEF IInv, TypeOK, MainStands
    <3>2. ~Removing(main) /\ ~Making(main)
      BY <3>1 DEF Changing, InFlight, Removing, Making
    <3>. QED
      BY <2>1, <3>1, <3>2 DEF IInv, MissingIsToCome
  <2>. QED
    BY <2>1 DEF MainIsComplete, Missing
<1>. QED
  BY <1>1, InvariantHolds, PTL
=============================================================================
