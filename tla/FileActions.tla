---------------------------- MODULE FileActions ----------------------------
(***************************************************************************)
(* The buttons that move files (actions.go): "Move to trash" on a finding  *)
(* of the file report, and "Merge" on two folders whose names differ in    *)
(* case only.  One click is carried out at a time; beside it the *arr      *)
(* imports and deletes, people work on the disk, shares come and go, and   *)
(* sweeps replace the report the buttons come from.                        *)
(*                                                                         *)
(* A step is one request or one system call, with the checks up to the     *)
(* next.  The walk of the disk is one step, as is the reading of the       *)
(* library.                                                                *)
(***************************************************************************)
EXTENDS FileReport

CONSTANTS
  Files,      \* the files there may be, by content
  SizeOf,
  Starts,     \* the disks and libraries to start from
  Gaps,       \* what an answer of the *arr may leave out
  Rows,       \* the sizes a row of the page may show, 0 for none
  Stamps,     \* the seconds in which clicks are carried out
  MaxCopies,  \* maxTrashUniquifyAttempts
  MaxSweeps,  \* bound on the sweeps
  MaxEdits    \* bound on what others do

NoFile == None

ASSUME FilesAssumption == IsFiniteSet(Files) /\ None \notin Files /\ SizeOf \in [Files -> Nat]
\* An answer leaves out files, or titles, not both.
ASSUME GapsAssumption  ==
  Gaps \subseteq Answers /\ \A a \in Gaps : a.nameless = {} \/ (a.pathless = {} /\ a.unlisted = {})
\* A file is in a folder that is there, and what is tracked in a title's.
ASSUME StartsAssumption ==
  \A s \in Starts :
    /\ s.disk \in [Places -> Files \cup {NoFile}] /\ s.dirs \subseteq Folders /\ s.lib \in Libraries
    /\ \A p \in Places : s.disk[p] # NoFile => p[1] \in s.dirs
    /\ \A p \in s.lib.files : p[1] \in s.lib.folders
ASSUME LimitAssumption == MaxCopies \in Nat \ {0} /\ MaxSweeps \in Nat /\ MaxEdits \in Nat

VARIABLES
  disk,     \* the file at each place, or NoFile
  dirs,     \* the folders there are
  mounted,  \* the roots whose share is mounted
  trash,    \* files in .cutoffarr-trash
  graves,   \* and the folders there
  lib,      \* the *arr's library
  sweep,    \* the tracked set of a sweep whose walk is still to come; history: what
            \* the *arr really tracked when it was read
  stored,   \* the file report of the last sweep that finished
  act,      \* the click being carried out, or the last one
  held,     \* history: the places tracked ever since the click
  added,    \* history: the places where a file may have appeared since the last check
  dryRun, edits, sweeps

world == <<disk, dirs, mounted, lib>>
bins  == <<trash, graves>>
past  == <<held, added>>
vars  == <<world, bins, sweep, stored, act, past, dryRun, edits, sweeps>>

NoSweep   == [set |-> None]
NoTracked == [folders |-> {}, files |-> {}, excluded |-> {}, distrusted |-> {}, mismatched |-> {},
              titled |-> FALSE]

Phases == {"idle", "read", "walk", "choose", "move", "list", "look", "shift", "bury"}

\* A click: what it asks for, how far it has come, and what it has moved.
NoAct ==
  [phase |-> "idle", kind |-> "none", path |-> <<>>, tracked |-> None, untracked |-> None,
   size |-> 0, stamp |-> None, live |-> NoTracked, todo |-> {}, name |-> None,
   copy |-> 0, listed |-> {}, moved |-> {}, outcome |-> "none"]

Entries == [stamp : Stamps, folder : Folders, copy : 1 .. MaxCopies,
            name : Names, nth : 1 .. MaxCopies, file : Files]
Graves  == [stamp : Stamps, folder : Folders, copy : 1 .. MaxCopies]
Reports == [status : {"off", "skipped", "ran"},
            files : SUBSET [kind : {"orphan", "duplicate"}, path : Places, size : Nat],
            twins : SUBSET [names : SUBSET Folders, tracked : SUBSET Folders]]

Exists(p)   == RootOf[p[1]] \in mounted /\ disk[p] # NoFile
SeenDirs    == {f \in dirs : RootOf[f] \in mounted}
SeenPlaces  == {p \in Places : Exists(p)}
Sizes       == [p \in SeenPlaces |-> SizeOf[disk[p]]]

\* Where every file is that has not been lost.
Kept == {disk[p] : p \in Places} \cup {e.file : e \in trash}

TypeOK ==
  /\ disk \in [Places -> Files \cup {NoFile}]
  /\ dirs \subseteq Folders /\ mounted \subseteq Roots
  /\ trash \subseteq Entries /\ graves \subseteq Graves
  /\ lib \in Libraries
  /\ sweep \in [set : Tracked, truth : SUBSET Places] \cup {NoSweep}
  /\ stored \in Reports
  /\ act.phase \in Phases
  /\ act.outcome \in {"none", "refused", "rehearsed", "performed", "failed"}
  /\ act.moved \subseteq Places /\ held \subseteq Places
  /\ added \subseteq Places /\ dryRun \in BOOLEAN /\ edits \in 0 .. MaxEdits /\ sweeps \in 0 .. MaxSweeps
  \* No two files at one path, and none in a folder there is not.
  /\ \A p \in Places : disk[p] # NoFile => p[1] \in dirs
  /\ \A e, f \in trash : e # f => [e EXCEPT !.file = f.file] # f
  /\ \A e \in trash : [stamp |-> e.stamp, folder |-> e.folder, copy |-> e.copy] \in graves

Init ==
  /\ \E s \in Starts : disk = s.disk /\ dirs = s.dirs /\ lib = s.lib
  /\ mounted = Roots
  /\ trash = {} /\ graves = {}
  /\ sweep = NoSweep /\ stored = NoReport
  /\ act = NoAct /\ held = {} /\ added = {}
  /\ dryRun \in BOOLEAN /\ edits = 0 /\ sweeps = 0

-----------------------------------------------------------------------------
(***************************************************************************)
(* A sweep's file report: the library first, the disk later.               *)
(***************************************************************************)
SweepReads ==
  /\ sweep = NoSweep /\ sweeps < MaxSweeps /\ sweeps' = sweeps + 1
  /\ \E a \in Gaps : sweep' = [set |-> TrackedSet(lib, a), truth |-> lib.files]
  /\ UNCHANGED <<world, bins, stored, act, past, dryRun, edits>>

SweepWalks ==
  /\ sweep # NoSweep
  /\ stored' = Report(sweep.set, SeenDirs, SeenPlaces, Sizes)
  /\ sweep' = NoSweep
  /\ UNCHANGED <<world, bins, act, past, dryRun, edits, sweeps>>

-----------------------------------------------------------------------------
(***************************************************************************)
(* What both buttons share.                                                *)
(***************************************************************************)
\* The next step of the click, and the same when the disk has just been looked at.
Step(a)  == act' = a /\ UNCHANGED past
Fresh(a) == act' = a /\ added' = {} /\ UNCHANGED held

\* The click begins.
Begin(a) == act' = a /\ held' = lib.files /\ added' = {}

Answer(outcome) == act' = [NoAct EXCEPT !.outcome = outcome] /\ held' = {} /\ added' = {}
Refuse          == Answer("refused")

At(phase) == act.phase = phase /\ UNCHANGED <<lib, mounted, sweep, stored, dryRun, edits, sweeps>>
Still     == UNCHANGED <<disk, dirs, bins>>

\* The library is read again, or cannot be.
ReadLive ==
  /\ At("read") /\ Still
  /\ \/ \E a \in Gaps : Step([act EXCEPT !.phase = "walk", !.live = TrackedSet(lib, a)])
     \/ Refuse

\* liveFileReport.
Live == Report(act.live, SeenDirs, SeenPlaces, Sizes)

\* The first path of a kind that is free in the trash, if any is.
FirstFree(taken) ==
  LET free == {k \in 1 .. MaxCopies : k \notin taken}
  IN  IF free = {} THEN 0 ELSE CHOOSE k \in free : \A j \in free : k <= j

\* Mutant of FreeName: the name is taken as it is.
FreeNameUnchecked(s, f, n) == 1

\* uniquifyTrashPath, for a file and for a folder.
FreeName(s, f, n) ==
  FirstFree({e.nth : e \in {x \in trash : x.stamp = s /\ x.folder = f /\ x.copy = 1 /\ x.name = n}})
FreeFolder(f) ==
  FirstFree({g.copy : g \in {x \in graves : x.stamp = act.stamp /\ x.folder = f}})

Entry(f, copy, n, nth, file) ==
  [stamp |-> act.stamp, folder |-> f, copy |-> copy, name |-> n, nth |-> nth, file |-> file]

\* os.Rename replaces what is at its destination.
RenameToTrash(p, nth) ==
  LET e == Entry(p[1], 1, p[2], nth, disk[p])
  IN  /\ trash' = {x \in trash : [x EXCEPT !.file = e.file] # e} \cup {e}
      /\ disk' = [disk EXCEPT ![p] = NoFile]
      /\ UNCHANGED <<dirs, graves>>

RenameTo(p, q) ==
  /\ disk' = [disk EXCEPT ![p] = NoFile, ![q] = disk[p]]
  /\ dirs' = dirs \cup {q[1]}
  /\ UNCHANGED bins

\* Mutant of DigFor: it is not.
DigForNothing(s, f) == graves' = graves

\* moveToTrash up to the rename: the folder for it is made.
DigFor(s, f) == graves' = graves \cup {[stamp |-> s, folder |-> f, copy |-> 1]}

-----------------------------------------------------------------------------
(***************************************************************************)
(* "Move to trash".                                                        *)
(***************************************************************************)
FileFinding(report, kind, p) ==
  {f \in report.files : report.status = "ran" /\ f.kind = kind /\ f.path = p}

\* A request, and what can be said of it from memory: a sweep has reported just
\* this, and the root can be written to.
ClickTrash(kind, p) ==
  /\ At("idle") /\ Still
  /\ \/ \E f \in FileFinding(stored, kind, p) :
          Begin([NoAct EXCEPT !.phase = "read", !.kind = kind, !.path = p, !.size = f.size])
     \/ Refuse

\* The finding as a fresh report has it.
StillFound == FileFinding(Live, act.kind, act.path)

\* It is the file the button described, by its size, and by the size on the row
\* of the page if the request names it.
VerifyTrash(row) ==
  /\ At("walk") /\ act.kind \in {"orphan", "duplicate"} /\ Still
  /\ IF \E f \in StillFound : f.size = act.size /\ act.size > 0 /\ row \in {0, act.size}
       THEN Fresh([act EXCEPT !.phase = "choose", !.live = NoTracked])
       ELSE Refuse

\* It is there, and it is a file; then the place for it in the trash.
ChooseTrash(s) ==
  /\ At("choose") /\ UNCHANGED <<disk, dirs, trash>>
  /\ \/ ~Exists(act.path) /\ Refuse /\ UNCHANGED graves
     \/ Exists(act.path) /\ dryRun /\ Answer("rehearsed") /\ UNCHANGED graves
     \/ /\ Exists(act.path) /\ ~dryRun
        /\ DigFor(s, act.path[1])
        /\ LET nth == FreeName(s, act.path[1], act.path[2])
           IN  IF nth = 0 THEN Answer("failed")
               ELSE Step([act EXCEPT !.phase = "move", !.stamp = s, !.copy = nth])

MoveTrash ==
  /\ At("move") /\ Exists(act.path)
  /\ RenameToTrash(act.path, act.copy)
  /\ Answer("performed")

-----------------------------------------------------------------------------
(***************************************************************************)
(* "Merge".                                                                *)
(***************************************************************************)
\* reportedTwinFinding: the group is known by both spellings.
TwinFinding(report, tracked, untracked) ==
  {t \in report.twins : report.status = "ran" /\ {tracked, untracked} \subseteq t.names}

\* twinMergeEligibility: two spellings, one of them tracked.
Eligible(t) == Cardinality(t.names) = 2 /\ Cardinality(t.tracked) = 1

ClickMerge(tracked, untracked) ==
  /\ At("idle") /\ Still
  /\ \/ /\ \E t \in TwinFinding(stored, tracked, untracked) : Eligible(t)
        /\ Begin([NoAct EXCEPT !.phase = "read", !.kind = "merge", !.tracked = tracked,
                               !.untracked = untracked])
     \/ Refuse

\* Mutant of SameTwin: which of the two is tracked is not asked again.
SameTwinEitherWay(t) == Eligible(t)

\* The promise of the button: these two, and the tracked one is the same.
SameTwin(t) ==
  Eligible(t) /\ t.tracked = {act.tracked} /\ t.names \ t.tracked = {act.untracked}

VerifyMerge ==
  /\ At("walk") /\ act.kind = "merge" /\ Still
  /\ IF \E t \in TwinFinding(Live, act.tracked, act.untracked) : SameTwin(t)
       THEN IF dryRun THEN Answer("rehearsed")
            ELSE Step([act EXCEPT !.phase = "list", !.live = NoTracked])
       ELSE Refuse

\* Both folders are there; the walk lists the untracked one.
ListMerge(s) ==
  /\ At("list") /\ Still
  /\ LET names == {n \in Names : Exists(<<act.untracked, n>>)}
     IN  IF {act.tracked, act.untracked} \subseteq SeenDirs
           THEN Step([act EXCEPT !.phase = "look", !.stamp = s, !.todo = names,
                                 !.listed = {<<act.untracked, n>> : n \in names}])
           ELSE Answer("failed")

Source == <<act.untracked, act.name>>
Target == <<act.tracked, act.name>>

\* A file whose place under the tracked spelling is taken goes to the trash
\* instead; copy is 0 for one that does not.
LookMerge(n) ==
  /\ At("look") /\ n \in act.todo /\ UNCHANGED <<disk, dirs, trash>>
  /\ IF Exists(<<act.tracked, n>>)
       THEN /\ DigFor(act.stamp, act.untracked)
            /\ LET nth == FreeName(act.stamp, act.untracked, n)
               IN  IF nth = 0 THEN Answer("failed")
                   ELSE Fresh([act EXCEPT !.phase = "shift", !.name = n, !.copy = nth])
       ELSE /\ Fresh([act EXCEPT !.phase = "shift", !.name = n, !.copy = 0])
            /\ UNCHANGED graves

ShiftMerge ==
  /\ At("shift") /\ Exists(Source)
  /\ IF act.copy = 0 THEN RenameTo(Source, Target) ELSE RenameToTrash(Source, act.copy)
  /\ Step([act EXCEPT !.phase = "look", !.todo = @ \ {act.name}, !.name = None, !.copy = 0,
                      !.moved = @ \cup {Source}])

\* Mutant of Emptied: the walk has moved everything there was.
EmptiedSurely == TRUE

\* dirIsEmptyOfFiles.
Emptied ==
  act.untracked \in SeenDirs /\ \A n \in Names : disk[<<act.untracked, n>>] = NoFile

EmptyMerge ==
  /\ At("look") /\ act.todo = {} /\ Still
  /\ LET copy == FreeFolder(act.untracked)
     IN  IF Emptied /\ copy # 0 THEN Fresh([act EXCEPT !.phase = "bury", !.copy = copy])
         ELSE Answer("failed")

\* The folder goes to the trash, with whatever is in it by now.
BuryMerge ==
  /\ At("bury") /\ act.untracked \in SeenDirs
  /\ graves' = graves \cup {[stamp |-> act.stamp, folder |-> act.untracked, copy |-> act.copy]}
  /\ trash' = trash \cup
       {Entry(act.untracked, act.copy, n, 1, disk[<<act.untracked, n>>]) :
          n \in {m \in Names : disk[<<act.untracked, m>>] # NoFile}}
  /\ dirs' = dirs \ {act.untracked}
  /\ disk' = [p \in Places |-> IF p[1] = act.untracked THEN NoFile ELSE disk[p]]
  /\ Answer("performed")

\* A system call fails, or its object is gone: nothing is rolled back.
Fail ==
  /\ At(act.phase) /\ act.phase \in {"move", "list", "look", "shift", "bury"}
  /\ Still
  /\ Answer("failed")

\* The process ends in the middle. Its successor starts from the cached report.
Crash ==
  /\ act.phase # "idle" \/ sweep # NoSweep
  /\ sweep' = NoSweep
  /\ Answer("none")
  /\ UNCHANGED <<world, bins, stored, dryRun, edits, sweeps>>

-----------------------------------------------------------------------------
(***************************************************************************)
(* Others: the *arr, and whoever works on the disk.                        *)
(***************************************************************************)
Others ==
  /\ edits < MaxEdits /\ edits' = edits + 1
  /\ UNCHANGED <<bins, sweep, stored, act, dryRun, sweeps>>

Tracks(files) == lib' = [lib EXCEPT !.files = files] /\ held' = held \cap files

Put(p, f) ==
  /\ RootOf[p[1]] \in mounted /\ f \notin Kept
  /\ disk' = [disk EXCEPT ![p] = f]
  /\ dirs' = dirs \cup {p[1]}
  /\ added' = IF act.phase = "idle" THEN {} ELSE added \cup {p}

\* The *arr imports a file, over an older one or not.
Import(p, f) ==
  /\ Others /\ UNCHANGED mounted
  /\ p[1] \in lib.folders
  /\ Put(p, f) /\ Tracks(lib.files \cup {p})

\* It finds a file where it looks, and tracks it.
Adopt(p) ==
  /\ Others /\ UNCHANGED <<disk, dirs, mounted, added>>
  /\ p[1] \in lib.folders /\ p \notin lib.files /\ Exists(p)
  /\ Tracks(lib.files \cup {p})

\* It deletes a file, or no longer counts it as its own.
Release(p) ==
  /\ Others /\ UNCHANGED <<dirs, mounted, added>>
  /\ p \in lib.files
  /\ disk' \in {disk, [disk EXCEPT ![p] = NoFile]}
  /\ Tracks(lib.files \ {p})

\* A title's folder becomes the other spelling, and its files are found there.
Respell(f, g) ==
  /\ Others /\ UNCHANGED <<disk, dirs, mounted, added>>
  /\ f \in lib.folders /\ g \notin lib.folders /\ Fold[f] = Fold[g] /\ RootOf[f] = RootOf[g]
  /\ LET files == {p \in lib.files : p[1] # f} \cup {p \in SeenPlaces : p[1] = g}
     IN  /\ lib' = [lib EXCEPT !.folders = (@ \ {f}) \cup {g}, !.files = files,
                               !.excluded = IF f \in @ THEN (@ \ {f}) \cup {g} ELSE @]
         /\ held' = held \cap files

\* Somebody copies a file to a place the *arr does not track.
Copy(p, f) ==
  /\ Others /\ UNCHANGED <<mounted, lib, held>>
  /\ p \notin lib.files
  /\ Put(p, f)

\* A share goes, or comes back.
Remount(r) ==
  /\ Others /\ UNCHANGED <<disk, dirs, lib, held>>
  /\ added' = IF act.phase = "idle" THEN {} ELSE added \cup Under(r, Places)
  /\ mounted' = IF r \in mounted THEN mounted \ {r} ELSE mounted \cup {r}

-----------------------------------------------------------------------------
Next ==
  \/ SweepReads \/ SweepWalks
  \/ \E kind \in {"orphan", "duplicate"}, p \in Places :
       ClickTrash(kind, p)
  \/ \E f, g \in Folders : ClickMerge(f, g)
  \/ ReadLive \/ MoveTrash
  \/ \E row \in Rows : VerifyTrash(row)
  \/ \E s \in Stamps : ChooseTrash(s) \/ ListMerge(s)
  \/ VerifyMerge \/ ShiftMerge \/ EmptyMerge \/ BuryMerge
  \/ \E n \in Names : LookMerge(n)
  \/ Fail \/ Crash
  \/ \E p \in Places : Adopt(p) \/ Release(p) \/ \E f \in Files : Import(p, f) \/ Copy(p, f)
  \/ \E f, g \in Folders : Respell(f, g)
  \/ \E r \in Roots : Remount(r)

Spec == Init /\ [][Next]_vars

-----------------------------------------------------------------------------
(***************************************************************************)
(* Properties.                                                             *)
(***************************************************************************)

\* os.Rename finds a file that was not to be seen when mergeTwin looked, one
\* imported since or one on a share that was away, and replaces it.
Replaced(p) == act.phase = "shift" /\ act.copy = 0 /\ p = Target /\ p \in added

\* No button loses a file: whatever is trashed, merged, refused or broken off
\* half-way, each file is still on the disk or in the trash, under a path of its
\* own, but for one that is replaced.
NothingIsLost ==
  [][edits' = edits => \/ Kept \subseteq Kept'
                      \/ \E p \in Places : Replaced(p) /\ Kept \ {disk[p]} \subseteq Kept']_vars

\* No button moves or replaces a file that the *arr has tracked ever since the
\* click, though its answers leave out files or titles (not both at once), and
\* however old the report on the page.
MovesNoTracked ==
  [][edits' = edits =>
       \A p \in held : disk[p] # NoFile => disk'[p] = disk[p] \/ Replaced(p)]_vars

\* "Performed" is true. A trashed file is the size the button named, unless it
\* was replaced after the fresh report; of a merge, all that was there is moved,
\* the folder is gone, and it took along nothing that was there when it was
\* found empty.
PerformedIsTrue ==
  [][(act.phase # "idle" /\ act'.outcome = "performed") =>
       IF act.kind = "merge"
         THEN /\ act.listed \subseteq act.moved
              /\ act.untracked \notin dirs'
              /\ \A n \in Names : disk[<<act.untracked, n>>] # NoFile => <<act.untracked, n>> \in added
         ELSE act.path \in added \/ SizeOf[disk[act.path]] = act.size]_vars

\* The report names no file that the *arr really tracked when it was asked,
\* though its answer may leave out any one thing, and calls no spelling untracked
\* under which it tracks a file.
NamesNoTracked ==
  [][stored' # stored =>
       /\ \A f \in stored'.files : f.path \notin sweep.truth
       /\ \A t \in stored'.twins : \A f \in t.names \ t.tracked : \A p \in sweep.truth : p[1] # f]_vars
=============================================================================
