------------------------- MODULE FileActionsProofs --------------------------
(***************************************************************************)
(* Theorems about FileReport and FileActions, for any roots, folders,      *)
(* names, files and starts, and any number of sweeps, clicks and edits.    *)
(***************************************************************************)
EXTENDS FileActions, WellFoundedInduction, TLAPS

USE FoldersAssumption

-----------------------------------------------------------------------------
(***************************************************************************)
(* The file report.                                                        *)
(***************************************************************************)
\* A library, and an answer about it.
Housed(l)  == \A p \in l.files : p[1] \in l.folders
OneKind(a) == a.nameless = {} \/ (a.pathless = {} /\ a.unlisted = {})

\* What the tracked set keeps of the library.
LEMMA TrackedIs ==
  ASSUME NEW l \in Libraries, NEW a \in Answers
  PROVE  /\ TrackedSet(l, a) \in Tracked
         /\ TrackedSet(l, a).folders = l.folders \ a.nameless
         /\ l.files \ (a.pathless \cup a.unlisted) \subseteq TrackedSet(l, a).files
         /\ Sonarr = FALSE => l.files \ a.pathless \subseteq TrackedSet(l, a).files
         /\ TrackedSet(l, a).distrusted = Distrusted(l, a)
         /\ Sonarr = TRUE => TrackedSet(l, a).mismatched = Mismatched(l, a)
<1>0. Sonarr \in BOOLEAN
  OBVIOUS
<1> DEFINE titled == l.folders # {}
           k == l.folders \ a.nameless
           x == k \cap (l.excluded \cup a.untagged)
           d == {p[1] : p \in l.files \cap a.pathless} \ a.nameless
           m == Mismatched(l, a)
<1>1. titled \in BOOLEAN /\ k \in SUBSET Folders /\ x \in SUBSET Folders
  BY DEF Libraries
<1>2. d \in SUBSET Folders /\ m \in SUBSET (Folders \X Seasons)
  BY DEF Libraries, Answers, Places, Mismatched, Seasons
<1>3. \A u : MovieSet(l, [a EXCEPT !.unlisted = u]) =
               [folders |-> k, files |-> l.files \ (a.pathless \cup u), excluded |-> x,
                distrusted |-> d, mismatched |-> {}, titled |-> titled]
  <2> TAKE u
  <2> DEFINE b == [a EXCEPT !.unlisted = u]
  <2>1. /\ b.nameless = a.nameless /\ b.pathless = a.pathless /\ b.untagged = a.untagged
        /\ b.unlisted = u
    BY DEF Answers
  <2> HIDE DEF b
  <2>2. MovieSet(l, b) =
          [folders |-> l.folders \ b.nameless, files |-> l.files \ (b.pathless \cup b.unlisted),
           excluded |-> (l.folders \ b.nameless) \cap (l.excluded \cup b.untagged),
           distrusted |-> Distrusted(l, b), mismatched |-> {}, titled |-> l.folders # {}]
    BY Zenon DEF MovieSet
  <2>3. Distrusted(l, b) = d
    BY <2>1, Zenon DEF Distrusted
  <2>4. MovieSet(l, b) =
               [folders |-> k, files |-> l.files \ (a.pathless \cup u), excluded |-> x,
                distrusted |-> d, mismatched |-> {}, titled |-> titled]
    BY <2>1, <2>2, <2>3, Zenon
  <2> QED BY <2>4 DEF b
<1>4. MovieSet(l, a) =
        [folders |-> k, files |-> l.files \ (a.pathless \cup a.unlisted), excluded |-> x,
         distrusted |-> d, mismatched |-> {}, titled |-> titled]
  BY Zenon DEF MovieSet, Distrusted
<1> HIDE DEF titled, k, x, d, m
<1>5. CASE Sonarr = TRUE
  <2>1. TrackedSet(l, a) = [MovieSet(l, a) EXCEPT !.mismatched = m]
    BY <1>5 DEF TrackedSet, SeriesSet, m
  <2> DEFINE f == l.files \ (a.pathless \cup a.unlisted)
             e == {}
  <2>3. f \in SUBSET Places
    BY DEF Libraries
  <2>a. MovieSet(l, a) =
          [folders |-> k, files |-> f, excluded |-> x, distrusted |-> d, mismatched |-> e,
           titled |-> titled]
    BY <1>4
  <2> HIDE DEF f, e
  <2>2. TrackedSet(l, a) =
          [folders |-> k, files |-> f, excluded |-> x, distrusted |-> d, mismatched |-> m,
           titled |-> titled]
    BY <2>a, <2>1
  <2>4. TrackedSet(l, a) \in Tracked
    BY <1>1, <1>2, <2>2, <2>3 DEF Tracked
  <2> QED BY <1>5, <2>2, <2>4 DEF f, k, d, m, Distrusted
<1>6. CASE Sonarr = FALSE
  <2> DEFINE f == l.files \ (a.pathless \cup {})
             e == {}
  <2>1. TrackedSet(l, a) = MovieSet(l, [a EXCEPT !.unlisted = {}])
    BY <1>6 DEF TrackedSet
  <2>2. TrackedSet(l, a) =
          [folders |-> k, files |-> f, excluded |-> x, distrusted |-> d, mismatched |-> e,
           titled |-> titled]
    BY <1>3, <2>1
  <2>3. f \in SUBSET Places /\ e \in SUBSET (Folders \X Seasons)
    BY DEF Libraries
  <2> HIDE DEF f, e
  <2>4. TrackedSet(l, a) \in Tracked
    BY <1>1, <1>2, <2>2, <2>3 DEF Tracked
  <2> QED BY <1>6, <2>2, <2>4 DEF f, k, d, Distrusted
<1> QED BY <1>0, <1>5, <1>6

LEMMA TrackedHas ==
  ASSUME NEW l \in Libraries, NEW a \in Answers, NEW t, t = TrackedSet(l, a)
  PROVE  /\ t \in Tracked
         /\ t.folders = l.folders \ a.nameless
         /\ l.files \ (a.pathless \cup a.unlisted) \subseteq t.files
         /\ Sonarr = FALSE => l.files \ a.pathless \subseteq t.files
         /\ \A p \in l.files \cap a.pathless : p[1] \notin a.nameless => p[1] \in t.distrusted
         /\ Sonarr = TRUE => t.mismatched = Mismatched(l, a)
<1>1. \A p \in l.files \cap a.pathless : p[1] \notin a.nameless => p[1] \in Distrusted(l, a)
  BY DEF Distrusted
<1> QED BY <1>1, TrackedIs, Zenon

\* What no orphan and no duplicate is.
LEMMA Unreported ==
  ASSUME NEW p, NEW t,
         \/ p \in t.files
         \/ p[1] \in t.folders /\ (p[1] \in t.distrusted \/ InMismatch(p, t))
  PROVE  Classify(p, t) \notin {"orphan", "duplicate"}
BY DEF Classify

\* A place the *arr tracks is neither an orphan nor a duplicate, though any one
\* kind of thing is left out of its answer.
LEMMA TrackedClassified ==
  ASSUME NEW l \in Libraries, Housed(l), NEW a \in Answers, OneKind(a),
         NEW t, t = TrackedSet(l, a),
         NEW p \in l.files
  PROVE  Classify(p, t) \notin {"orphan", "duplicate"}
<1>0. p \in Places /\ p[1] \in l.folders /\ p[2] \in Names /\ Sonarr \in BOOLEAN
  BY DEF Libraries, Places, Housed
<1>1. CASE a.nameless = {}
  <2>0. t.folders = l.folders \ a.nameless
    BY TrackedHas, Zenon
  <2>1. p[1] \in t.folders
    BY <1>0, <1>1, <2>0
  <2>2. CASE p \in a.pathless
    <3>1. p[1] \in t.distrusted
      BY <1>1, <2>2, TrackedHas
    <3> QED BY <2>1, <3>1, Unreported
  <2>3. CASE p \in a.unlisted /\ Sonarr = TRUE
    <3>1. <<p[1], SeasonOf[p[2]]>> \in t.mismatched
      BY <1>1, <2>3, TrackedHas DEF Mismatched
    <3>2. InMismatch(p, t)
      BY <1>0, <3>1, SeasonsAssumption DEF InMismatch, Seasons
    <3> QED BY <2>1, <3>2, Unreported
  <2>4. CASE p \notin a.pathless /\ (p \notin a.unlisted \/ Sonarr = FALSE)
    <3>1. p \in t.files
      BY <2>4, TrackedHas
    <3> QED BY <3>1, Unreported
  <2> QED BY <1>0, <2>2, <2>3, <2>4
<1>2. CASE a.pathless = {} /\ a.unlisted = {}
  <2>1. p \in t.files
    BY <1>2, TrackedHas
  <2> QED BY <2>1, Unreported
<1> QED BY <1>1, <1>2 DEF OneKind

\* Nor is a spelling called untracked under which it tracks a file.
LEMMA TrackedHeld ==
  ASSUME NEW l \in Libraries, Housed(l), NEW a \in Answers, OneKind(a),
         NEW t, t = TrackedSet(l, a),
         NEW p \in l.files
  PROVE  HoldsTracked(p[1], t)
<1>1. CASE a.nameless = {}
  <2>0. t.folders = l.folders \ a.nameless
    BY TrackedHas, Zenon
  <2>1. p[1] \in t.folders
    BY <1>1, <2>0 DEF Housed
  <2> QED BY <2>1 DEF HoldsTracked
<1>2. CASE a.pathless = {} /\ a.unlisted = {}
  <2>1. p \in t.files
    BY <1>2, TrackedHas
  <2> QED BY <2>1 DEF HoldsTracked
<1> QED BY <1>1, <1>2 DEF OneKind

\* What a report says of a file is what the walk saw.
LEMMA ReportedFile ==
  ASSUME NEW t, NEW ds, NEW seen, NEW size, NEW f \in Report(t, ds, seen, size).files
  PROVE  /\ f.path \in seen
         /\ f.kind = Classify(f.path, t)
         /\ f.kind \in {"orphan", "duplicate"}
         /\ f.size = size[f.path]
<1> DEFINE files == UNION {FileFindings(r, ds, seen, size, t) : r \in {x \in Roots : ~SkipsRoot(x, ds, seen, t)}}
<1>1. Report(t, ds, seen, size).files \in {{}, files}
  BY DEF Report, NoReport, SkippedReport
<1>2. PICK r \in Roots : f \in FileFindings(r, ds, seen, size, t)
  BY <1>1
<1>3. PICK p \in Walked(r, ds, seen) :
        /\ f = [kind |-> Classify(p, t), path |-> p, size |-> size[p]]
        /\ Classify(p, t) \in {"orphan", "duplicate"}
  BY <1>2 DEF FileFindings
<1>4. p \in seen
  BY DEF Walked, Under
<1> QED BY <1>3, <1>4

\* And of folders: they lie in one root, and the untracked hold nothing tracked.
TwinSeen(g, t, ds) ==
  /\ g.names \subseteq ds
  /\ g.tracked = {f \in g.names : HoldsTracked(f, t)}
  /\ \A f, h \in g.names : RootOf[f] = RootOf[h]

LEMMA ReportedTwin ==
  ASSUME NEW t, NEW ds \in SUBSET Folders, NEW seen, NEW size,
         NEW g \in Report(t, ds, seen, size).twins
  PROVE  TwinSeen(g, t, ds)
<1> DEFINE twins == UNION {TwinFindings(r, ds, t) : r \in {x \in Roots : ~SkipsRoot(x, ds, seen, t)}}
<1>1. Report(t, ds, seen, size).twins \in {{}, twins}
  BY DEF Report, NoReport, SkippedReport
<1>2. PICK r \in Roots : g \in TwinFindings(r, ds, t)
  BY <1>1
<1>3. PICK names \in FolderGroups(r, ds) :
        g = [names |-> names, tracked |-> {f \in names : HoldsTracked(f, t)}]
  BY <1>2 DEF TwinFindings
<1>4. PICK d \in ds : names = Twins(d, ds)
  BY DEF FolderGroups
<1>5. names \subseteq ds /\ \A f \in names : RootOf[f] = RootOf[d]
  BY <1>4 DEF Twins
<1>6. g.names = names /\ g.tracked = {f \in names : HoldsTracked(f, t)}
  BY <1>3
<1> QED BY <1>5, <1>6 DEF TwinSeen

-----------------------------------------------------------------------------
(***************************************************************************)
(* The library.                                                            *)
(***************************************************************************)
LibraryOK == lib \in Libraries /\ Housed(lib)

\* What a sweep has read, and what there was to read.
SweepKnows ==
  sweep # NoSweep =>
    \E l \in Libraries, a \in Answers :
      /\ Housed(l) /\ OneKind(a)
      /\ sweep = [set |-> TrackedSet(l, a), truth |-> l.files]

LEMMA GapsAre == \A a \in Gaps : a \in Answers /\ OneKind(a)
BY GapsAssumption DEF OneKind

LEMMA LibraryStep == LibraryOK /\ [Next]_vars => LibraryOK'
<1> SUFFICES ASSUME LibraryOK, [Next]_vars PROVE LibraryOK'
  OBVIOUS
<1>1. CASE UNCHANGED lib
  BY <1>1 DEF LibraryOK, Housed
<1> DEFINE new == [folders : SUBSET Folders, files : SUBSET Places, excluded : SUBSET Folders]
<1>2. ASSUME NEW p \in Places, Adopt(p) \/ Release(p) \/ \E f \in Files : Import(p, f)
      PROVE  LibraryOK'
  <2>1. PICK files : lib' = [lib EXCEPT !.files = files] /\ files \subseteq lib.files \cup {p}
                     /\ (p \in files => p[1] \in lib.folders)
    BY <1>2 DEF Adopt, Release, Import, Tracks
  <2>2. \A q \in files : q \in Places /\ q[1] \in lib.folders
    BY <2>1 DEF LibraryOK, Housed, Libraries
  <2> QED BY <2>1, <2>2 DEF LibraryOK, Housed, Libraries
<1>3. ASSUME NEW f \in Folders, NEW g \in Folders, Respell(f, g)
      PROVE  LibraryOK'
  <2> DEFINE files == {p \in lib.files : p[1] # f} \cup {p \in SeenPlaces : p[1] = g}
             folders == (lib.folders \ {f}) \cup {g}
             excluded == IF f \in lib.excluded THEN (lib.excluded \ {f}) \cup {g} ELSE lib.excluded
  <2>1. lib' = [lib EXCEPT !.folders = folders, !.files = files, !.excluded = excluded]
    BY <1>3 DEF Respell
  <2>2. /\ files \subseteq Places /\ folders \subseteq Folders /\ excluded \subseteq Folders
        /\ \A q \in files : q[1] \in folders
    BY DEF LibraryOK, Housed, Libraries, SeenPlaces
  <2> HIDE DEF files, folders, excluded
  <2>3. lib' \in Libraries /\ lib'.files = files /\ lib'.folders = folders
    BY <2>1, <2>2 DEF LibraryOK, Libraries
  <2> QED BY <2>2, <2>3 DEF LibraryOK, Housed
<1> QED
  BY <1>1, <1>2, <1>3 DEF Next, vars, world, SweepReads, SweepWalks, ClickTrash, ClickMerge, ReadLive,
     MoveTrash, VerifyTrash, ChooseTrash, ListMerge, VerifyMerge, ShiftMerge, EmptyMerge, BuryMerge,
     LookMerge, Fail, Crash, At, Copy, Remount, Others

-----------------------------------------------------------------------------
(***************************************************************************)
(* What a click knows, step by step.                                       *)
(***************************************************************************)
Kinds     == {"none", "orphan", "duplicate", "merge"}
Outcomes  == {"none", "refused", "rehearsed", "performed", "failed"}
Paths     == Places \cup {<<>>}
Spellings == Folders \cup {None}
Merging   == {"list", "look", "shift", "bury"}

Acts ==
  [phase : Phases, kind : Kinds, path : Paths, tracked : Spellings, untracked : Spellings,
   size : Nat, stamp : Stamps \cup {None}, live : Tracked, todo : SUBSET Names,
   name : Names \cup {None}, copy : Nat, listed : SUBSET Places, moved : SUBSET Places,
   outcome : Outcomes]

DiskOK ==
  /\ disk \in [Places -> Files \cup {NoFile}]
  /\ dirs \subseteq Folders /\ mounted \subseteq Roots
  /\ \A p \in Places : disk[p] # NoFile => p[1] \in dirs

Grave(e) == [stamp |-> e.stamp, folder |-> e.folder, copy |-> e.copy]

\* Every entry of the trash has a path of its own, in a folder that was made.
TrashOK ==
  /\ trash \subseteq Entries /\ graves \subseteq Graves
  /\ \A e, f \in trash : e # f => [e EXCEPT !.file = f.file] # f
  /\ \A e \in trash : Grave(e) \in graves

\* No entry of the trash has this path.
Free(s, f, n, nth) ==
  \A e \in trash : ~(e.stamp = s /\ e.folder = f /\ e.copy = 1 /\ e.name = n /\ e.nth = nth)

\* The place is empty, or got its file since the last check.
Vacant(p) == disk[p] = NoFile \/ p \in added

\* Between the fresh report and the checks: what was read covers what is held.
WalkKnows ==
  act.phase = "walk" =>
    \E l \in Libraries, a \in Answers :
      /\ Housed(l) /\ OneKind(a)
      /\ act.live = TrackedSet(l, a) /\ held \subseteq l.files

\* A file on its way to the trash: it is not tracked, and it is the one verified.
FileAimed ==
  act.phase \in {"choose", "move"} =>
    /\ act.kind # "merge" /\ act.path \in Places /\ act.path \notin held
    /\ Vacant(act.path) \/ SizeOf[disk[act.path]] = act.size

FileFree ==
  act.phase = "move" =>
    /\ act.stamp \in Stamps /\ act.copy \in 1 .. MaxCopies
    /\ Free(act.stamp, act.path[1], act.path[2], act.copy)
    /\ [stamp |-> act.stamp, folder |-> act.path[1], copy |-> 1] \in graves

\* A merge: nothing tracked is under the untracked spelling.
TwinAimed ==
  act.phase \in Merging =>
    /\ act.kind = "merge"
    /\ act.tracked \in Folders /\ act.untracked \in Folders /\ act.tracked # act.untracked
    /\ RootOf[act.tracked] = RootOf[act.untracked]
    /\ \A p \in held : p[1] # act.untracked

\* What has been listed is moved, or still to do.
TwinListed ==
  act.phase \in {"look", "shift", "bury"} =>
    /\ act.stamp \in Stamps
    /\ \A p \in act.listed : p \in act.moved \/ \E n \in act.todo : p = <<act.untracked, n>>

\* A file on its way out of the untracked folder: the place for it is free.
TwinShift ==
  act.phase = "shift" =>
    /\ act.name \in act.todo /\ act.copy \in 0 .. MaxCopies
    /\ act.copy = 0 => Vacant(Target) \/ RootOf[act.tracked] \notin mounted
    /\ act.copy # 0 => /\ Free(act.stamp, act.untracked, act.name, act.copy)
                       /\ [stamp |-> act.stamp, folder |-> act.untracked, copy |-> 1] \in graves

\* And the folder on its way to the trash: all is moved, and it is empty.
TwinBury ==
  act.phase = "bury" =>
    /\ act.todo = {} /\ act.copy \in 1 .. MaxCopies
    /\ [stamp |-> act.stamp, folder |-> act.untracked, copy |-> act.copy] \notin graves
    /\ \A n \in Names : Vacant(<<act.untracked, n>>)

Aimed == WalkKnows /\ FileAimed /\ FileFree /\ TwinAimed /\ TwinListed /\ TwinShift /\ TwinBury

ClickOK ==
  /\ act \in Acts
  /\ held \subseteq lib.files /\ added \subseteq Places
  /\ act.phase # "idle" => act.outcome = "none"

StoredOK == stored \in Reports

Guarded == DiskOK /\ TrashOK /\ ClickOK /\ Aimed
Safe    == LibraryOK /\ StoredOK /\ Guarded

-----------------------------------------------------------------------------
(***************************************************************************)
(* Names in the trash.                                                     *)
(***************************************************************************)
LEMMA LeastOf ==
  ASSUME NEW S \in SUBSET Nat, S # {}
  PROVE  \E k \in S : \A j \in S : k <= j
<1>1. PICK k \in S : \A j \in S : <<j, k>> \notin OpToRel(<, Nat)
  BY WFMin, NatLessThanWellFounded
<1>2. \A j \in S : ~(j < k)
  BY <1>1 DEF OpToRel
<1> QED BY <1>2

LEMMA FirstFreeIsFree ==
  ASSUME NEW taken, FirstFree(taken) # 0
  PROVE  FirstFree(taken) \in 1 .. MaxCopies /\ FirstFree(taken) \notin taken
<1> DEFINE free == {k \in 1 .. MaxCopies : k \notin taken}
<1>1. free # {} /\ FirstFree(taken) = CHOOSE k \in free : \A j \in free : k <= j
  BY DEF FirstFree
<1>2. free \in SUBSET Nat
  BY LimitAssumption
<1> HIDE DEF free
<1>3. (CHOOSE k \in free : \A j \in free : k <= j) \in free
  BY <1>1, <1>2, LeastOf
<1> QED BY <1>1, <1>3 DEF free

LEMMA FreeNameIsFree ==
  ASSUME NEW s, NEW f, NEW n, FreeName(s, f, n) # 0
  PROVE  FreeName(s, f, n) \in 1 .. MaxCopies /\ Free(s, f, n, FreeName(s, f, n))
<1> DEFINE taken == {e.nth : e \in {x \in trash : x.stamp = s /\ x.folder = f /\ x.copy = 1 /\ x.name = n}}
<1>1. FreeName(s, f, n) = FirstFree(taken)
  BY DEF FreeName
<1> HIDE DEF taken
<1>2. FirstFree(taken) \in 1 .. MaxCopies /\ FirstFree(taken) \notin taken
  BY <1>1, FirstFreeIsFree
<1> QED BY <1>1, <1>2 DEF Free, taken

LEMMA FreeFolderIsFree ==
  ASSUME NEW f, FreeFolder(f) # 0
  PROVE  /\ FreeFolder(f) \in 1 .. MaxCopies
         /\ [stamp |-> act.stamp, folder |-> f, copy |-> FreeFolder(f)] \notin graves
<1> DEFINE taken == {g.copy : g \in {x \in graves : x.stamp = act.stamp /\ x.folder = f}}
<1>1. FreeFolder(f) = FirstFree(taken)
  BY DEF FreeFolder
<1> HIDE DEF taken
<1>2. FirstFree(taken) \in 1 .. MaxCopies /\ FirstFree(taken) \notin taken
  BY <1>1, FirstFreeIsFree
<1>3. ASSUME NEW k, [stamp |-> act.stamp, folder |-> f, copy |-> k] \in graves
      PROVE  k \in taken
  <2> DEFINE g == [stamp |-> act.stamp, folder |-> f, copy |-> k]
  <2>1. g.stamp = act.stamp /\ g.folder = f /\ g.copy = k
    OBVIOUS
  <2> HIDE DEF g
  <2> QED BY <1>3, <2>1 DEF g, taken
<1> QED BY <1>1, <1>2, <1>3

-----------------------------------------------------------------------------
(***************************************************************************)
(* What goes on beside the click.                                          *)
(***************************************************************************)
\* Others neither move the click on nor touch the trash, and where they have put
\* a file, or a share has come back, one may have appeared.
Beside ==
  /\ act' = act /\ trash' = trash /\ graves' = graves
  /\ held' \subseteq held /\ held' \subseteq lib'.files
  /\ act.phase # "idle" => added \subseteq added'
  /\ act.phase # "idle" => \A p \in Places : disk'[p] \in {disk[p], NoFile} \/ p \in added'
  /\ act.phase # "idle" =>
       \A p \in Places : RootOf[p[1]] \in mounted' => RootOf[p[1]] \in mounted \/ p \in added'
  /\ added' \subseteq Places
  /\ DiskOK'

LEMMA VacantBeside ==
  ASSUME Beside, act.phase # "idle", NEW p \in Places, Vacant(p)
  PROVE  Vacant(p)'
BY DEF Beside, Vacant

LEMMA AimedBeside ==
  ASSUME Safe, Beside
  PROVE  TrashOK' /\ ClickOK' /\ Aimed'
<1>1. TrashOK'
  BY DEF Safe, Guarded, TrashOK, Beside, Grave
<1>2. ClickOK'
  BY DEF Safe, Guarded, ClickOK, Beside
<1>a. act' = act /\ trash' = trash /\ graves' = graves /\ held' \subseteq held
  BY DEF Beside
<1>b. ASSUME NEW s, NEW f, NEW n, NEW k, Free(s, f, n, k) PROVE Free(s, f, n, k)'
  BY <1>a, <1>b DEF Free
<1>3. WalkKnows'
  BY <1>a DEF Safe, Guarded, Aimed, WalkKnows
<1>4. FileAimed'
  <2> SUFFICES ASSUME act.phase \in {"choose", "move"}
               PROVE  /\ act.kind # "merge" /\ act.path \in Places /\ act.path \notin held'
                      /\ Vacant(act.path)' \/ SizeOf[disk'[act.path]] = act.size
    BY <1>a DEF FileAimed
  <2>1. /\ act.kind # "merge" /\ act.path \in Places /\ act.path \notin held
        /\ Vacant(act.path) \/ SizeOf[disk[act.path]] = act.size
    BY DEF Safe, Guarded, Aimed, FileAimed
  <2> QED BY <1>a, <2>1 DEF Beside, Vacant
<1>5. FileFree'
  BY <1>a DEF Safe, Guarded, Aimed, FileFree, Free
<1>6. TwinAimed'
  BY <1>a DEF Safe, Guarded, Aimed, TwinAimed
<1>7. TwinListed'
  BY <1>a DEF Safe, Guarded, Aimed, TwinListed
<1>8. TwinShift'
  <2> SUFFICES ASSUME act.phase = "shift" PROVE TwinShift'
    BY <1>a DEF TwinShift
  <2>1. TwinShift /\ TwinAimed /\ act \in Acts
    BY DEF Safe, Guarded, Aimed, ClickOK
  <2>2. Target \in Places /\ Target' = Target /\ Target[1] = act.tracked
    BY <1>a, <2>1 DEF TwinShift, TwinAimed, Target, Places, Acts, Merging
  <2>3. ASSUME Vacant(Target) \/ RootOf[act.tracked] \notin mounted
        PROVE  Vacant(Target)' \/ RootOf[act.tracked] \notin mounted'
    BY <2>2, <2>3 DEF Beside, Vacant
  <2> QED BY <1>a, <2>1, <2>3 DEF TwinShift, Free
<1>9. TwinBury'
  <2> SUFFICES ASSUME act.phase = "bury" PROVE TwinBury'
    BY <1>a DEF TwinBury
  <2>1. TwinBury /\ TwinAimed
    BY DEF Safe, Guarded, Aimed
  <2>2. ASSUME NEW n \in Names PROVE Vacant(<<act.untracked, n>>)'
    <3>1. <<act.untracked, n>> \in Places /\ Vacant(<<act.untracked, n>>)
      BY <2>1 DEF TwinBury, TwinAimed, Merging, Places
    <3> QED BY <1>a, <3>1 DEF Beside, Vacant
  <2> QED BY <1>a, <2>1, <2>2 DEF TwinBury
<1> QED BY <1>1, <1>2, <1>3, <1>4, <1>5, <1>6, <1>7, <1>8, <1>9 DEF Aimed

\* Every step of the sweep, the *arr and people is beside the click.
LEMMA Around ==
  ASSUME Safe,
         \/ SweepReads \/ SweepWalks \/ UNCHANGED vars
         \/ \E p \in Places : Adopt(p) \/ Release(p) \/ \E f \in Files : Import(p, f) \/ Copy(p, f)
         \/ \E f, g \in Folders : Respell(f, g)
         \/ \E r \in Roots : Remount(r)
  PROVE  Beside
<1>0. DiskOK /\ held \subseteq lib.files /\ added \subseteq Places /\ lib \in Libraries
  BY DEF Safe, Guarded, ClickOK, LibraryOK
<1>1. CASE SweepReads \/ SweepWalks \/ UNCHANGED vars
  <2>1. UNCHANGED <<disk, dirs, mounted, lib, trash, graves, act, held, added>>
    BY <1>1 DEF SweepReads, SweepWalks, vars, world, bins, past
  <2> QED BY <1>0, <2>1 DEF Beside, DiskOK
<1>2. ASSUME NEW p \in Places, NEW f \in Files, Put(p, f),
             UNCHANGED <<trash, graves, act, mounted>>,
             held' \subseteq held, held' \subseteq lib'.files
      PROVE  Beside
  <2>1. disk' = [disk EXCEPT ![p] = f] /\ dirs' = dirs \cup {p[1]}
    BY <1>2 DEF Put
  <2>2. added' = IF act.phase = "idle" THEN {} ELSE added \cup {p}
    BY <1>2 DEF Put
  <2>3. DiskOK'
    BY <1>0, <1>2, <2>1 DEF DiskOK, Places
  <2>4. \A q \in Places : disk'[q] = disk[q] \/ q = p
    BY <1>0, <2>1 DEF DiskOK
  <2> QED BY <1>0, <1>2, <2>2, <2>3, <2>4 DEF Beside
<1>3. ASSUME NEW p \in Places, NEW f \in Files, Import(p, f) PROVE Beside
  <2>1. held' = held \cap (lib.files \cup {p}) /\ lib'.files = lib.files \cup {p}
    BY <1>0, <1>3 DEF Import, Tracks, Libraries
  <2> QED BY <1>2, <1>3, <2>1 DEF Import, Others, bins
<1>4. ASSUME NEW p \in Places, NEW f \in Files, Copy(p, f) PROVE Beside
  BY <1>0, <1>2, <1>4 DEF Copy, Others, bins
<1>5. ASSUME NEW p \in Places, Adopt(p) PROVE Beside
  <2>1. held' = held \cap (lib.files \cup {p}) /\ lib'.files = lib.files \cup {p}
    BY <1>0, <1>5 DEF Adopt, Tracks, Libraries
  <2>2. UNCHANGED <<disk, dirs, mounted, trash, graves, act, added>>
    BY <1>5 DEF Adopt, Others, bins
  <2> QED BY <1>0, <2>1, <2>2 DEF Beside, DiskOK
<1>6. ASSUME NEW p \in Places, Release(p) PROVE Beside
  <2>1. held' = held \cap (lib.files \ {p}) /\ lib'.files = lib.files \ {p}
    BY <1>0, <1>6 DEF Release, Tracks, Libraries
  <2>2. UNCHANGED <<dirs, mounted, trash, graves, act, added>>
    BY <1>6 DEF Release, Others, bins
  <2>3. disk' \in {disk, [disk EXCEPT ![p] = NoFile]}
    BY <1>6 DEF Release
  <2>4. \A q \in Places : disk'[q] \in {disk[q], NoFile}
    BY <1>0, <2>3 DEF DiskOK
  <2>5. disk' \in [Places -> Files \cup {NoFile}]
    BY <1>0, <2>3 DEF DiskOK
  <2> QED BY <1>0, <2>1, <2>2, <2>4, <2>5 DEF Beside, DiskOK
<1>7. ASSUME NEW f \in Folders, NEW g \in Folders, Respell(f, g) PROVE Beside
  <2> DEFINE files == {p \in lib.files : p[1] # f} \cup {p \in SeenPlaces : p[1] = g}
  <2>1. /\ held' = held \cap files
        /\ \E x, y : lib' = [lib EXCEPT !.folders = x, !.files = files, !.excluded = y]
    BY <1>7 DEF Respell
  <2> HIDE DEF files
  <2>2. lib'.files = files
    BY <1>0, <2>1 DEF Libraries
  <2>3. UNCHANGED <<disk, dirs, mounted, trash, graves, act, added>>
    BY <1>7 DEF Respell, Others, bins
  <2> QED BY <1>0, <2>1, <2>2, <2>3 DEF Beside, DiskOK
<1>8. ASSUME NEW r \in Roots, Remount(r) PROVE Beside
  <2>1. UNCHANGED <<disk, dirs, lib, held, trash, graves, act>>
    BY <1>8 DEF Remount, Others, bins
  <2>2. /\ added' = IF act.phase = "idle" THEN {} ELSE added \cup Under(r, Places)
        /\ mounted' = IF r \in mounted THEN mounted \ {r} ELSE mounted \cup {r}
    BY <1>8 DEF Remount
  <2>3. \A p \in Places : RootOf[p[1]] \in mounted' => RootOf[p[1]] \in mounted \/ p \in Under(r, Places)
    BY <2>2 DEF Under
  <2>4. added' \subseteq Places
    BY <1>0, <2>2 DEF Under
  <2> QED BY <1>0, <2>1, <2>2, <2>3, <2>4 DEF Beside, DiskOK
<1> QED BY <1>1, <1>3, <1>4, <1>5, <1>6, <1>7, <1>8

-----------------------------------------------------------------------------
(***************************************************************************)
(* The steps of a click.                                                   *)
(***************************************************************************)
LEMMA NoActIs ==
  /\ NoTracked \in Tracked
  /\ NoAct \in Acts
  /\ NoAct.phase = "idle" /\ NoAct.outcome = "none"
<1>1. NoTracked \in Tracked
  BY DEF NoTracked, Tracked
<1>2. NoAct \in Acts
  <2> DEFINE t == NoTracked
  <2>1. t \in Tracked
    BY <1>1
  <2> HIDE DEF t
  <2>2. /\ "idle" \in Phases /\ "none" \in Kinds /\ "none" \in Outcomes /\ <<>> \in Paths
        /\ None \in Spellings
    BY DEF Phases, Kinds, Outcomes, Paths, Spellings
  <2> DEFINE e == <<>>
  <2> HIDE DEF e
  <2>3. e \in Paths
    BY <2>2 DEF e
  <2>4. NoAct = [phase |-> "idle", kind |-> "none", path |-> e, tracked |-> None,
                 untracked |-> None, size |-> 0, stamp |-> None, live |-> t, todo |-> {},
                 name |-> None, copy |-> 0, listed |-> {}, moved |-> {}, outcome |-> "none"]
    BY DEF NoAct, t, e
  <2> QED BY <2>1, <2>2, <2>3, <2>4 DEF Acts
<1> QED BY <1>1, <1>2 DEF NoAct

LEMMA Answered ==
  ASSUME NEW o \in Outcomes, Answer(o)
  PROVE  ClickOK' /\ Aimed'
<1>1. act' = [NoAct EXCEPT !.outcome = o] /\ held' = {} /\ added' = {}
  BY DEF Answer
<1>2. act' \in Acts /\ act'.phase = "idle"
  BY <1>1, NoActIs DEF Acts
<1>3. ClickOK'
  BY <1>1, <1>2 DEF ClickOK
<1>4. Aimed'
  BY <1>2 DEF Aimed, WalkKnows, FileAimed, FileFree, TwinAimed, TwinListed, TwinShift, TwinBury, Merging
<1> QED BY <1>3, <1>4

LEMMA Begun ==
  ASSUME Safe, NEW a \in Acts, a.phase = "read", a.outcome = "none", Begin(a), lib' = lib
  PROVE  ClickOK' /\ Aimed'
<1>1. act' = a /\ held' = lib.files /\ added' = {}
  BY DEF Begin
<1>2. ClickOK'
  BY <1>1 DEF ClickOK
<1>3. Aimed'
  BY <1>1 DEF Aimed, WalkKnows, FileAimed, FileFree, TwinAimed, TwinListed, TwinShift, TwinBury, Merging
<1> QED BY <1>2, <1>3

LEMMA StillOK ==
  ASSUME Safe, Still, mounted' = mounted
  PROVE  DiskOK' /\ TrashOK'
BY DEF Safe, Guarded, DiskOK, TrashOK, Still, bins, Grave

LEMMA TrashClicked ==
  ASSUME Safe, NEW kind \in {"orphan", "duplicate"}, NEW p \in Places, ClickTrash(kind, p)
  PROVE  Guarded'
<1>1. At("idle") /\ Still
  BY DEF ClickTrash
<1>2. DiskOK' /\ TrashOK'
  BY <1>1, StillOK DEF At
<1>3. ASSUME NEW f \in FileFinding(stored, kind, p),
             Begin([NoAct EXCEPT !.phase = "read", !.kind = kind, !.path = p, !.size = f.size])
      PROVE  ClickOK' /\ Aimed'
  <2> DEFINE a == [NoAct EXCEPT !.phase = "read", !.kind = kind, !.path = p, !.size = f.size]
  <2>1. f.size \in Nat
    BY DEF Safe, StoredOK, Reports, FileFinding
  <2>2. "read" \in Phases /\ kind \in Kinds /\ p \in Paths
    BY DEF Phases, Kinds, Paths
  <2>3. a \in Acts /\ a.phase = "read" /\ a.outcome = "none"
    BY <2>1, <2>2, NoActIs DEF Acts
  <2> HIDE DEF a
  <2>4. Begin(a)
    BY <1>3 DEF a
  <2> QED BY <1>1, <2>3, <2>4, Begun DEF At
<1>4. CASE Refuse
  BY <1>2, <1>4, Answered DEF Refuse, Outcomes, Guarded
<1> QED BY <1>2, <1>3, <1>4 DEF ClickTrash, Guarded

LEMMA MergeClicked ==
  ASSUME Safe, NEW f \in Folders, NEW g \in Folders, ClickMerge(f, g)
  PROVE  Guarded'
<1>1. At("idle") /\ Still
  BY DEF ClickMerge
<1>2. DiskOK' /\ TrashOK'
  BY <1>1, StillOK DEF At
<1>3. ASSUME Begin([NoAct EXCEPT !.phase = "read", !.kind = "merge", !.tracked = f, !.untracked = g])
      PROVE  ClickOK' /\ Aimed'
  <2> DEFINE a == [NoAct EXCEPT !.phase = "read", !.kind = "merge", !.tracked = f, !.untracked = g]
  <2>1. "read" \in Phases /\ "merge" \in Kinds /\ f \in Spellings /\ g \in Spellings
    BY DEF Phases, Kinds, Spellings
  <2>2. a \in Acts /\ a.phase = "read" /\ a.outcome = "none"
    BY <2>1, NoActIs DEF Acts
  <2> HIDE DEF a
  <2>3. Begin(a)
    BY <1>3 DEF a
  <2> QED BY <1>1, <2>2, <2>3, Begun DEF At
<1>4. CASE Refuse
  BY <1>2, <1>4, Answered DEF Refuse, Outcomes, Guarded
<1> QED BY <1>2, <1>3, <1>4 DEF ClickMerge, Guarded

LEMMA LiveRead ==
  ASSUME Safe, ReadLive
  PROVE  Guarded'
<1>1. At("read") /\ Still
  BY DEF ReadLive
<1>2. DiskOK' /\ TrashOK'
  BY <1>1, StillOK DEF At
<1>3. ASSUME NEW a \in Gaps, Step([act EXCEPT !.phase = "walk", !.live = TrackedSet(lib, a)])
      PROVE  ClickOK' /\ Aimed'
  <2> DEFINE t == TrackedSet(lib, a)
  <2>1. lib \in Libraries /\ Housed(lib) /\ a \in Answers /\ OneKind(a)
    BY GapsAre DEF Safe, LibraryOK
  <2>2. t \in Tracked
    BY <2>1, TrackedIs
  <2> HIDE DEF t
  <2>3. act' = [act EXCEPT !.phase = "walk", !.live = t] /\ held' = held /\ added' = added
    BY <1>3 DEF Step, past, t
  <2>4. act \in Acts /\ act.phase = "read" /\ act.outcome = "none" /\ held \subseteq lib.files
        /\ added \subseteq Places
    BY <1>1 DEF Safe, Guarded, ClickOK, At
  <2>5. act' \in Acts /\ act'.phase = "walk" /\ act'.live = t /\ act'.outcome = "none"
    BY <2>2, <2>3, <2>4 DEF Acts, Phases
  <2>6. ClickOK'
    BY <1>1, <2>3, <2>4, <2>5 DEF ClickOK, At
  <2>7. WalkKnows'
    BY <2>1, <2>3, <2>4, <2>5 DEF WalkKnows, t
  <2>8. Aimed'
    BY <2>5, <2>7 DEF Aimed, FileAimed, FileFree, TwinAimed, TwinListed, TwinShift, TwinBury, Merging
  <2> QED BY <2>6, <2>8
<1>4. CASE Refuse
  BY <1>2, <1>4, Answered DEF Refuse, Outcomes, Guarded
<1> QED BY <1>2, <1>3, <1>4 DEF ReadLive, Guarded

LEMMA TrashVerified ==
  ASSUME Safe, NEW row, VerifyTrash(row)
  PROVE  Guarded'
<1>1. At("walk") /\ Still
  BY DEF VerifyTrash
<1>2. DiskOK' /\ TrashOK'
  BY <1>1, StillOK DEF At
<1>3. ASSUME NEW f \in StillFound, f.size = act.size,
             Fresh([act EXCEPT !.phase = "choose", !.live = NoTracked]),
             act.kind \in {"orphan", "duplicate"}
      PROVE  ClickOK' /\ Aimed'
  <2>1. act' = [act EXCEPT !.phase = "choose", !.live = NoTracked] /\ held' = held /\ added' = {}
    BY <1>3 DEF Fresh
  <2>2. act \in Acts /\ act.phase = "walk" /\ act.outcome = "none" /\ held \subseteq lib.files
    BY <1>1 DEF Safe, Guarded, ClickOK, At
  <2>3. /\ act' \in Acts /\ act'.phase = "choose" /\ act'.outcome = "none"
        /\ act'.path = act.path /\ act'.size = act.size /\ act'.kind = act.kind
    BY <2>1, <2>2, NoActIs DEF Acts, Phases
  <2>4. ClickOK'
    BY <1>1, <2>1, <2>2, <2>3 DEF ClickOK, At
  <2>5. f \in Live.files /\ f.path = act.path
    BY DEF StillFound, FileFinding
  <2>6. /\ f.path \in SeenPlaces /\ f.kind = Classify(f.path, act.live)
        /\ f.kind \in {"orphan", "duplicate"} /\ f.size = Sizes[f.path]
    BY <2>5, ReportedFile DEF Live
  <2>7. act.path \in Places /\ SizeOf[disk[act.path]] = act.size
    BY <1>3, <2>5, <2>6 DEF SeenPlaces, Sizes
  <2>8. PICK l \in Libraries, a \in Answers :
          Housed(l) /\ OneKind(a) /\ act.live = TrackedSet(l, a) /\ held \subseteq l.files
    BY <2>2 DEF Safe, Guarded, Aimed, WalkKnows
  <2>9. act.path \notin l.files
    BY <2>5, <2>6, <2>8, TrackedClassified
  <2>10. FileAimed'
    BY <1>1, <1>3, <2>1, <2>3, <2>7, <2>8, <2>9 DEF FileAimed, Still
  <2>11. Aimed'
    BY <2>3, <2>10 DEF Aimed, WalkKnows, FileFree, TwinAimed, TwinListed, TwinShift, TwinBury, Merging
  <2> QED BY <2>4, <2>11
<1>4. CASE Refuse
  BY <1>2, <1>4, Answered DEF Refuse, Outcomes, Guarded
<1> QED BY <1>2, <1>3, <1>4 DEF VerifyTrash, Guarded

\* Where a merge's files and folders lie, and that nothing held lies there.
LEMMA TwinVerified ==
  ASSUME Safe, VerifyMerge
  PROVE  Guarded'
<1>1. At("walk") /\ Still /\ act.kind = "merge"
  BY DEF VerifyMerge
<1>2. DiskOK' /\ TrashOK'
  BY <1>1, StillOK DEF At
<1>3. ASSUME NEW g \in TwinFinding(Live, act.tracked, act.untracked), SameTwin(g),
             Step([act EXCEPT !.phase = "list", !.live = NoTracked])
      PROVE  ClickOK' /\ Aimed'
  <2>1. act' = [act EXCEPT !.phase = "list", !.live = NoTracked] /\ held' = held /\ added' = added
    BY <1>3 DEF Step, past
  <2>2. act \in Acts /\ act.phase = "walk" /\ act.outcome = "none" /\ held \subseteq lib.files
        /\ added \subseteq Places
    BY <1>1 DEF Safe, Guarded, ClickOK, At
  <2>3. /\ act' \in Acts /\ act'.phase = "list" /\ act'.outcome = "none"
        /\ act'.tracked = act.tracked /\ act'.untracked = act.untracked /\ act'.kind = act.kind
    BY <2>1, <2>2, NoActIs DEF Acts, Phases
  <2>4. ClickOK'
    BY <1>1, <2>1, <2>2, <2>3 DEF ClickOK, At
  <2>5. g \in Live.twins /\ act.tracked \in g.names /\ act.untracked \in g.names
    BY DEF TwinFinding
  <2>6. SeenDirs \in SUBSET Folders
    BY DEF SeenDirs, Safe, Guarded, DiskOK
  <2>7. /\ g.names \subseteq SeenDirs
        /\ g.tracked = {f \in g.names : HoldsTracked(f, act.live)}
        /\ \A f, h \in g.names : RootOf[f] = RootOf[h]
    <3>1. TwinSeen(g, act.live, SeenDirs)
      BY <2>5, <2>6, ReportedTwin, Zenon DEF Live
    <3> QED BY <3>1 DEF TwinSeen
  <2>8. act.tracked # act.untracked /\ ~HoldsTracked(act.untracked, act.live)
    BY <1>3, <2>5, <2>7 DEF SameTwin
  <2>9. PICK l \in Libraries, a \in Answers :
          Housed(l) /\ OneKind(a) /\ act.live = TrackedSet(l, a) /\ held \subseteq l.files
    BY <2>2 DEF Safe, Guarded, Aimed, WalkKnows
  <2>10. \A p \in held : p[1] # act.untracked
    BY <2>8, <2>9, TrackedHeld
  <2>11. TwinAimed'
    BY <1>1, <2>1, <2>3, <2>5, <2>6, <2>7, <2>8, <2>10 DEF TwinAimed
  <2>12. Aimed'
    BY <2>3, <2>11 DEF Aimed, WalkKnows, FileAimed, FileFree, TwinListed, TwinShift, TwinBury
  <2> QED BY <2>4, <2>12
<1>4. ASSUME NEW o \in {"refused", "rehearsed"}, Answer(o) PROVE Guarded'
  BY <1>2, <1>4, Answered DEF Outcomes, Guarded
<1> QED BY <1>2, <1>3, <1>4 DEF VerifyMerge, Guarded, Refuse

\* Digging a grave leaves the trash in order.
LEMMA Dug ==
  ASSUME TrashOK, NEW s \in Stamps, NEW f \in Folders, DigFor(s, f), trash' = trash
  PROVE  TrashOK' /\ [stamp |-> s, folder |-> f, copy |-> 1] \in graves'
<1>1. graves' = graves \cup {[stamp |-> s, folder |-> f, copy |-> 1]}
  BY DEF DigFor
<1>2. [stamp |-> s, folder |-> f, copy |-> 1] \in Graves
  BY LimitAssumption DEF Graves
<1> QED BY <1>1, <1>2 DEF TrashOK, Grave

LEMMA TrashChosen ==
  ASSUME Safe, NEW s \in Stamps, ChooseTrash(s)
  PROVE  Guarded'
<1>1. At("choose") /\ UNCHANGED <<disk, dirs, trash>>
  BY DEF ChooseTrash
<1>2. DiskOK'
  BY <1>1 DEF At, Safe, Guarded, DiskOK
<1>3. act.phase = "choose" /\ FileAimed /\ act \in Acts /\ TrashOK
  BY <1>1 DEF At, Safe, Guarded, Aimed, ClickOK
<1>4. act.path \in Places /\ act.path[1] \in Folders
  BY <1>3 DEF FileAimed, Places
<1>5. ASSUME graves' = graves PROVE TrashOK'
  BY <1>1, <1>3, <1>5 DEF TrashOK, Grave
<1>6. ASSUME NEW o \in {"refused", "rehearsed"}, Answer(o), graves' = graves PROVE Guarded'
  BY <1>2, <1>5, <1>6, Answered DEF Outcomes, Guarded
<1>7. ASSUME DigFor(s, act.path[1]) PROVE TrashOK' /\ [stamp |-> s, folder |-> act.path[1], copy |-> 1] \in graves'
  BY <1>1, <1>3, <1>4, <1>7, Dug
<1> DEFINE nth == FreeName(s, act.path[1], act.path[2])
<1>8. CASE DigFor(s, act.path[1]) /\ Answer("failed")
  BY <1>2, <1>7, <1>8, Answered DEF Outcomes, Guarded
<1>9. CASE /\ DigFor(s, act.path[1]) /\ nth # 0
           /\ Step([act EXCEPT !.phase = "move", !.stamp = s, !.copy = nth])
  <2>1. nth \in 1 .. MaxCopies /\ Free(s, act.path[1], act.path[2], nth)
    BY <1>9, FreeNameIsFree
  <2>2. nth \in Nat
    BY <2>1, LimitAssumption
  <2> HIDE DEF nth
  <2>3. act' = [act EXCEPT !.phase = "move", !.stamp = s, !.copy = nth] /\ held' = held /\ added' = added
    BY <1>9 DEF Step, past
  <2>4. act.outcome = "none" /\ held \subseteq lib.files /\ added \subseteq Places
    BY <1>3 DEF Safe, Guarded, ClickOK
  <2>5. /\ act' \in Acts /\ act'.phase = "move" /\ act'.outcome = "none" /\ act'.stamp = s /\ act'.copy = nth
        /\ act'.path = act.path /\ act'.size = act.size /\ act'.kind = act.kind
    BY <1>3, <2>2, <2>3, <2>4 DEF Acts, Phases
  <2>6. ClickOK'
    BY <1>1, <2>3, <2>4, <2>5 DEF ClickOK, At
  <2>7. FileAimed'
    BY <1>1, <1>3, <2>3, <2>5 DEF FileAimed, Vacant
  <2>8. FileFree'
    BY <1>1, <1>7, <1>9, <2>1, <2>5 DEF FileFree, Free
  <2>9. Aimed'
    BY <2>5, <2>7, <2>8 DEF Aimed, WalkKnows, TwinAimed, TwinListed, TwinShift, TwinBury, Merging
  <2> QED BY <1>2, <1>7, <1>9, <2>6, <2>9 DEF Guarded
<1> QED BY <1>6, <1>8, <1>9 DEF ChooseTrash, Refuse

\* Entries with the same path differ in nothing but the file.
LEMMA SamePath ==
  ASSUME NEW e \in Entries, NEW f \in Entries
  PROVE  [e EXCEPT !.file = f.file] = f <=>
           /\ e.stamp = f.stamp /\ e.folder = f.folder /\ e.copy = f.copy
           /\ e.name = f.name /\ e.nth = f.nth
BY DEF Entries

LEMMA EntryIs ==
  ASSUME act.stamp \in Stamps, NEW f \in Folders, NEW copy \in 1 .. MaxCopies, NEW n \in Names,
         NEW nth \in 1 .. MaxCopies, NEW x \in Files
  PROVE  /\ Entry(f, copy, n, nth, x) \in Entries
         /\ Entry(f, copy, n, nth, x).stamp = act.stamp /\ Entry(f, copy, n, nth, x).folder = f
         /\ Entry(f, copy, n, nth, x).copy = copy /\ Entry(f, copy, n, nth, x).name = n
         /\ Entry(f, copy, n, nth, x).nth = nth /\ Entry(f, copy, n, nth, x).file = x
         /\ Grave(Entry(f, copy, n, nth, x)) = [stamp |-> act.stamp, folder |-> f, copy |-> copy]
BY DEF Entry, Entries, Grave

\* A file goes to a path that is free: none is lost.
LEMMA ToTrash ==
  ASSUME DiskOK, TrashOK, NEW p \in Places, NEW nth \in 1 .. MaxCopies, disk[p] # NoFile,
         act.stamp \in Stamps, Free(act.stamp, p[1], p[2], nth),
         [stamp |-> act.stamp, folder |-> p[1], copy |-> 1] \in graves,
         RenameToTrash(p, nth), mounted' = mounted
  PROVE  /\ DiskOK' /\ TrashOK'
         /\ disk' = [disk EXCEPT ![p] = NoFile]
         /\ \E e \in Entries : e.file = disk[p] /\ trash' = trash \cup {e}
<1> DEFINE e == Entry(p[1], 1, p[2], nth, disk[p])
<1>1. /\ trash' = {x \in trash : [x EXCEPT !.file = e.file] # e} \cup {e}
      /\ disk' = [disk EXCEPT ![p] = NoFile] /\ dirs' = dirs /\ graves' = graves
  BY DEF RenameToTrash
<1>2. p[1] \in Folders /\ p[2] \in Names /\ disk[p] \in Files /\ 1 \in 1 .. MaxCopies
  BY LimitAssumption DEF DiskOK, Places
<1>3. /\ e \in Entries /\ e.file = disk[p] /\ e.stamp = act.stamp /\ e.folder = p[1] /\ e.copy = 1
      /\ e.name = p[2] /\ e.nth = nth
      /\ Grave(e) = [stamp |-> act.stamp, folder |-> p[1], copy |-> 1]
  BY <1>2, EntryIs
<1> HIDE DEF e
<1>4. \A x \in trash : x \in Entries /\ [x EXCEPT !.file = e.file] # e
  BY <1>3, SamePath DEF TrashOK, Free
<1>5. trash' = trash \cup {e}
  BY <1>1, <1>4
<1>6. \A x \in trash : [e EXCEPT !.file = x.file] # x
  BY <1>3, <1>4, SamePath
<1>7. TrashOK'
  <2>1. \A x, y \in trash' : x # y => [x EXCEPT !.file = y.file] # y
    BY <1>4, <1>5, <1>6 DEF TrashOK
  <2>2. \A x \in trash' : x \in Entries /\ Grave(x) \in graves
    BY <1>3, <1>4, <1>5 DEF TrashOK
  <2> QED BY <1>1, <2>1, <2>2 DEF TrashOK, Grave
<1>8. DiskOK'
  BY <1>1 DEF DiskOK
<1> QED BY <1>1, <1>3, <1>5, <1>7, <1>8

\* What a rename into the tracked folder does, when the place is vacant.
LEMMA ToTwin ==
  ASSUME DiskOK, TrashOK, NEW p \in Places, NEW q \in Places, p # q, RenameTo(p, q), mounted' = mounted
  PROVE  /\ DiskOK' /\ TrashOK'
         /\ disk' = [disk EXCEPT ![p] = NoFile, ![q] = disk[p]]
<1>1. /\ disk' = [disk EXCEPT ![p] = NoFile, ![q] = disk[p]]
      /\ dirs' = dirs \cup {q[1]} /\ trash' = trash /\ graves' = graves
  BY DEF RenameTo, bins
<1>2. TrashOK'
  BY <1>1 DEF TrashOK, Grave
<1>3. q[1] \in Folders
  BY DEF Places
<1>4. DiskOK'
  BY <1>1, <1>3 DEF DiskOK
<1> QED BY <1>1, <1>2, <1>4

LEMMA TrashMoved ==
  ASSUME Safe, MoveTrash
  PROVE  Guarded'
<1>1. act.phase = "move" /\ mounted' = mounted /\ Exists(act.path) /\ RenameToTrash(act.path, act.copy)
  BY DEF MoveTrash, At
<1>2. FileAimed /\ FileFree /\ DiskOK /\ TrashOK
  BY DEF Safe, Guarded, Aimed
<1>3. DiskOK' /\ TrashOK'
  BY <1>1, <1>2, ToTrash DEF FileAimed, FileFree, Exists
<1>4. ClickOK' /\ Aimed'
  BY Answered DEF MoveTrash, Outcomes
<1> QED BY <1>3, <1>4 DEF Guarded

LEMMA MergeListed ==
  ASSUME Safe, NEW s \in Stamps, ListMerge(s)
  PROVE  Guarded'
<1>1. At("list") /\ Still
  BY DEF ListMerge
<1>2. DiskOK' /\ TrashOK'
  BY <1>1, StillOK DEF At
<1> DEFINE names == {n \in Names : Exists(<<act.untracked, n>>)}
           listed == {<<act.untracked, n>> : n \in names}
<1>3. CASE Step([act EXCEPT !.phase = "look", !.stamp = s, !.todo = names, !.listed = listed])
  <2>1. act \in Acts /\ act.phase = "list" /\ act.outcome = "none" /\ held \subseteq lib.files
        /\ added \subseteq Places /\ TwinAimed
    BY <1>1 DEF Safe, Guarded, Aimed, ClickOK, At
  <2>2. names \subseteq Names /\ listed \subseteq Places
    BY <2>1 DEF TwinAimed, Merging, Places
  <2>3. \A p \in listed : \E n \in names : p = <<act.untracked, n>>
    OBVIOUS
  <2> HIDE DEF names, listed
  <2>4. /\ act' = [act EXCEPT !.phase = "look", !.stamp = s, !.todo = names, !.listed = listed]
        /\ held' = held /\ added' = added
    BY <1>3 DEF Step, past
  <2>5. /\ act' \in Acts /\ act'.phase = "look" /\ act'.outcome = "none" /\ act'.stamp = s
        /\ act'.todo = names /\ act'.listed = listed /\ act'.kind = act.kind
        /\ act'.tracked = act.tracked /\ act'.untracked = act.untracked
    BY <2>1, <2>2, <2>4 DEF Acts, Phases
  <2>6. ClickOK'
    BY <1>1, <2>1, <2>4, <2>5 DEF ClickOK, At
  <2>7. TwinAimed' /\ TwinListed'
    BY <2>1, <2>3, <2>4, <2>5 DEF TwinAimed, TwinListed, Merging
  <2>8. Aimed'
    BY <2>5, <2>7 DEF Aimed, WalkKnows, FileAimed, FileFree, TwinShift, TwinBury
  <2> QED BY <1>2, <2>6, <2>8 DEF Guarded
<1>4. CASE Answer("failed")
  BY <1>2, <1>4, Answered DEF Outcomes, Guarded
<1> QED BY <1>3, <1>4 DEF ListMerge

LEMMA MergeLooked ==
  ASSUME Safe, NEW n, LookMerge(n)
  PROVE  Guarded'
<1>1. At("look") /\ n \in act.todo /\ UNCHANGED <<disk, dirs, trash>>
  BY DEF LookMerge
<1>2. DiskOK'
  BY <1>1 DEF At, Safe, Guarded, DiskOK
<1>3. /\ act \in Acts /\ act.phase = "look" /\ act.outcome = "none" /\ held \subseteq lib.files
      /\ TwinAimed /\ TwinListed /\ TrashOK
  BY <1>1 DEF Safe, Guarded, Aimed, ClickOK, At
<1>4. n \in Names /\ act.tracked \in Folders /\ act.untracked \in Folders /\ act.stamp \in Stamps
  BY <1>1, <1>3 DEF Acts, TwinAimed, TwinListed, Merging
<1>5. ASSUME graves' = graves PROVE TrashOK'
  BY <1>1, <1>3, <1>5 DEF TrashOK, Grave
<1>6. ASSUME DigFor(act.stamp, act.untracked)
      PROVE  TrashOK' /\ [stamp |-> act.stamp, folder |-> act.untracked, copy |-> 1] \in graves'
  BY <1>1, <1>3, <1>4, <1>6, Dug
<1>7. CASE DigFor(act.stamp, act.untracked) /\ Answer("failed")
  BY <1>2, <1>6, <1>7, Answered DEF Outcomes, Guarded
<1>8. ASSUME NEW nth \in 0 .. MaxCopies,
             Fresh([act EXCEPT !.phase = "shift", !.name = n, !.copy = nth]),
             nth = 0 => disk[<<act.tracked, n>>] = NoFile \/ RootOf[act.tracked] \notin mounted,
             nth # 0 => /\ Free(act.stamp, act.untracked, n, nth)
                        /\ [stamp |-> act.stamp, folder |-> act.untracked, copy |-> 1] \in graves',
             TrashOK'
      PROVE  Guarded'
  <2>1. act' = [act EXCEPT !.phase = "shift", !.name = n, !.copy = nth] /\ held' = held /\ added' = {}
    BY <1>8 DEF Fresh
  <2>2. nth \in Nat
    BY LimitAssumption
  <2>3. /\ act' \in Acts /\ act'.phase = "shift" /\ act'.outcome = "none" /\ act'.name = n
        /\ act'.copy = nth /\ act'.stamp = act.stamp /\ act'.todo = act.todo
        /\ act'.listed = act.listed /\ act'.moved = act.moved /\ act'.kind = act.kind
        /\ act'.tracked = act.tracked /\ act'.untracked = act.untracked
    BY <1>3, <1>4, <2>1, <2>2 DEF Acts, Phases
  <2>4. ClickOK'
    BY <1>1, <1>3, <2>1, <2>3 DEF ClickOK, At
  <2>5. TwinAimed' /\ TwinListed'
    BY <1>3, <2>1, <2>3 DEF TwinAimed, TwinListed, Merging
  <2>6. TwinShift'
    BY <1>1, <1>8, <2>3 DEF TwinShift, Vacant, Target, Free, At
  <2>7. Aimed'
    BY <2>3, <2>5, <2>6 DEF Aimed, WalkKnows, FileAimed, FileFree, TwinBury
  <2> QED BY <1>2, <1>8, <2>4, <2>7 DEF Guarded
<1>9. CASE Exists(<<act.tracked, n>>)
  <2> DEFINE nth == FreeName(act.stamp, act.untracked, n)
  <2>1. DigFor(act.stamp, act.untracked)
    BY <1>9 DEF LookMerge
  <2>2. CASE nth = 0
    BY <1>7, <1>9, <2>1, <2>2 DEF LookMerge
  <2>3. CASE nth # 0
    <3>1. nth \in 1 .. MaxCopies /\ Free(act.stamp, act.untracked, n, nth)
      BY <2>3, FreeNameIsFree
    <3>2. Fresh([act EXCEPT !.phase = "shift", !.name = n, !.copy = nth])
      BY <1>9, <2>3 DEF LookMerge
    <3> HIDE DEF nth
    <3>3. nth \in 0 .. MaxCopies
      BY <3>1
    <3> QED BY <1>6, <1>8, <2>1, <2>3, <3>1, <3>2, <3>3
  <2> QED BY <2>2, <2>3
<1>10. CASE ~Exists(<<act.tracked, n>>)
  <2>1. Fresh([act EXCEPT !.phase = "shift", !.name = n, !.copy = 0]) /\ graves' = graves
    BY <1>10 DEF LookMerge
  <2>2. disk[<<act.tracked, n>>] = NoFile \/ RootOf[act.tracked] \notin mounted
    BY <1>10 DEF Exists
  <2>3. 0 \in 0 .. MaxCopies
    BY LimitAssumption
  <2> QED BY <1>5, <1>8, <2>1, <2>2, <2>3
<1> QED BY <1>9, <1>10

LEMMA MergeShifted ==
  ASSUME Safe, ShiftMerge
  PROVE  Guarded' /\ Source \in Places /\ Target \in Places /\ disk[Source] # NoFile
<1>1. At("shift") /\ Exists(Source)
  BY DEF ShiftMerge
<1>2. /\ act \in Acts /\ act.phase = "shift" /\ act.outcome = "none" /\ held \subseteq lib.files
      /\ added \subseteq Places
      /\ TwinAimed /\ TwinListed /\ TwinShift /\ DiskOK /\ TrashOK
  BY <1>1 DEF Safe, Guarded, Aimed, ClickOK, At
<1>3. /\ act.name \in Names /\ act.tracked \in Folders /\ act.untracked \in Folders
      /\ act.tracked # act.untracked /\ act.stamp \in Stamps /\ act.copy \in 0 .. MaxCopies
  BY <1>2 DEF Acts, TwinAimed, TwinListed, TwinShift, Merging
<1>4. /\ Source \in Places /\ Target \in Places /\ Source # Target /\ disk[Source] # NoFile
      /\ Source[1] = act.untracked /\ Source[2] = act.name
  BY <1>1, <1>3 DEF Source, Target, Places, Exists
<1>5. DiskOK' /\ TrashOK'
  <2>1. CASE act.copy = 0
    <3>1. RenameTo(Source, Target)
      BY <2>1 DEF ShiftMerge
    <3> QED BY <1>1, <1>2, <1>4, <3>1, ToTwin DEF At
  <2>2. CASE act.copy # 0
    <3>1. RenameToTrash(Source, act.copy)
      BY <2>2 DEF ShiftMerge
    <3>2. /\ Free(act.stamp, Source[1], Source[2], act.copy)
          /\ [stamp |-> act.stamp, folder |-> Source[1], copy |-> 1] \in graves
      BY <1>2, <1>4, <2>2 DEF TwinShift
    <3>3. act.copy \in 1 .. MaxCopies
      BY <1>3, <2>2, LimitAssumption
    <3> QED BY <1>1, <1>2, <1>3, <1>4, <3>1, <3>2, <3>3, ToTrash DEF At
  <2> QED BY <2>1, <2>2
<1> DEFINE todo == act.todo \ {act.name}
           moved == act.moved \cup {Source}
<1>6. /\ act' = [act EXCEPT !.phase = "look", !.todo = todo, !.name = None, !.copy = 0, !.moved = moved]
      /\ held' = held /\ added' = added
  BY DEF ShiftMerge, Step, past
<1>7. todo \subseteq Names /\ moved \subseteq Places
  BY <1>2, <1>4 DEF Acts
<1>8. \A p \in act.listed : p \in moved \/ \E n \in todo : p = <<act.untracked, n>>
  BY <1>2 DEF TwinListed, Source
<1> HIDE DEF todo, moved
<1>9. /\ act' \in Acts /\ act'.phase = "look" /\ act'.outcome = "none" /\ act'.stamp = act.stamp
      /\ act'.todo = todo /\ act'.moved = moved /\ act'.listed = act.listed /\ act'.kind = act.kind
      /\ act'.tracked = act.tracked /\ act'.untracked = act.untracked
  BY <1>2, <1>6, <1>7 DEF Acts, Phases
<1>10. ClickOK'
  BY <1>1, <1>2, <1>6, <1>9 DEF ClickOK, At
<1>11. TwinAimed' /\ TwinListed'
  BY <1>2, <1>3, <1>6, <1>8, <1>9 DEF TwinAimed, TwinListed, Merging
<1>12. Aimed'
  BY <1>9, <1>11 DEF Aimed, WalkKnows, FileAimed, FileFree, TwinShift, TwinBury
<1> QED BY <1>4, <1>5, <1>10, <1>12 DEF Guarded

LEMMA MergeEmptied ==
  ASSUME Safe, EmptyMerge
  PROVE  Guarded'
<1>1. At("look") /\ act.todo = {} /\ Still
  BY DEF EmptyMerge
<1>2. DiskOK' /\ TrashOK'
  BY <1>1, StillOK DEF At
<1> DEFINE copy == FreeFolder(act.untracked)
<1>3. CASE Emptied /\ copy # 0 /\ Fresh([act EXCEPT !.phase = "bury", !.copy = copy])
  <2>1. /\ act \in Acts /\ act.phase = "look" /\ act.outcome = "none" /\ held \subseteq lib.files
        /\ TwinAimed /\ TwinListed
    BY <1>1 DEF Safe, Guarded, Aimed, ClickOK, At
  <2>2. /\ copy \in 1 .. MaxCopies
        /\ [stamp |-> act.stamp, folder |-> act.untracked, copy |-> copy] \notin graves
    BY <1>3, FreeFolderIsFree
  <2>3. act' = [act EXCEPT !.phase = "bury", !.copy = copy] /\ held' = held /\ added' = {}
    BY <1>3 DEF Fresh
  <2> HIDE DEF copy
  <2>4. copy \in Nat
    BY <2>2, LimitAssumption
  <2>5. /\ act' \in Acts /\ act'.phase = "bury" /\ act'.outcome = "none" /\ act'.stamp = act.stamp
        /\ act'.copy = copy /\ act'.todo = act.todo /\ act'.moved = act.moved
        /\ act'.listed = act.listed /\ act'.kind = act.kind
        /\ act'.tracked = act.tracked /\ act'.untracked = act.untracked
    BY <2>1, <2>3, <2>4 DEF Acts, Phases
  <2>6. ClickOK'
    BY <1>1, <2>1, <2>3, <2>5 DEF ClickOK, At
  <2>7. TwinAimed' /\ TwinListed'
    BY <2>1, <2>3, <2>5 DEF TwinAimed, TwinListed, Merging
  <2>8. TwinBury'
    BY <1>1, <1>3, <2>2, <2>5 DEF TwinBury, Vacant, Emptied, Still, bins
  <2>9. Aimed'
    BY <2>5, <2>7, <2>8 DEF Aimed, WalkKnows, FileAimed, FileFree, TwinShift
  <2> QED BY <1>2, <2>6, <2>9 DEF Guarded
<1>4. CASE Answer("failed")
  BY <1>2, <1>4, Answered DEF Outcomes, Guarded
<1> QED BY <1>3, <1>4 DEF EmptyMerge

LEMMA MergeBuried ==
  ASSUME Safe, BuryMerge
  PROVE  /\ Guarded'
         /\ act.untracked \in Folders
         /\ \A p \in Places : p[1] # act.untracked => disk'[p] = disk[p]
         /\ \A n \in Names : disk[<<act.untracked, n>>] # NoFile =>
              \E e \in trash' : e.file = disk[<<act.untracked, n>>]
         /\ trash \subseteq trash'
<1>1. /\ act.phase = "bury" /\ mounted' = mounted
      /\ TwinAimed /\ TwinListed /\ TwinBury /\ DiskOK /\ TrashOK
  BY DEF BuryMerge, At, Safe, Guarded, Aimed
<1>2. act.untracked \in Folders /\ act.stamp \in Stamps /\ act.copy \in 1 .. MaxCopies
  BY <1>1 DEF TwinAimed, TwinListed, TwinBury, Merging
<1> DEFINE grave == [stamp |-> act.stamp, folder |-> act.untracked, copy |-> act.copy]
           entry(n) == Entry(act.untracked, act.copy, n, 1, disk[<<act.untracked, n>>])
           left == {m \in Names : disk[<<act.untracked, m>>] # NoFile}
<1>3. /\ graves' = graves \cup {grave}
      /\ trash' = trash \cup {entry(n) : n \in left}
      /\ dirs' = dirs \ {act.untracked}
      /\ disk' = [p \in Places |-> IF p[1] = act.untracked THEN NoFile ELSE disk[p]]
  BY DEF BuryMerge
<1>4. grave \in Graves /\ grave \notin graves
  BY <1>1, <1>2 DEF Graves, TwinBury
<1>5. ASSUME NEW n \in left
      PROVE  /\ entry(n) \in Entries /\ entry(n).name = n /\ entry(n).file = disk[<<act.untracked, n>>]
             /\ entry(n).stamp = act.stamp /\ entry(n).folder = act.untracked
             /\ entry(n).copy = act.copy /\ entry(n).nth = 1 /\ Grave(entry(n)) = grave
  <2>1. disk[<<act.untracked, n>>] \in Files /\ n \in Names /\ 1 \in 1 .. MaxCopies
    BY <1>1, <1>2, LimitAssumption DEF DiskOK, Places
  <2> QED BY <1>2, <2>1, EntryIs
<1> HIDE DEF grave, entry
<1>6. \A e \in trash : e \in Entries /\ Grave(e) \in graves
  BY <1>1 DEF TrashOK
<1>7. ASSUME NEW e \in trash, NEW n \in left
      PROVE  [e EXCEPT !.file = entry(n).file] # entry(n) /\ [entry(n) EXCEPT !.file = e.file] # e
  <2>1. Grave(e) # grave /\ e \in Entries
    BY <1>4, <1>6
  <2>2. ~(e.stamp = act.stamp /\ e.folder = act.untracked /\ e.copy = act.copy)
    BY <2>1 DEF Grave, grave
  <2> QED BY <1>5, <2>1, <2>2, SamePath
<1>8. ASSUME NEW m \in left, NEW n \in left, [entry(m) EXCEPT !.file = entry(n).file] = entry(n)
      PROVE  entry(m) = entry(n)
  <2>1. m = n
    BY <1>5, <1>8, SamePath
  <2> QED BY <2>1
<1>9. TrashOK'
  <2>1. ASSUME NEW e \in trash', NEW f \in trash', [e EXCEPT !.file = f.file] = f
        PROVE  e = f
    <3>1. CASE e \in trash /\ f \in trash
      BY <1>1, <2>1, <3>1 DEF TrashOK
    <3>2. ASSUME e \in trash, NEW n \in left, f = entry(n) PROVE FALSE
      BY <1>7, <2>1, <3>2
    <3>3. ASSUME NEW n \in left, e = entry(n), f \in trash PROVE FALSE
      BY <1>7, <2>1, <3>3
    <3>4. ASSUME NEW m \in left, e = entry(m), NEW n \in left, f = entry(n) PROVE e = f
      BY <1>8, <2>1, <3>4
    <3> QED BY <1>3, <3>1, <3>2, <3>3, <3>4
  <2>2. \A e \in trash' : e \in Entries /\ Grave(e) \in graves'
    BY <1>3, <1>5, <1>6
  <2>3. graves' \subseteq Graves
    BY <1>1, <1>3, <1>4 DEF TrashOK
  <2> QED BY <2>1, <2>2, <2>3 DEF TrashOK, Grave
<1>10. DiskOK'
  <2>1. \A p \in Places : disk'[p] \in Files \cup {NoFile} /\ (disk'[p] # NoFile => p[1] \in dirs')
    BY <1>1, <1>3 DEF DiskOK
  <2> QED BY <1>1, <1>3, <2>1 DEF DiskOK
<1>11. ClickOK' /\ Aimed'
  BY Answered DEF BuryMerge, Outcomes
<1>12. \A n \in left : entry(n) \in trash' /\ entry(n).file = disk[<<act.untracked, n>>]
  BY <1>3, <1>5
<1> QED BY <1>2, <1>3, <1>9, <1>10, <1>11, <1>12 DEF Guarded

LEMMA BrokenOff ==
  ASSUME Safe, Fail \/ Crash
  PROVE  Guarded'
<1>1. CASE Fail
  <2>1. DiskOK' /\ TrashOK'
    BY <1>1, StillOK DEF Fail, At
  <2> QED BY <1>1, <2>1, Answered DEF Fail, Outcomes, Guarded
<1>2. CASE Crash
  <2>1. DiskOK' /\ TrashOK'
    BY <1>2, StillOK DEF Crash, Still, world
  <2> QED BY <1>2, <2>1, Answered DEF Crash, Outcomes, Guarded
<1> QED BY <1>1, <1>2

-----------------------------------------------------------------------------
(***************************************************************************)
(* All of it together.                                                     *)
(***************************************************************************)
LEMMA ReportTyped ==
  ASSUME NEW t, NEW ds \in SUBSET Folders, NEW seen \in SUBSET Places, NEW size \in [seen -> Nat]
  PROVE  Report(t, ds, seen, size) \in Reports
<1> DEFINE r == Report(t, ds, seen, size)
           walked == {x \in Roots : ~SkipsRoot(x, ds, seen, t)}
           files == UNION {FileFindings(x, ds, seen, size, t) : x \in walked}
           twins == UNION {TwinFindings(x, ds, t) : x \in walked}
           status == IF walked = Roots THEN "ran" ELSE "skipped"
<1>1. \A f \in r.files : f \in [kind : {"orphan", "duplicate"}, path : Places, size : Nat]
  <2>1. r.files \in {{}, files}
    BY DEF Report, NoReport, SkippedReport
  <2>2. ASSUME NEW f \in files
        PROVE  f \in [kind : {"orphan", "duplicate"}, path : Places, size : Nat]
    <3>1. PICK x \in walked : f \in FileFindings(x, ds, seen, size, t)
      OBVIOUS
    <3>2. PICK p \in Walked(x, ds, seen) :
            /\ f = [kind |-> Classify(p, t), path |-> p, size |-> size[p]]
            /\ Classify(p, t) \in {"orphan", "duplicate"}
      BY <3>1 DEF FileFindings
    <3>3. p \in seen
      BY DEF Walked, Under
    <3>4. p \in Places /\ size[p] \in Nat
      BY <3>3
    <3> QED BY <3>2, <3>4
  <2> QED BY <2>1, <2>2
<1>2. \A g \in r.twins : g \in [names : SUBSET Folders, tracked : SUBSET Folders]
  <2>1. r.twins \in {{}, twins}
    BY DEF Report, NoReport, SkippedReport
  <2>2. ASSUME NEW g \in twins
        PROVE  g \in [names : SUBSET Folders, tracked : SUBSET Folders]
    <3>1. PICK x \in walked : g \in TwinFindings(x, ds, t)
      OBVIOUS
    <3>2. PICK names \in FolderGroups(x, ds) :
            g = [names |-> names, tracked |-> {f \in names : HoldsTracked(f, t)}]
      BY <3>1 DEF TwinFindings
    <3>3. PICK d \in ds : names = Twins(d, ds)
      BY DEF FolderGroups
    <3>4. names \in SUBSET Folders
      BY <3>3 DEF Twins
    <3> DEFINE tracked == {f \in names : HoldsTracked(f, t)}
    <3>5. tracked \in SUBSET Folders
      BY <3>4
    <3> HIDE DEF tracked
    <3>6. g = [names |-> names, tracked |-> tracked]
      BY <3>2 DEF tracked
    <3> QED BY <3>4, <3>5, <3>6
  <2> QED BY <2>1, <2>2
<1>3. r.status \in {"off", "skipped", "ran"}
  BY DEF Report, NoReport, SkippedReport
<1>4. r = [status |-> r.status, files |-> r.files, twins |-> r.twins]
  BY DEF Report, NoReport, SkippedReport
<1> HIDE DEF r
<1> DEFINE a == r.status
           b == r.files
           c == r.twins
<1>5. /\ a \in {"off", "skipped", "ran"}
      /\ b \in SUBSET [kind : {"orphan", "duplicate"}, path : Places, size : Nat]
      /\ c \in SUBSET [names : SUBSET Folders, tracked : SUBSET Folders]
  BY <1>1, <1>2, <1>3
<1>6. r = [status |-> a, files |-> b, twins |-> c]
  BY <1>4
<1> HIDE DEF a, b, c
<1>7. r \in Reports
  BY <1>5, <1>6 DEF Reports
<1> QED BY <1>7 DEF r

LEMMA SafeInit == Init => Safe /\ SweepKnows
<1> SUFFICES ASSUME Init PROVE Safe /\ SweepKnows
  OBVIOUS
<1>1. PICK s \in Starts : disk = s.disk /\ dirs = s.dirs /\ lib = s.lib
  BY DEF Init
<1>2. LibraryOK
  BY <1>1, StartsAssumption DEF LibraryOK, Housed
<1>3. DiskOK
  BY <1>1, StartsAssumption DEF Init, DiskOK
<1>4. TrashOK
  BY DEF Init, TrashOK
<1>5. StoredOK
  BY DEF Init, StoredOK, NoReport, Reports
<1>6. ClickOK
  BY NoActIs DEF Init, ClickOK
<1>7. Aimed
  BY NoActIs DEF Init, Aimed, WalkKnows, FileAimed, FileFree, TwinAimed, TwinListed, TwinShift,
     TwinBury, Merging
<1>8. SweepKnows
  BY DEF Init, SweepKnows
<1> QED BY <1>2, <1>3, <1>4, <1>5, <1>6, <1>7, <1>8 DEF Safe, Guarded

LEMMA StoredStep ==
  ASSUME Safe, [Next]_vars
  PROVE  StoredOK'
<1>1. CASE UNCHANGED stored
  BY <1>1 DEF Safe, StoredOK
<1>2. CASE SweepWalks
  <2>1. SeenDirs \in SUBSET Folders /\ SeenPlaces \in SUBSET Places
    BY DEF SeenDirs, SeenPlaces, Safe, Guarded, DiskOK
  <2>2. Sizes \in [SeenPlaces -> Nat]
    BY FilesAssumption DEF Sizes, SeenPlaces, Exists, Safe, Guarded, DiskOK
  <2>3. stored' = Report(sweep.set, SeenDirs, SeenPlaces, Sizes)
    BY <1>2 DEF SweepWalks
  <2>4. Report(sweep.set, SeenDirs, SeenPlaces, Sizes) \in Reports
    BY <2>1, <2>2, ReportTyped
  <2> QED BY <2>3, <2>4 DEF StoredOK
<1> QED
  BY <1>1, <1>2 DEF Next, vars, SweepReads, ClickTrash, ClickMerge, ReadLive,
     MoveTrash, VerifyTrash, ChooseTrash, ListMerge, VerifyMerge, ShiftMerge, EmptyMerge, BuryMerge,
     LookMerge, Fail, Crash, At, Adopt, Release, Import, Copy, Respell, Remount, Others

\* A step is beside the click, or one of it.
LEMMA GuardedStep ==
  ASSUME Safe, [Next]_vars
  PROVE  Guarded'
<1>1. CASE \/ SweepReads \/ SweepWalks \/ UNCHANGED vars
           \/ \E p \in Places : Adopt(p) \/ Release(p) \/ \E f \in Files : Import(p, f) \/ Copy(p, f)
           \/ \E f, g \in Folders : Respell(f, g)
           \/ \E r \in Roots : Remount(r)
  <2>1. Beside
    BY <1>1, Around
  <2>2. TrashOK' /\ ClickOK' /\ Aimed'
    BY <2>1, AimedBeside
  <2> QED BY <2>1, <2>2 DEF Beside, Guarded
<1>2. ASSUME NEW kind \in {"orphan", "duplicate"}, NEW p \in Places, ClickTrash(kind, p)
      PROVE  Guarded'
  BY <1>2, TrashClicked
<1>3. ASSUME NEW f \in Folders, NEW g \in Folders, ClickMerge(f, g) PROVE Guarded'
  BY <1>3, MergeClicked
<1>4. CASE ReadLive \/ VerifyMerge \/ MoveTrash \/ ShiftMerge \/ EmptyMerge \/ BuryMerge \/ Fail \/ Crash
  BY <1>4, LiveRead, TwinVerified, TrashMoved, MergeShifted, MergeEmptied, MergeBuried, BrokenOff
<1>5. ASSUME NEW row \in Rows, VerifyTrash(row) PROVE Guarded'
  BY <1>5, TrashVerified
<1>6. ASSUME NEW s \in Stamps, ChooseTrash(s) \/ ListMerge(s) PROVE Guarded'
  BY <1>6, TrashChosen, MergeListed
<1>7. ASSUME NEW n \in Names, LookMerge(n) PROVE Guarded'
  BY <1>7, MergeLooked
<1> QED BY <1>1, <1>2, <1>3, <1>4, <1>5, <1>6, <1>7 DEF Next

LEMMA SweepStep ==
  ASSUME Safe, SweepKnows, [Next]_vars
  PROVE  SweepKnows'
<1>1. CASE UNCHANGED sweep
  BY <1>1 DEF SweepKnows
<1>2. CASE sweep' = NoSweep
  BY <1>2 DEF SweepKnows
<1>3. ASSUME NEW a \in Gaps, sweep' = [set |-> TrackedSet(lib, a), truth |-> lib.files]
      PROVE  SweepKnows'
  <2>1. lib \in Libraries /\ Housed(lib) /\ a \in Answers /\ OneKind(a)
    BY GapsAre DEF Safe, LibraryOK
  <2> QED BY <1>3, <2>1 DEF SweepKnows
<1> QED
  BY <1>1, <1>2, <1>3 DEF Next, vars, SweepReads, SweepWalks, ClickTrash, ClickMerge, ReadLive,
     MoveTrash, VerifyTrash, ChooseTrash, ListMerge, VerifyMerge, ShiftMerge, EmptyMerge, BuryMerge,
     LookMerge, Fail, Crash, At, Adopt, Release, Import, Copy, Respell, Remount, Others

LEMMA SafeAlways == Spec => [](Safe /\ SweepKnows)
<1>1. Safe /\ SweepKnows /\ [Next]_vars => (Safe /\ SweepKnows)'
  BY LibraryStep, StoredStep, GuardedStep, SweepStep DEF Safe
<1> QED BY <1>1, SafeInit, PTL DEF Spec

Counted == edits \in 0 .. MaxEdits /\ sweeps \in 0 .. MaxSweeps /\ dryRun \in BOOLEAN

LEMMA CountedAlways == Spec => []Counted
<1>1. Init => Counted
  BY LimitAssumption DEF Init, Counted
<1>2. Counted /\ [Next]_vars => Counted'
  <2> SUFFICES ASSUME Counted, [Next]_vars PROVE Counted'
    OBVIOUS
  <2>1. dryRun' = dryRun
    BY DEF Next, vars, SweepReads, SweepWalks, ClickTrash, ClickMerge, ReadLive,
     MoveTrash, VerifyTrash, ChooseTrash, ListMerge, VerifyMerge, ShiftMerge, EmptyMerge, BuryMerge,
     LookMerge, Fail, Crash, At, Adopt, Release, Import, Copy, Respell, Remount, Others
  <2>2. edits' = edits \/ (edits < MaxEdits /\ edits' = edits + 1)
    BY DEF Next, vars, SweepReads, SweepWalks, ClickTrash, ClickMerge, ReadLive,
     MoveTrash, VerifyTrash, ChooseTrash, ListMerge, VerifyMerge, ShiftMerge, EmptyMerge, BuryMerge,
     LookMerge, Fail, Crash, At, Adopt, Release, Import, Copy, Respell, Remount, Others
  <2>3. sweeps' = sweeps \/ (sweeps < MaxSweeps /\ sweeps' = sweeps + 1)
    BY DEF Next, vars, SweepReads, SweepWalks, ClickTrash, ClickMerge, ReadLive,
     MoveTrash, VerifyTrash, ChooseTrash, ListMerge, VerifyMerge, ShiftMerge, EmptyMerge, BuryMerge,
     LookMerge, Fail, Crash, At, Adopt, Release, Import, Copy, Respell, Remount, Others
  <2>4. dryRun' \in BOOLEAN
    BY <2>1, Zenon DEF Counted
  <2>5. edits' \in 0 .. MaxEdits /\ sweeps' \in 0 .. MaxSweeps
    BY <2>2, <2>3, LimitAssumption DEF Counted
  <2> QED BY <2>4, <2>5, Zenon DEF Counted
<1> QED BY <1>1, <1>2, PTL DEF Spec

-----------------------------------------------------------------------------
(***************************************************************************)
(* The theorems.                                                           *)
(***************************************************************************)
\* What the click, the trash, the reports and the disk hold is always of its
\* type, no two files of the trash have one path, and every file lies in a folder
\* that is there.
THEOREM TypeCorrect == Spec => []TypeOK
<1>1. ASSUME Safe, SweepKnows, Counted PROVE TypeOK
  <2>1. sweep \in [set : Tracked, truth : SUBSET Places] \cup {NoSweep}
    <3>1. ASSUME sweep # NoSweep PROVE sweep \in [set : Tracked, truth : SUBSET Places]
      <4>1. PICK l \in Libraries, a \in Answers :
              sweep = [set |-> TrackedSet(l, a), truth |-> l.files]
        BY <1>1, <3>1 DEF SweepKnows
      <4> DEFINE t == TrackedSet(l, a)
                 f == l.files
      <4>2. t \in Tracked /\ f \in SUBSET Places
        BY TrackedIs DEF Libraries
      <4> HIDE DEF t, f
      <4>3. sweep = [set |-> t, truth |-> f]
        BY <4>1 DEF t, f
      <4> QED BY <4>2, <4>3
    <3> QED BY <3>1
  <2>2. /\ act.phase \in Phases /\ act.outcome \in Outcomes
        /\ act.moved \subseteq Places /\ held \subseteq Places /\ added \subseteq Places
    BY <1>1 DEF Safe, Guarded, ClickOK, Acts, LibraryOK, Libraries
  <2>3. /\ trash \subseteq Entries /\ graves \subseteq Graves
        /\ \A e, f \in trash : e # f => [e EXCEPT !.file = f.file] # f
        /\ \A e \in trash : [stamp |-> e.stamp, folder |-> e.folder, copy |-> e.copy] \in graves
    BY <1>1 DEF Safe, Guarded, TrashOK, Grave
  <2>4. /\ disk \in [Places -> Files \cup {NoFile}]
        /\ dirs \subseteq Folders /\ mounted \subseteq Roots
        /\ \A p \in Places : disk[p] # NoFile => p[1] \in dirs
    BY <1>1 DEF Safe, Guarded, DiskOK
  <2>5. lib \in Libraries /\ stored \in Reports
    BY <1>1 DEF Safe, LibraryOK, StoredOK
  <2>6. edits \in 0 .. MaxEdits /\ sweeps \in 0 .. MaxSweeps /\ dryRun \in BOOLEAN
    BY <1>1, Zenon DEF Counted
  <2> QED BY <2>1, <2>2, <2>3, <2>4, <2>5, <2>6, Zenon DEF TypeOK, Outcomes
<1> QED BY <1>1, SafeAlways, CountedAlways, PTL

\* Whatever one thing the *arr's answer left out, the report that a sweep stores
\* names no file the *arr tracked when it was asked, and calls no spelling
\* untracked under which it tracked one.
THEOREM NamesTrue == Spec => NamesNoTracked
<1> DEFINE Named == stored' # stored =>
             /\ \A f \in stored'.files : f.path \notin sweep.truth
             /\ \A t \in stored'.twins : \A f \in t.names \ t.tracked : \A p \in sweep.truth : p[1] # f
<1>1. ASSUME Safe, SweepKnows, [Next]_vars PROVE Named
  <2>1. CASE stored' = stored
    BY <2>1
  <2>2. CASE SweepWalks
    <3>1. PICK l \in Libraries, a \in Answers :
            /\ Housed(l) /\ OneKind(a)
            /\ sweep = [set |-> TrackedSet(l, a), truth |-> l.files]
      BY <1>1, <2>2 DEF SweepWalks, SweepKnows
    <3> DEFINE t == TrackedSet(l, a)
    <3>2. sweep.set = t /\ sweep.truth = l.files
      BY <3>1
    <3> HIDE DEF t
    <3>3. stored' = Report(t, SeenDirs, SeenPlaces, Sizes)
      BY <2>2, <3>2 DEF SweepWalks
    <3>4. ASSUME NEW f \in stored'.files PROVE f.path \notin l.files
      <4>1. f.kind = Classify(f.path, t) /\ f.kind \in {"orphan", "duplicate"}
        BY <3>3, <3>4, ReportedFile
      <4> QED BY <3>1, <4>1, TrackedClassified DEF t
    <3>5. ASSUME NEW g \in stored'.twins, NEW f \in g.names \ g.tracked, NEW p \in l.files
          PROVE  p[1] # f
      <4>1. SeenDirs \in SUBSET Folders
        BY <1>1 DEF SeenDirs, Safe, Guarded, DiskOK
      <4>2. TwinSeen(g, t, SeenDirs)
        BY <3>3, <3>5, <4>1, ReportedTwin, Zenon
      <4>3. ~HoldsTracked(f, t)
        BY <4>2 DEF TwinSeen
      <4> QED BY <3>1, <4>3, TrackedHeld DEF t
    <3> QED BY <3>2, <3>4, <3>5
  <2> QED
    BY <1>1, <2>1, <2>2 DEF Next, vars, SweepReads, ClickTrash, ClickMerge, ReadLive,
     MoveTrash, VerifyTrash, ChooseTrash, ListMerge, VerifyMerge, ShiftMerge, EmptyMerge, BuryMerge,
     LookMerge, Fail, Crash, At, Adopt, Release, Import, Copy, Respell, Remount, Others
<1>2. Safe /\ SweepKnows /\ [Next]_vars => [Named]_vars
  BY <1>1
<1> QED BY <1>2, SafeAlways, PTL DEF Spec, NamesNoTracked

\* The steps that touch the disk or the trash and are nobody else's.
LEMMA Touching ==
  ASSUME Counted, [Next]_vars, edits' = edits
  PROVE  UNCHANGED <<disk, trash>> \/ MoveTrash \/ ShiftMerge \/ BuryMerge
<1>1. edits + 1 # edits
  BY LimitAssumption DEF Counted
<1> QED
  BY <1>1 DEF Next, vars, world, bins, Still, SweepReads, SweepWalks, ClickTrash, ClickMerge, ReadLive,
     VerifyTrash, ChooseTrash, ListMerge, VerifyMerge, EmptyMerge,
     LookMerge, Fail, Crash, At, Adopt, Release, Import, Copy, Respell, Remount, Others

\* The place under the tracked spelling is vacant when a file is renamed to it.
LEMMA ShiftVacant ==
  ASSUME Safe, ShiftMerge, act.copy = 0
  PROVE  /\ Source \in Places /\ Target \in Places /\ Source # Target
         /\ disk \in [Places -> Files \cup {NoFile}]
         /\ disk' = [disk EXCEPT ![Source] = NoFile, ![Target] = disk[Source]]
         /\ trash' = trash
         /\ disk[Target] = NoFile \/ Replaced(Target)
<1>1. act.phase = "shift" /\ Exists(Source) /\ TwinAimed /\ TwinShift /\ act \in Acts
  BY DEF ShiftMerge, At, Safe, Guarded, Aimed, ClickOK
<1>2. /\ act.tracked # act.untracked /\ RootOf[act.tracked] = RootOf[act.untracked]
      /\ Vacant(Target) \/ RootOf[act.tracked] \notin mounted
  BY <1>1 DEF TwinAimed, TwinShift, Merging
<1>3. RootOf[act.untracked] \in mounted
  BY <1>1 DEF Exists, Source
<1>4. Source # Target
  BY <1>2 DEF Source, Target
<1>5. Source \in Places /\ Target \in Places
  BY MergeShifted
<1>6. RenameTo(Source, Target)
  BY DEF ShiftMerge
<1> QED
  BY <1>1, <1>2, <1>3, <1>4, <1>5, <1>6 DEF RenameTo, bins, Vacant, Replaced, Safe, Guarded, DiskOK

\* The other steps that take a file away: it is in the trash.
LEMMA ShiftTrashed ==
  ASSUME Safe, ShiftMerge, act.copy # 0
  PROVE  /\ Source \in Places /\ disk \in [Places -> Files \cup {NoFile}]
         /\ disk' = [disk EXCEPT ![Source] = NoFile]
         /\ \E e \in Entries : e.file = disk[Source] /\ trash' = trash \cup {e}
<1>1. /\ act.phase = "shift" /\ mounted' = mounted /\ TwinAimed /\ TwinListed /\ TwinShift
      /\ act \in Acts /\ DiskOK /\ TrashOK
  BY DEF ShiftMerge, At, Safe, Guarded, Aimed, ClickOK
<1>2. Source \in Places /\ disk[Source] # NoFile /\ act.stamp \in Stamps
  BY <1>1, MergeShifted DEF TwinListed
<1>3. act.copy \in 1 .. MaxCopies
  BY <1>1, LimitAssumption DEF TwinShift
<1>4. Source[1] = act.untracked /\ Source[2] = act.name
  BY DEF Source
<1>5. /\ Free(act.stamp, Source[1], Source[2], act.copy)
      /\ [stamp |-> act.stamp, folder |-> Source[1], copy |-> 1] \in graves
  BY <1>1, <1>4 DEF TwinShift
<1>6. RenameToTrash(Source, act.copy)
  BY DEF ShiftMerge
<1>7. disk \in [Places -> Files \cup {NoFile}]
  BY <1>1 DEF DiskOK
<1> QED BY <1>1, <1>2, <1>3, <1>5, <1>6, <1>7, ToTrash

LEMMA FileTrashed ==
  ASSUME Safe, MoveTrash
  PROVE  /\ act.path \in Places /\ act.path \notin held /\ disk \in [Places -> Files \cup {NoFile}]
         /\ disk[act.path] # NoFile
         /\ disk' = [disk EXCEPT ![act.path] = NoFile]
         /\ \E e \in Entries : e.file = disk[act.path] /\ trash' = trash \cup {e}
<1>1. act.phase = "move" /\ mounted' = mounted /\ Exists(act.path) /\ RenameToTrash(act.path, act.copy)
  BY DEF MoveTrash, At
<1>2. FileAimed /\ FileFree /\ DiskOK /\ TrashOK
  BY DEF Safe, Guarded, Aimed
<1>3. act.path \in Places /\ act.path \notin held /\ disk[act.path] # NoFile
  BY <1>1, <1>2 DEF FileAimed, Exists
<1>4. disk \in [Places -> Files \cup {NoFile}]
  BY <1>2 DEF DiskOK
<1> QED BY <1>1, <1>2, <1>3, <1>4, ToTrash DEF FileFree

\* Through clicks, failures half-way and crashes, every file is still on the
\* disk or in the trash, but for one that a merge replaces because it was not
\* there to be seen when mergeTwin looked.
THEOREM NothingLost == Spec => NothingIsLost
<1> DEFINE Safely == edits' = edits =>
              \/ Kept \subseteq Kept'
              \/ \E p \in Places : Replaced(p) /\ Kept \ {disk[p]} \subseteq Kept'
<1>1. ASSUME Safe, Counted, [Next]_vars, edits' = edits PROVE Safely
  <2>1. CASE UNCHANGED <<disk, trash>>
    BY <2>1 DEF Kept
  <2>2. ASSUME NEW p \in Places, disk \in [Places -> Files \cup {NoFile}],
               disk' = [disk EXCEPT ![p] = NoFile],
               NEW e, e.file = disk[p], trash' = trash \cup {e}
        PROVE  Kept \subseteq Kept'
    <3>1. disk'[p] = NoFile /\ \A q \in Places : q # p => disk'[q] = disk[q]
      BY <2>2
    <3>2. \A x \in trash : x \in trash'
      BY <2>2
    <3>3. e \in trash' /\ e.file = disk[p]
      BY <2>2
    <3> QED BY <3>1, <3>2, <3>3 DEF Kept
  <2>3. CASE MoveTrash
    BY <1>1, <2>2, <2>3, FileTrashed
  <2>4. CASE ShiftMerge /\ act.copy # 0
    BY <1>1, <2>2, <2>4, ShiftTrashed
  <2>5. CASE ShiftMerge /\ act.copy = 0
    <3> DEFINE s == Source
               t == Target
    <3>1. /\ s \in Places /\ t \in Places /\ s # t /\ trash' = trash
          /\ disk \in [Places -> Files \cup {NoFile}]
          /\ disk' = [disk EXCEPT ![s] = NoFile, ![t] = disk[s]]
          /\ disk[t] = NoFile \/ Replaced(t)
      BY <1>1, <2>5, ShiftVacant
    <3> HIDE DEF s, t
    <3>2. disk'[s] = NoFile /\ disk'[t] = disk[s]
          /\ \A q \in Places : q # s /\ q # t => disk'[q] = disk[q]
      BY <3>1
    <3>3. ASSUME NEW x \in Kept, x # disk[t] PROVE x \in Kept'
      BY <3>1, <3>2, <3>3 DEF Kept
    <3>4. CASE disk[t] = NoFile
      <4>1. NoFile \in Kept'
        BY <3>1, <3>2 DEF Kept
      <4> QED BY <3>3, <3>4, <4>1
    <3>5. CASE Replaced(t)
      BY <3>1, <3>3, <3>5
    <3> QED BY <3>1, <3>4, <3>5
  <2>6. CASE BuryMerge
    <3>1. /\ \A p \in Places : p[1] # act.untracked => disk'[p] = disk[p]
          /\ \A n \in Names : disk[<<act.untracked, n>>] # NoFile =>
               \E e \in trash' : e.file = disk[<<act.untracked, n>>]
          /\ trash \subseteq trash'
      BY <1>1, <2>6, MergeBuried
    <3>2. \A p \in Places : p[1] = act.untracked => disk'[p] = NoFile
      BY <2>6 DEF BuryMerge
    <3>3. \A p \in Places : p = <<p[1], p[2]>> /\ p[2] \in Names
      BY DEF Places
    <3>4. ASSUME NEW p \in Places PROVE disk[p] \in Kept'
      <4>1. CASE p[1] # act.untracked
        BY <3>1, <4>1 DEF Kept
      <4>2. CASE p[1] = act.untracked /\ disk[p] = NoFile
        BY <3>2, <4>2 DEF Kept
      <4>3. CASE p[1] = act.untracked /\ disk[p] # NoFile
        <5>1. p = <<act.untracked, p[2]>> /\ p[2] \in Names
          BY <3>3, <4>3
        <5>2. \E e \in trash' : e.file = disk[p]
          BY <3>1, <4>3, <5>1
        <5> QED BY <5>2 DEF Kept
      <4> QED BY <4>1, <4>2, <4>3
    <3> QED BY <3>1, <3>4 DEF Kept
  <2> QED BY <1>1, <2>1, <2>3, <2>4, <2>5, <2>6, Touching
<1>2. Safe /\ Counted /\ [Next]_vars => [Safely]_vars
  BY <1>1
<1> QED BY <1>2, SafeAlways, CountedAlways, PTL DEF Spec, NothingIsLost

\* No button moves or replaces a file the *arr has tracked ever since the click,
\* but for the one just named.
THEOREM TrackedUnmoved == Spec => MovesNoTracked
<1> DEFINE Unmoved == edits' = edits =>
       \A p \in held : disk[p] # NoFile => disk'[p] = disk[p] \/ Replaced(p)
<1>1. ASSUME Safe, Counted, [Next]_vars, edits' = edits, NEW p \in held, disk[p] # NoFile
      PROVE  disk'[p] = disk[p] \/ Replaced(p)
  <2>0. p \in Places
    BY <1>1 DEF Safe, LibraryOK, Guarded, ClickOK, Libraries
  <2>1. CASE UNCHANGED <<disk, trash>>
    BY <2>1
  <2>2. CASE MoveTrash
    <3>1. act.path # p
      BY <1>1, <2>2, FileTrashed
    <3> QED BY <1>1, <2>0, <2>2, <3>1, FileTrashed
  <2>3. CASE ShiftMerge
    <3>1. p # Source
      BY <1>1, <2>3 DEF ShiftMerge, At, Safe, Guarded, Aimed, TwinAimed, Merging, Source
    <3>2. CASE act.copy = 0
      BY <1>1, <2>0, <2>3, <3>1, <3>2, ShiftVacant
    <3>3. CASE act.copy # 0
      BY <1>1, <2>0, <2>3, <3>1, <3>3, ShiftTrashed
    <3> QED BY <3>2, <3>3
  <2>4. CASE BuryMerge
    <3>1. p[1] # act.untracked
      BY <1>1, <2>4 DEF BuryMerge, At, Safe, Guarded, Aimed, TwinAimed, Merging
    <3> QED BY <1>1, <2>0, <2>4, <3>1, MergeBuried
  <2> QED BY <1>1, <2>1, <2>2, <2>3, <2>4, Touching
<1>2. Safe /\ Counted /\ [Next]_vars => [Unmoved]_vars
  BY <1>1
<1> QED BY <1>2, SafeAlways, CountedAlways, PTL DEF Spec, MovesNoTracked

\* Only two steps say "performed".
LEMMA Performing ==
  ASSUME Safe, [Next]_vars, act.phase # "idle", act'.outcome = "performed"
  PROVE  MoveTrash \/ BuryMerge
<1>1. act \in Acts /\ act.outcome = "none"
  BY DEF Safe, Guarded, ClickOK
<1>2. ASSUME NEW o, Answer(o) PROVE o = "performed"
  BY <1>2, NoActIs DEF Answer, Acts
<1>3. act' # act
  BY <1>1
<1>4. ~(UNCHANGED vars \/ SweepReads \/ SweepWalks)
  BY <1>3 DEF vars, SweepReads, SweepWalks
<1>5. ~(\E p \in Places : Adopt(p) \/ Release(p) \/ \E f \in Files : Import(p, f) \/ Copy(p, f))
  BY <1>3 DEF Adopt, Release, Import, Copy, Others
<1>6. ~((\E f, g \in Folders : Respell(f, g)) \/ \E r \in Roots : Remount(r))
  BY <1>3 DEF Respell, Remount, Others
<1>7. ~((\E kind \in {"orphan", "duplicate"}, p \in Places : ClickTrash(kind, p)) \/ \E f, g \in Folders : ClickMerge(f, g))
  BY DEF ClickTrash, ClickMerge, At
<1>8. ~ReadLive
  BY <1>1, <1>2 DEF ReadLive, Refuse, Step, Acts
<1>9. ~\E row \in Rows : VerifyTrash(row)
  BY <1>1, <1>2 DEF VerifyTrash, Refuse, Fresh, Acts
<1>10. ~\E s \in Stamps : ChooseTrash(s)
  BY <1>1, <1>2 DEF ChooseTrash, Refuse, Step, Acts
<1>11. ~\E s \in Stamps : ListMerge(s)
  BY <1>1, <1>2 DEF ListMerge, Step, Acts
<1>12. ~VerifyMerge
  BY <1>1, <1>2 DEF VerifyMerge, Refuse, Step, Acts
<1>13. ~ShiftMerge
  BY <1>1 DEF ShiftMerge, Step, Acts
<1>14. ~EmptyMerge
  BY <1>1, <1>2 DEF EmptyMerge, Fresh, Acts
<1>15. ~\E n \in Names : LookMerge(n)
  BY <1>1, <1>2 DEF LookMerge, Fresh, Acts
<1>16. ~(Fail \/ Crash)
  BY <1>2 DEF Fail, Crash
<1> QED
  BY <1>4, <1>5, <1>6, <1>7, <1>8, <1>9, <1>10, <1>11, <1>12, <1>13, <1>14, <1>15, <1>16 DEF Next

\* "Performed" is true: what was trashed is of the size that was verified, or
\* was put there since; what a merge listed is moved, and its folder was empty.
THEOREM PerformedTrue == Spec => PerformedIsTrue
<1> DEFINE Truly == (act.phase # "idle" /\ act'.outcome = "performed") =>
       IF act.kind = "merge"
         THEN /\ act.listed \subseteq act.moved
              /\ act.untracked \notin dirs'
              /\ \A n \in Names : disk[<<act.untracked, n>>] # NoFile => <<act.untracked, n>> \in added
         ELSE act.path \in added \/ SizeOf[disk[act.path]] = act.size
<1>1. ASSUME Safe, [Next]_vars PROVE Truly
  <2>1. CASE MoveTrash
    <3>1. disk[act.path] # NoFile
      BY <1>1, <2>1, FileTrashed
    <3>2. act.kind # "merge" /\ (Vacant(act.path) \/ SizeOf[disk[act.path]] = act.size)
      BY <1>1, <2>1 DEF MoveTrash, At, Safe, Guarded, Aimed, FileAimed
    <3> QED BY <3>1, <3>2 DEF Vacant
  <2>2. CASE BuryMerge
    <3>1. act.phase = "bury" /\ TwinAimed /\ TwinListed /\ TwinBury
      BY <1>1, <2>2 DEF BuryMerge, At, Safe, Guarded, Aimed
    <3>2. act.kind = "merge" /\ act.listed \subseteq act.moved
      BY <3>1 DEF TwinAimed, TwinListed, TwinBury, Merging
    <3>3. act.untracked \notin dirs'
      BY <2>2 DEF BuryMerge
    <3>4. \A n \in Names : disk[<<act.untracked, n>>] # NoFile => <<act.untracked, n>> \in added
      BY <3>1 DEF TwinBury, Vacant
    <3> QED BY <3>2, <3>3, <3>4
  <2> QED BY <1>1, <2>1, <2>2, Performing
<1>2. Safe /\ [Next]_vars => [Truly]_vars
  BY <1>1
<1> QED BY <1>2, SafeAlways, PTL DEF Spec, PerformedIsTrue
=============================================================================
