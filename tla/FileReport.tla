----------------------------- MODULE FileReport -----------------------------
(***************************************************************************)
(* The file report of filereport.go: which files under the media roots     *)
(* does the *arr not track, and which folders differ in letter case only?  *)
(* Pure operators over what one read of the library said and what one walk *)
(* of the disk saw.                                                        *)
(*                                                                         *)
(* A place is a name in a folder, a folder lies in a root, and a name      *)
(* stands for the whole path below the folder.  What spelling decides is a *)
(* constant: the folders that EqualFold calls equal, the rule a name falls *)
(* under, the season folder it lies in.                                    *)
(***************************************************************************)
EXTENDS Naturals, FiniteSets

CONSTANTS
  Roots, Folders, Names,
  RootOf,      \* the media root of each folder
  Fold,        \* a folder's spelling without regard to case
  FoldOfName,  \* and a name's
  Rule,        \* "video", or why a name does not count: "other", "extras", "sample"
  SeasonOf,    \* the season Sonarr files a name under
  Located,     \* the season folder it lies in, or None
  None,
  Sonarr,      \* the instance is a Sonarr, not a Radarr
  Position,    \* the order of the places' paths
  SampleSize   \* fileReportMountSampleSize

Places  == Folders \X Names
Seasons == {SeasonOf[n] : n \in Names}

ASSUME FoldersAssumption ==
  /\ IsFiniteSet(Folders) /\ IsFiniteSet(Names)
  /\ RootOf \in [Folders -> Roots]
  /\ DOMAIN Rule = Names
  /\ Position \in [Places -> Nat]
  /\ SampleSize \in Nat \ {0} /\ Sonarr \in BOOLEAN
\* A file in a season folder is of that season; one in none may be of any.
ASSUME SeasonsAssumption == \A n \in Names : Located[n] \in {SeasonOf[n], None} /\ SeasonOf[n] # None

-----------------------------------------------------------------------------
(***************************************************************************)
(* The tracked set.                                                        *)
(***************************************************************************)
\* What the *arr holds: its titles' folders, their files, and the excluded.
Libraries == [folders : SUBSET Folders, files : SUBSET Places, excluded : SUBSET Folders]

\* What one answer leaves out: a title's path or tags, a file's path, or the
\* file altogether, though the season's statistics count it.
Answers ==
  [nameless : SUBSET Folders, untagged : SUBSET Folders,
   pathless : SUBSET Places, unlisted : SUBSET Places]

Tracked ==
  [folders : SUBSET Folders, files : SUBSET Places, excluded : SUBSET Folders,
   distrusted : SUBSET Folders, mismatched : SUBSET (Folders \X Seasons),
   titled : BOOLEAN]

\* The folders of titles one of whose files has no readable path.
Distrusted(l, a) == {p[1] : p \in l.files \cap a.pathless} \ a.nameless

\* buildRadarrTrackedSet: a folder and its files are tracked independently.
MovieSet(l, a) ==
  LET known == l.folders \ a.nameless
  IN  [folders    |-> known,
       files      |-> l.files \ (a.pathless \cup a.unlisted),
       excluded   |-> known \cap (l.excluded \cup a.untagged),
       distrusted |-> Distrusted(l, a),
       mismatched |-> {},
       titled     |-> l.folders # {}]

\* seasonsWithFileCountMismatch: fewer files listed than the statistics promise.
Mismatched(l, a) ==
  {<<p[1], SeasonOf[p[2]]>> : p \in {q \in l.files \cap (a.unlisted \cup a.pathless) : q[1] \notin a.nameless}}

\* buildSonarrTrackedSet. A sweep knows of further mismatches from its forward
\* pass, a click's live check does not.
SeriesSet(l, a) == [MovieSet(l, a) EXCEPT !.mismatched = Mismatched(l, a)]

\* Radarr carries a movie's file in the movie, so it has no list to be short.
TrackedSet(l, a) ==
  IF Sonarr THEN SeriesSet(l, a) ELSE MovieSet(l, [a EXCEPT !.unlisted = {}])

-----------------------------------------------------------------------------
(***************************************************************************)
(* One file.                                                               *)
(***************************************************************************)
\* Mutant of InMismatch: a file in no season folder belongs to no season.
InMismatchLocated(p, t) == <<p[1], Located[p[2]]>> \in t.mismatched

\* seasonFromLocation, and the season's mark: a file in no season folder may
\* belong to any season.
InMismatch(p, t) ==
  \E s \in Seasons : /\ <<p[1], s>> \in t.mismatched
                     /\ Located[p[2]] \in {s, None}

\* classifyFileReportPath.
Classify(p, t) ==
  IF Rule[p[2]] # "video" THEN "skipped"
  ELSE IF p \in t.files THEN "tracked"
  ELSE IF p[1] \notin t.folders THEN "orphan"
  ELSE IF p[1] \in t.distrusted THEN "untrusted"
  ELSE IF p[1] \in t.excluded THEN "skipped"
  ELSE IF InMismatch(p, t) THEN "untrusted"
  ELSE "duplicate"

-----------------------------------------------------------------------------
(***************************************************************************)
(* Names that differ in case only.                                         *)
(***************************************************************************)
Twins(f, dirs) == {g \in dirs : RootOf[g] = RootOf[f] /\ Fold[g] = Fold[f]}

\* detectCaseCollisions over the folders of a root: groups of two and more.
FolderGroups(root, dirs) ==
  {g \in {Twins(f, dirs) : f \in {d \in dirs : RootOf[d] = root}} : Cardinality(g) > 1}

\* And over the files of a folder.
HasFileTwin(p, seen) ==
  \E q \in seen : q # p /\ q[1] = p[1] /\ FoldOfName[q[2]] = FoldOfName[p[2]]

\* pathIsOrContainsTracked.
HoldsTracked(f, t) == f \in t.folders \/ \E p \in t.files : p[1] = f

-----------------------------------------------------------------------------
(***************************************************************************)
(* One root.  dirs, seen: the folders and the places with a file that are  *)
(* to be seen under it.                                                    *)
(***************************************************************************)
Under(root, places) == {p \in places : RootOf[p[1]] = root}

\* sampleFileReportPaths, over the tracked paths in order.
Sampled(places) ==
  LET step == IF Cardinality(places) < SampleSize THEN 1 ELSE Cardinality(places) \div SampleSize
      rank(p) == Cardinality({q \in places : Position[q] < Position[p]})
  IN  {p \in places : rank(p) % step = 0 /\ rank(p) \div step < SampleSize}

\* At least nine tenths of the sample exist (fileReportMountHealthyFraction).
Healthy(sample, seen) == 10 * Cardinality(sample \cap seen) >= 9 * Cardinality(sample)

\* The walk, which does not descend into twins.
Walked(root, dirs, seen) ==
  {p \in Under(root, seen) : p[1] \notin UNION FolderGroups(root, dirs) /\ ~HasFileTwin(p, seen)}

\* The heuristics that abort a root before the walk: its tracked files are gone,
\* or it has titles without files.
SkippedUnwalked(root, seen, t) ==
  LET files == Under(root, t.files)
  IN  \/ files # {} /\ ~Healthy(Sampled(files), seen)
      \/ files = {} /\ \E f \in t.folders : RootOf[f] = root

\* And after it: what was to be seen cannot be this root, or not this instance's.
SkippedWalked(root, dirs, seen, t) ==
  LET files  == Under(root, t.files)
      videos == {p \in Walked(root, dirs, seen) : Rule[p[2]] # "other"}
      twins  == \/ FolderGroups(root, dirs) # {}
                \/ \E p \in Under(root, seen) : Rule[p[2]] # "other" /\ HasFileTwin(p, seen)
  IN  \/ files # {} /\ videos = {} /\ ~twins
      \/ files = {} /\ videos # {} /\ \A f \in t.folders : RootOf[f] # root

SkipsRoot(root, dirs, seen, t) ==
  SkippedUnwalked(root, seen, t) \/ SkippedWalked(root, dirs, seen, t)

\* evaluateFileReportRoot's findings: files with their sizes, and twins with the
\* spellings that are tracked.
FileFindings(root, dirs, seen, size, t) ==
  {[kind |-> Classify(p, t), path |-> p, size |-> size[p]] :
     p \in {q \in Walked(root, dirs, seen) : Classify(q, t) \in {"orphan", "duplicate"}}}

TwinFindings(root, dirs, t) ==
  {[names |-> g, tracked |-> {f \in g : HoldsTracked(f, t)}] : g \in FolderGroups(root, dirs)}

-----------------------------------------------------------------------------
(***************************************************************************)
(* The instance.                                                           *)
(***************************************************************************)
NoReport      == [status |-> "off", files |-> {}, twins |-> {}]
SkippedReport == [NoReport EXCEPT !.status = "skipped"]

\* warnIfInstanceTrackedSetEntirelyUnmapped.
Unmapped(t) == t.titled /\ t.folders = {} /\ t.files = {}

\* runRadarrFileReport, runSonarrFileReport: the roots that were walked report,
\* and one that was not makes the whole "skipped".
Report(t, dirs, seen, size) ==
  LET walked == {r \in Roots : ~SkipsRoot(r, dirs, seen, t)}
  IN  IF Roots = {} THEN NoReport
      ELSE IF Unmapped(t) THEN SkippedReport
      ELSE [status |-> IF walked = Roots THEN "ran" ELSE "skipped",
            files  |-> UNION {FileFindings(r, dirs, seen, size, t) : r \in walked},
            twins  |-> UNION {TwinFindings(r, dirs, t) : r \in walked}]
=============================================================================
