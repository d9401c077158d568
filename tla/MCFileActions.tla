--------------------------- MODULE MCFileActions ---------------------------
(***************************************************************************)
(* FileActions on one Sonarr root: a series, a folder spelled like it but  *)
(* for case, and another series; two names, one in a season folder.  An    *)
(* answer leaves out one thing or none.                                    *)
(***************************************************************************)
EXTENDS FileActions, TLC

CONSTANTS root, Show, show, Film, e1, e2, w, x, y, z

MCFolders  == {Show, show, Film}
MCNames    == {e1, e2}
MCRootOf   == [f \in MCFolders |-> root]
MCFold     == [f \in MCFolders |-> IF f = Film THEN 2 ELSE 1]
MCFoldOf   == e1 :> 1 @@ e2 :> 2
MCRule     == [n \in MCNames |-> "video"]
MCSeasonOf == [n \in MCNames |-> 1]
MCLocated  == e1 :> 1 @@ e2 :> None
MCPosition ==
  [p \in MCFolders \X MCNames |->
     2 * (CASE p[1] = Film -> 0 [] p[1] = Show -> 1 [] p[1] = show -> 2) + (IF p[2] = e1 THEN 0 ELSE 1)]

MCFiles  == {w, x, y, z}
MCSizeOf == [f \in MCFiles |-> IF f = z THEN 0 ELSE 1]

NoGap == [nameless |-> {}, untagged |-> {}, pathless |-> {}, unlisted |-> {}]
MCGaps ==
  {NoGap}
    \cup {[NoGap EXCEPT !.nameless = {f}] : f \in MCFolders}
    \cup {[NoGap EXCEPT !.pathless = {p}] : p \in MCFolders \X MCNames}
    \cup {[NoGap EXCEPT !.unlisted = {p}] : p \in MCFolders \X MCNames}

Holding(files) == [p \in MCFolders \X MCNames |-> IF p \in DOMAIN files THEN files[p] ELSE NoFile]
Start(files, folders, tracked) ==
  [disk |-> Holding(files), dirs |-> {p[1] : p \in DOMAIN files},
   lib |-> [folders |-> folders, files |-> tracked, excluded |-> {}]]

\* A twin with a name that is taken and one that is not; a duplicate, and an
\* orphan.
MCStarts ==
  {Start(<<Show, e1>> :> x @@ <<show, e1>> :> y @@ <<show, e2>> :> z, {Show}, {<<Show, e1>>}),
   Start(<<Show, e1>> :> x @@ <<Show, e2>> :> y, {Show}, {<<Show, e1>>}),
   Start(<<Show, e1>> :> x @@ <<Film, e1>> :> y, {Show}, {<<Show, e1>>})}
=============================================================================
