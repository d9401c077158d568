---------------------------- MODULE RadarrCycle -----------------------------
(***************************************************************************)
(* One evaluation of a Radarr instance after the other: what inspects the  *)
(* library (radarr.go), decides and cross-checks (decision.go), writes one *)
(* movie (writer.go), and looks back at what is unmonitored (reverse.go).  *)
(*                                                                         *)
(* An evaluation reads the library in one request and the wanted list in   *)
(* several, decides, and then changes movies one by one: each is read      *)
(* again, evaluated again if it is to be re-monitored, and put back whole  *)
(* with one flag changed.  Others change Radarr at any moment; any request *)
(* may fail; a write may be applied without an answer, or much later than  *)
(* its request timed out.                                                  *)
(***************************************************************************)
EXTENDS WantedPages, CrossCheck

CONSTANTS
  Movies,    \* the ids of the library's movies
  Libraries, \* what the library may look like at first
  Batches,   \* the movies a webhook batch or a click may be about
  MaxLost,   \* bound on the score requests of one evaluation that fail
  Origins,   \* what starts an evaluation: "sweep", "webhook", "action"
  MaxEdits,  \* bound on the changes others make in Radarr
  MaxLate,   \* bound on the writes that arrive after they timed out
  MaxStops   \* bound on the times the program is stopped or killed

\* A movie: told says that the library carries a quality verdict for its file,
\* rules that its profile is known and allows upgrades, scores that the file
\* reaches the custom-format cutoff.
Movie ==
  [monitored : BOOLEAN, tags : {"none", "excluded", "unknown"}, file : BOOLEAN,
   rules : BOOLEAN, told : BOOLEAN, below : BOOLEAN, scores : BOOLEAN]

ASSUME MoviesAssumption == Movies \subseteq Nat /\ IsFiniteSet(Movies)
ASSUME LibrariesAssumption == Libraries \subseteq [Movies -> Movie]
ASSUME BatchesAssumption == \A b \in Batches : b \subseteq Movies /\ b # {}
ASSUME OriginsAssumption == Origins \subseteq {"sweep", "webhook", "action"}
ASSUME BoundsAssumption == MaxEdits \in Nat /\ MaxLate \in Nat /\ MaxStops \in Nat /\ MaxLost \in Nat

VARIABLES
  radarr,    \* the movies, as Radarr has them
  dryRun,
  origin,    \* what started the evaluation in progress
  scope,     \* the movies it is about
  phase,     \* "idle", "paging", "writing", "reversePaging", "reverseWriting"
  lib,       \* the library as it was read
  fetch,     \* the wanted list being read, or read last
  check,     \* the cross-check's result
  jobs,      \* the movies still to be written
  op,        \* the write in progress
  count,     \* what became of the pass's writes
  late,      \* writes that timed out and are still on their way
  stopping,  \* shutdown has been requested
  edits, stops

server == <<radarr, late, edits>>
cycle  == <<origin, scope, lib, check>>
vars   == <<server, cycle, dryRun, phase, fetch, jobs, op, count, stopping, stops>>

NoOp   == [at |-> "none"]
NoLib  == [m \in {} |-> NoOp]
NoCheck ==
  [status |-> "failed", verified |-> 0, unverifiable |-> 0, writeVerified |-> 0,
   writeUnverifiable |-> 0]
Outcomes == {"pending", "written", "unverified", "error", "refused", "withheld"}
NoCount == [o \in Outcomes |-> 0]
Ops == [at : {"get", "verify", "put"}, movie : Movies, to : BOOLEAN, seen : Movie,
        since : Nat]

TypeOK ==
  /\ radarr \in [Movies -> Movie] /\ lib \in {NoLib} \cup [Movies -> Movie]
  /\ dryRun \in BOOLEAN /\ stopping \in BOOLEAN
  /\ origin \in Origins \cup {"none"} /\ scope \subseteq Movies
  /\ phase \in {"idle", "paging", "writing", "reversePaging", "reverseWriting"}
  /\ fetch \in Fetches(Movies)
  /\ check \in CrossChecks
  /\ jobs \subseteq scope
  /\ op \in {NoOp} \cup Ops
  /\ count \in [Outcomes -> Nat]
  /\ late \subseteq Movies \X Movie
  /\ edits \in 0 .. MaxEdits /\ stops \in 0 .. MaxStops

Idle ==
  /\ origin' = "none" /\ scope' = {} /\ phase' = "idle" /\ lib' = NoLib
  /\ fetch' = NewFetch /\ check' = NoCheck /\ jobs' = {} /\ op' = NoOp /\ count' = NoCount

Init ==
  /\ radarr \in Libraries /\ dryRun \in BOOLEAN
  /\ origin = "none" /\ scope = {} /\ phase = "idle" /\ lib = NoLib
  /\ fetch = NewFetch /\ check = NoCheck /\ jobs = {} /\ op = NoOp /\ count = NoCount
  /\ late = {} /\ stopping = FALSE /\ edits = 0 /\ stops = 0

-----------------------------------------------------------------------------
(***************************************************************************)
(* Deciding.                                                               *)
(***************************************************************************)
\* evaluateMovie, in the order of its rules: x is the movie as it was read, and
\* scores what the request for its file's score shows.
Reason(x, listed, scores) ==
  IF ~x.file                    THEN "no file"
  ELSE IF ~x.rules              THEN "rules unknown or upgrades off"
  ELSE IF x.tags = "unknown"    THEN "tags unknown"
  ELSE IF x.tags = "excluded"   THEN "excluded"
  ELSE IF listed                THEN "quality cutoff not met"
  ELSE IF scores = "unread"     THEN "score unknown"
  ELSE IF scores = "unmet"      THEN "custom format cutoff not met"
  ELSE "cutoff met"

Score(m, lost) == IF m \in lost THEN "unread" ELSE IF radarr[m].scores THEN "met" ELSE "unmet"

\* isReverseFinding
Finding(reason) == reason \in {"quality cutoff not met", "custom format cutoff not met"}

Losses == {l \in SUBSET Movies : Cardinality(l) <= MaxLost}

\* The score requests of lost have failed.
Decided(m, lost) == Reason(lib[m], m \in fetch.ids, Score(m, lost))

\* Radarr's wanted list, of monitored movies or of the others, in its own order.
Below(monitored) ==
  {m \in Movies : radarr[m].file /\ radarr[m].below /\ radarr[m].monitored = monitored}
Listing(monitored) ==
  [i \in 1 .. Cardinality(Below(monitored)) |->
     CHOOSE m \in Below(monitored) : Rank(Below(monitored), m) = i - 1]

\* A sweep covers the library, a webhook batch and a click some of it.
Begin ==
  /\ phase = "idle" /\ ~stopping
  /\ \E o \in Origins :
       /\ origin' = o
       /\ IF o = "sweep" THEN scope' = Movies
          ELSE \E b \in Batches : scope' = b /\ (o = "action" => Cardinality(b) = 1)
  /\ lib' = radarr
  /\ phase' = "paging" /\ fetch' = NewFetch
  /\ UNCHANGED <<server, dryRun, check, jobs, op, count, stopping, stops>>

\* One page of the list the evaluation is reading.
GetPage ==
  /\ phase \in {"paging", "reversePaging"} /\ fetch.status = "paging"
  /\ fetch' = Paged(fetch, Listing(phase = "paging"))
  /\ UNCHANGED <<server, cycle, dryRun, phase, jobs, op, count, stopping, stops>>

\* The request for a page, for the profiles or for the tags fails: nothing is
\* evaluated, or only the reverse scan is skipped.
GiveUp ==
  /\ phase \in {"paging", "reversePaging"}
  /\ Idle
  /\ UNCHANGED <<server, dryRun, stopping, stops>>

\* Mutant of ToWrite: the scope narrows what is reported, not what is written.
ToWriteAnywhere(would) == would

\* What the pass is to write, past the gate.
ToWrite(would) == would \cap scope

\* The outcome counts of a pass over the given movies, and the movies left to
\* write, once the gate has let it pass or not.
Pass(movies, open) ==
  /\ jobs' = IF open THEN movies ELSE {}
  /\ count' = [NoCount EXCEPT !["pending"] = Cardinality(movies),
                              !["withheld"] = IF open THEN 0 ELSE Cardinality(movies)]

\* The whole library is evaluated and cross-checked, whatever the scope; what is
\* to be written is in scope and past the gate, and never follows a click.
Evaluate ==
  /\ phase = "paging" /\ fetch.status = "whole" /\ ~stopping
  /\ \E lost \in Losses :
     LET decided == {m \in Movies : lib[m].monitored}
         would   == {m \in decided : Decided(m, lost) = "cutoff met"}
         told    == {m \in Movies : lib[m].told}
         below   == {m \in Movies : lib[m].below}
         skipped == {m \in decided \ would : lib[m].file}
     IN  /\ check' = CrossChecked(would, skipped, fetch.ids, told, below)
         /\ IF origin = "action" THEN Pass({}, TRUE)
            ELSE Pass(ToWrite(would), MayUnmonitor(check', Cardinality(ToWrite(would))))
  /\ phase' = "writing"
  /\ UNCHANGED <<server, origin, scope, lib, dryRun, fetch, op, stopping, stops>>

\* The pass is over; a webhook batch has no reverse pass.
PassOver == op = NoOp /\ jobs = {}

BeginReverse ==
  /\ phase = "writing" /\ PassOver /\ origin # "webhook"
  /\ phase' = "reversePaging" /\ fetch' = NewFetch /\ count' = NoCount
  /\ UNCHANGED <<server, cycle, dryRun, jobs, op, stopping, stops>>

\* Mutant of FoundUnmonitored: the library as it now is.
NowUnmonitored(m) == ~radarr[m].monitored

FoundUnmonitored(m) == ~lib[m].monitored

\* reversePass.runRadarr over the library read before the forward pass.
EvaluateReverse ==
  /\ phase = "reversePaging" /\ fetch.status = "whole" /\ ~stopping
  /\ \E lost \in Losses :
     Pass({m \in scope : FoundUnmonitored(m) /\ Finding(Decided(m, lost))},
          MayRemonitor(check))
  /\ phase' = "reverseWriting"
  /\ UNCHANGED <<server, cycle, dryRun, fetch, op, stopping, stops>>

\* A list that is not whole, or a shutdown noticed between two movies, ends it.
Abandon ==
  /\ phase \in {"paging", "reversePaging"}
  /\ \/ fetch.status = "failed"
     \/ fetch.status = "whole" /\ stopping
  /\ Idle
  /\ UNCHANGED <<server, dryRun, stopping, stops>>

End ==
  /\ PassOver
  /\ \/ phase = "reverseWriting"
     \/ phase = "writing" /\ origin = "webhook"
  /\ Idle
  /\ UNCHANGED <<server, dryRun, stopping, stops>>

-----------------------------------------------------------------------------
(***************************************************************************)
(* Writing one movie: writeMovieMonitored.                                 *)
(***************************************************************************)
Become(outcomes) == count' = [o \in Outcomes |-> count[o] + outcomes[o]]
One(o) == [NoCount EXCEPT ![o] = 1]

\* The movie's write ends with outcome o.
Finish(o) == op' = NoOp /\ Become(One(o))

Goto(step) == op' = [op EXCEPT !.at = step] /\ UNCHANGED count

At(step) ==
  /\ op.at = step
  /\ UNCHANGED <<cycle, dryRun, phase, fetch, jobs, edits, stopping, stops>>

Take ==
  /\ op = NoOp /\ ~stopping
  /\ \E m \in jobs :
       /\ jobs' = jobs \ {m}
       /\ op' = [at |-> "get", movie |-> m, to |-> phase = "reverseWriting",
                 seen |-> radarr[m], since |-> edits]
  /\ UNCHANGED <<server, cycle, dryRun, phase, fetch, count, stopping, stops>>

\* Mutant of WithholdRest: what a shutdown withholds is not counted.
WithholdSilently ==
  /\ op = NoOp /\ jobs # {} /\ stopping
  /\ jobs' = {}
  /\ UNCHANGED <<server, cycle, dryRun, phase, fetch, op, count, stopping, stops>>

\* Shutdown: what has not begun is withheld.
WithholdRest ==
  /\ op = NoOp /\ jobs # {} /\ stopping
  /\ jobs' = {} /\ Become([NoCount EXCEPT !["withheld"] = Cardinality(jobs)])
  /\ UNCHANGED <<server, cycle, dryRun, phase, fetch, op, stopping, stops>>

\* The movie is read again: its tag and its flag must still allow the write.
Get ==
  /\ At("get")
  /\ LET x == radarr[op.movie]
     IN  IF x.tags # "none" \/ x.monitored = op.to THEN Finish("refused")
         ELSE IF op.to
           THEN op' = [op EXCEPT !.at = "verify", !.seen = x] /\ UNCHANGED count
         ELSE IF dryRun THEN Finish("withheld")
         ELSE op' = [op EXCEPT !.at = "put", !.seen = x] /\ UNCHANGED count
  /\ UNCHANGED <<radarr, late>>

\* Any read before the write fails.
GetFails ==
  /\ At("get") /\ Finish("error") /\ UNCHANGED <<radarr, late>>

\* Mutant of Verify: the finding is taken for granted.
VerifyNothing ==
  /\ At("verify")
  /\ IF dryRun THEN Finish("withheld") ELSE Goto("put")
  /\ UNCHANGED <<radarr, late>>

\* verifyMovieStillAReverseFinding, with the wanted list of the pass.
Verify ==
  /\ At("verify")
  /\ \E lost \in SUBSET {op.movie} :
     IF ~Finding(Reason(op.seen, op.movie \in fetch.ids, Score(op.movie, lost)))
       THEN Finish("refused")
     ELSE IF dryRun THEN Finish("withheld")
     ELSE Goto("put")
  /\ UNCHANGED <<radarr, late>>

Written == [op.seen EXCEPT !.monitored = op.to]

\* Radarr stores an object: what it knows of the file is its own.
Store(m, x) ==
  radarr' = [radarr EXCEPT ![m].monitored = x.monitored, ![m].tags = x.tags]

\* The PUT is applied, denied, lost, or timed out and still on its way; its
\* answer confirms the change, cannot be read, or is an error.
Put ==
  /\ At("put")
  /\ \/ /\ Store(op.movie, Written) /\ UNCHANGED late
        /\ \E o \in {"written", "unverified", "error"} : Finish(o)
     \/ /\ UNCHANGED <<radarr, late>>
        /\ \E o \in {"unverified", "error"} : Finish(o)
     \/ /\ UNCHANGED radarr /\ Cardinality(late) < MaxLate
        /\ late' = late \cup {<<op.movie, Written>>} /\ Finish("error")

LateArrives ==
  /\ \E w \in late : Store(w[1], w[2]) /\ late' = late \ {w}
  /\ UNCHANGED <<cycle, dryRun, phase, fetch, jobs, op, count, edits, stopping, stops>>

-----------------------------------------------------------------------------
\* A movie that somebody, or Radarr itself, has changed in one respect.
Changed(x) ==
  {[x EXCEPT !.monitored = ~@], [x EXCEPT !.below = ~@],
   [x EXCEPT !.tags = IF @ = "none" THEN "excluded" ELSE "none"],
   [x EXCEPT !.scores = ~@]}

Edit ==
  /\ edits < MaxEdits /\ edits' = edits + 1
  /\ \E m \in Movies : \E x \in Changed(radarr[m]) : radarr' = [radarr EXCEPT ![m] = x]
  /\ UNCHANGED <<cycle, dryRun, phase, fetch, jobs, op, count, late, stopping, stops>>

Stop ==
  /\ ~stopping /\ stops < MaxStops
  /\ stopping' = TRUE /\ stops' = stops + 1
  /\ UNCHANGED <<server, cycle, dryRun, phase, fetch, jobs, op, count>>

\* The process ends, in an orderly way or by force, and is started again.
Restart ==
  /\ stopping
  /\ stopping' = FALSE /\ Idle
  /\ UNCHANGED <<server, dryRun, stops>>

Next ==
  \/ Begin \/ GetPage \/ GiveUp \/ Evaluate \/ BeginReverse \/ EvaluateReverse
  \/ Abandon \/ End
  \/ Take \/ WithholdRest \/ Get \/ GetFails \/ Verify \/ Put \/ LateArrives
  \/ Edit \/ Stop \/ Restart

Spec == Init /\ [][Next]_vars

-----------------------------------------------------------------------------
(***************************************************************************)
(* Properties.                                                             *)
(***************************************************************************)
\* A wanted list that counts as whole holds every record that was in it at every
\* request, whatever left it meanwhile, unless a record has arrived in it.
NoneMissed == fetch.status = "whole" /\ ~fetch.grew => fetch.always \subseteq fetch.ids

\* A wanted list that counts as whole holds every record that was in it at every
\* request.
WantedIsWhole == fetch.status = "whole" => fetch.always \subseteq fetch.ids

\* Even when the list is not whole, and a movie is missing from it, a movie that
\* the library itself says is below the quality cutoff is not unmonitored, as long
\* as the cross-check's sample had room for every candidate.
UnmonitorsNoneBelow ==
  [][Put /\ radarr' # radarr /\ ~op.to =>
       \/ check.writeVerified + check.writeUnverifiable = SampleSize
       \/ ~(lib[op.movie].told /\ lib[op.movie].below)]_vars

\* Behind every movie unmonitored there is one in the library, monitored and not
\* listed, of which the library itself says that it has reached the cutoff.
WritesOnEvidence ==
  [][Put /\ radarr' # radarr /\ ~op.to =>
       \E m \in Movies :
         lib[m].monitored /\ lib[m].told /\ ~lib[m].below /\ m \notin fetch.ids]_vars

\* A movie that nobody has touched since its turn came is re-monitored only if it
\* still fails the criteria, by the list the pass has read, and either way is
\* written only if it is not excluded.
RepairsOnlyFailing ==
  [][Put /\ radarr' # radarr /\ op.since = edits =>
       LET x == radarr[op.movie]
       IN  /\ x.tags = "none"
           /\ op.to => Finding(Reason(x, op.movie \in fetch.ids, Score(op.movie, {})))]_vars

\* The reverse pass of an evaluation never writes a movie that the same evaluation
\* has found monitored, what its own forward pass wrote included.
NeverBothWays == [][Put /\ radarr' # radarr => lib[op.movie].monitored = ~op.to]_vars

\* Every decision of a pass ends in exactly one of the five outcomes the summary
\* line counts, also when the gate or a shutdown withholds the rest.
CountsAddUp ==
  phase \in {"writing", "reverseWriting"} /\ PassOver =>
    count["pending"] = count["written"] + count["unverified"] + count["error"]
                       + count["refused"] + count["withheld"]
=============================================================================
