---------------------------- MODULE SeasonWriter ----------------------------
(***************************************************************************)
(* How cutoffarr changes what Sonarr monitors (sonarr_writer.go, and the   *)
(* passes of decision.go, reverse.go and actions.go that decide on it).    *)
(*                                                                         *)
(* A season is changed in several HTTP calls: the series is read, then its *)
(* episodes (once more to re-verify a reverse finding), then the episodes  *)
(* are written, read again if the answer was unreadable, and last the      *)
(* series is written back whole with one flag changed.  Each call is one   *)
(* step, and each write may be lost, may be applied and its answer lost,   *)
(* may be answered unreadably, or may arrive long after it has timed out.  *)
(* The sweep works through the seasons it decided on one at a time; a      *)
(* click on "re-monitor" runs beside it, on its own goroutine; people and  *)
(* imports change Sonarr at any moment.                                    *)
(*                                                                         *)
(* One series is modelled, with everything Sonarr says of it.              *)
(***************************************************************************)
EXTENDS Naturals, FiniteSets

CONSTANTS
  Seasons,       \* the seasons of the series
  Episodes,      \* its episodes
  SeasonOf,      \* the season of each episode
  Sweep, Action, \* the two writers the program can run side by side
  Writers,       \* those that do run
  Gates,         \* what a cross-check may authorise: [forward, reverse]
  MaxEdits,      \* bound on the changes others make in Sonarr
  MaxCrashes,    \* bound on the times the program is killed
  MaxLate        \* bound on the timed-out writes on their way at once

ASSUME SeasonsAssumption  == IsFiniteSet(Seasons) /\ IsFiniteSet(Episodes)
ASSUME SeasonOfAssumption == SeasonOf \in [Episodes -> Seasons]
ASSUME WritersAssumption  == Sweep # Action /\ Writers \subseteq {Sweep, Action}
ASSUME BoundsAssumption   == MaxEdits \in Nat /\ MaxCrashes \in Nat /\ MaxLate \in Nat

\* What writeGateBlockReason, recoveryGateBlockReason and
\* reverseWriteGateBlockReason can together make of a cross-check.
AllGates ==
  [forward : {"open"}, reverse : BOOLEAN] \cup     \* passed
  [forward : {"recovery"}, reverse : BOOLEAN] \cup \* passed without enough
                                                   \* evidence, or inconclusive
  [forward : {"shut"}, reverse : {FALSE}]          \* failed

ASSUME GatesAssumption == Gates \subseteq AllGates

VARIABLES
  series,   \* the series object in Sonarr: monitored, tagged, season flags
  mon,      \* the episodes' own monitored flags
  ready,    \* per season: complete on disk and fully aired
  below,    \* the episodes whose file is below the quality cutoff
  scores,   \* per season: every file reaches the custom-format cutoff
  dryRun,
  stage,    \* the sweep: "idle", "forward" or "reverse"
  lib,      \* what the sweep's library read found, while it still matters
  gate,     \* what the sweep's cross-check authorised
  jobs,     \* per writer: the season writes decided on and not yet begun
  op,       \* per writer: the write operation in progress
  result,   \* per writer: how its last operation ended
  late,     \* writes that timed out and are still on their way
  seen,     \* per writer (history, for the properties): the server during its
            \* operation
  edits, crashes

server  == <<series, mon, ready, below, scores>>
control == <<dryRun, stage, lib, gate>>
bounds  == <<edits, crashes>>
work    == <<server, control, jobs, op, result, late, bounds>>
vars    == <<work, seen>>

EpisodesOf(s) == {e \in Episodes : SeasonOf[e] = s}

\* A season write: recoveryOnly when only the recovery gate is open; unmet is
\* what the wanted list, read once for the whole pass, said of the season.
Jobs == [season : Seasons, to : BOOLEAN, recoveryOnly : BOOLEAN, unmet : BOOLEAN]
Series == [monitored : BOOLEAN, tagged : BOOLEAN, flags : [Seasons -> BOOLEAN]]
NoOp == [at |-> "none"]

\* One read of the series object: what it says, statistics included.
Reads  == [series : Series, ready : [Seasons -> BOOLEAN]]
NoRead == [at |-> "none"]
Read   == [series |-> series, ready |-> ready]

\* snap is the operation's own read and ids the episodes it has to write; before
\* (history, for the properties) is the server as the operation found it.
Ops ==
  [at : {"series", "episodes", "verify", "put", "reread", "season"}, job : Jobs,
   snap : Reads, ids : SUBSET Episodes,
   before : Series \X [Episodes -> BOOLEAN]]

\* A write on the wire: of episodes, or of the whole series.
Requests == [to : BOOLEAN, ids : SUBSET Episodes] \cup [object : Series]

\* What has been so since the operation began: the series was monitored and not
\* excluded at some moment; these seasons were ready at some moment; somebody
\* else changed these seasons; and who changed anything at all: nobody, only
\* "writer"s of this program that met none but each other, or an "outsider".
Sights ==
  [writable : BOOLEAN, ready : SUBSET Seasons, touched : SUBSET Seasons,
   met : {"nobody", "writer", "outsider"}]
Blank == [writable |-> FALSE, ready |-> {}, touched |-> {}, met |-> "nobody"]

Outcomes == {"none", "written", "recovered", "unverified", "error", "refused", "withheld"}

TypeOK ==
  /\ series \in Series /\ lib \in Reads \cup {NoRead}
  /\ mon \in [Episodes -> BOOLEAN]
  /\ below \subseteq Episodes
  /\ ready \in [Seasons -> BOOLEAN] /\ scores \in [Seasons -> BOOLEAN]
  /\ dryRun \in BOOLEAN
  /\ stage \in {"idle", "forward", "reverse"}
  /\ gate \in AllGates
  /\ jobs \in [Writers -> SUBSET Jobs]
  /\ op \in [Writers -> {NoOp} \cup Ops]
  /\ result \in [Writers -> Outcomes]
  /\ late \subseteq Requests
  /\ seen \in [Writers -> Sights]
  /\ edits \in 0 .. MaxEdits /\ crashes \in 0 .. MaxCrashes

Shut == [forward |-> "shut", reverse |-> FALSE]

\* Any state of the seasons that people and Sonarr leave behind, under a series
\* that is monitored and not excluded.
Init ==
  /\ series \in {x \in Series : x.monitored /\ ~x.tagged}
  /\ mon \in [Episodes -> BOOLEAN]
  /\ below \in SUBSET Episodes
  /\ ready \in [Seasons -> BOOLEAN] /\ scores \in [Seasons -> BOOLEAN]
  /\ dryRun \in BOOLEAN
  /\ stage = "idle" /\ lib = NoRead /\ gate = Shut
  /\ jobs = [w \in Writers |-> {}]
  /\ op = [w \in Writers |-> NoOp]
  /\ result = [w \in Writers |-> "none"]
  /\ late = {} /\ seen = [w \in Writers |-> Blank]
  /\ edits = 0 /\ crashes = 0

-----------------------------------------------------------------------------
(***************************************************************************)
(* Decisions: evaluateSeries in the two directions, and the gates.         *)
(***************************************************************************)
\* GET /wanted/cutoff, by season, for the monitored episodes or the others.
Wanted(s, monitored) == \E e \in EpisodesOf(s) : e \in below /\ mon[e] = monitored

\* A season the forward pass would unmonitor.  An episode below the cutoff that
\* somebody has unmonitored does not stand in its way.
WouldUnmonitor(s) ==
  /\ series.monitored /\ ~series.tagged /\ series.flags[s]
  /\ ready[s] /\ ~Wanted(s, TRUE) /\ scores[s]

\* recoveryCandidate: every episode of it is already unmonitored.
RecoveryCandidate(s) == \A e \in EpisodesOf(s) : ~mon[e]

\* A reverse finding on the read x: an unmonitored season that fails the
\* criteria, or one with a monitored episode inside.
ReverseFinding(x, s, unmet) ==
  /\ ~x.series.tagged /\ ~x.series.flags[s]
  /\ x.ready[s] /\ ready[s]
  /\ unmet \/ ~scores[s] \/ \E e \in EpisodesOf(s) : mon[e]

\* Mutant of ForwardJobs: no recovery pass.
ForwardJobsUngated(g) ==
  {[season |-> s, to |-> FALSE, recoveryOnly |-> FALSE, unmet |-> FALSE] :
     s \in {s \in Seasons : WouldUnmonitor(s) /\ g.forward = "open"}}

ForwardJobs(g) ==
  {[season |-> s, to |-> FALSE, recoveryOnly |-> g.forward = "recovery", unmet |-> FALSE] :
     s \in {s \in Seasons : /\ WouldUnmonitor(s)
                            /\ \/ g.forward = "open"
                               \/ g.forward = "recovery" /\ RecoveryCandidate(s)}}

\* remonitorSeasons: nothing under an unmonitored series.
ReverseJobs(x, g) ==
  {[season |-> s, to |-> TRUE, recoveryOnly |-> FALSE, unmet |-> Wanted(s, FALSE)] :
     s \in {s \in Seasons : /\ g.reverse /\ x.series.monitored
                            /\ ReverseFinding(x, s, Wanted(s, FALSE))}}

\* The sweep reads the library, decides and cross-checks.
SweepForward ==
  /\ Sweep \in Writers /\ stage = "idle"
  /\ \E g \in Gates :
       /\ gate' = g
       /\ jobs' = [jobs EXCEPT ![Sweep] = ForwardJobs(g)]
  /\ lib' = Read
  /\ stage' = "forward"
  /\ UNCHANGED <<server, dryRun, op, result, late, bounds>>

\* The forward pass over, the reverse pass evaluates the library as it was read
\* before, with the wanted list and the episodes as they are now.
SweepReverse ==
  /\ stage = "forward" /\ jobs[Sweep] = {} /\ op[Sweep] = NoOp
  /\ jobs' = [jobs EXCEPT ![Sweep] = ReverseJobs(lib, gate)]
  /\ stage' = "reverse"
  /\ lib' = NoRead /\ gate' = Shut
  /\ UNCHANGED <<server, dryRun, op, result, late, bounds>>

SweepEnd ==
  /\ stage = "reverse" /\ jobs[Sweep] = {} /\ op[Sweep] = NoOp
  /\ stage' = "idle"
  /\ UNCHANGED <<server, dryRun, lib, gate, jobs, op, result, late, bounds>>

\* Someone clicks "re-monitor" on season s: the evaluation is run anew, with
\* forward writes suppressed, and ends in at most this one write.
Click(s) ==
  /\ Action \in Writers /\ jobs[Action] = {} /\ op[Action] = NoOp
  /\ \E g \in Gates :
       jobs' = [jobs EXCEPT ![Action] = {j \in ReverseJobs(Read, g) : j.season = s}]
  /\ jobs'[Action] # {}
  /\ UNCHANGED <<server, control, op, result, late, bounds>>

-----------------------------------------------------------------------------
(***************************************************************************)
(* writeSeasonMonitored, call by call.                                     *)
(***************************************************************************)
Start(w) ==
  /\ op[w] = NoOp
  /\ \E j \in jobs[w] :
       op' = [op EXCEPT ![w] =
                [at |-> "series", job |-> j, snap |-> Read, ids |-> {},
                 before |-> <<series, mon>>]]
  /\ result' = [result EXCEPT ![w] = "none"]
  /\ UNCHANGED <<server, control, jobs, late, bounds>>

Target(w) == op[w].job.to
Season(w) == op[w].job.season

\* The operation ends with outcome r, and its season is not tried again.
Finish(w, r) ==
  /\ op' = [op EXCEPT ![w] = NoOp]
  /\ jobs' = [jobs EXCEPT ![w] = @ \ {op[w].job}]
  /\ result' = [result EXCEPT ![w] = r]

Goto(w, step) ==
  /\ op' = [op EXCEPT ![w].at = step]
  /\ UNCHANGED <<jobs, result>>

At(w, step) == op[w].at = step /\ UNCHANGED <<ready, below, scores, control, bounds>>

\* Any read fails.
ReadFails(w) ==
  /\ \E step \in {"series", "episodes", "reread"} : At(w, step)
  /\ Finish(w, "error")
  /\ UNCHANGED <<series, mon, late>>

\* Mutant of SeriesWritable: the exclusion tag is not checked again.
SeriesWritableTagged(w) ==
  series.monitored /\ series.flags[Season(w)] # Target(w)

\* What the pre-write read of the series must show.
SeriesWritable(w) ==
  ~series.tagged /\ series.monitored /\ series.flags[Season(w)] # Target(w)

GetSeries(w) ==
  /\ At(w, "series")
  /\ IF SeriesWritable(w)
       THEN /\ op' = [op EXCEPT ![w].at = "episodes", ![w].snap = Read]
            /\ UNCHANGED <<jobs, result>>
       ELSE Finish(w, "refused")
  /\ UNCHANGED <<series, mon, late>>

\* Mutant of Proceed: a reverse write finishes whatever episodes are left.
ProceedUnclean(w, ids) ==
  IF op[w].job.recoveryOnly /\ ids # {}
    THEN Finish(w, "refused")
  ELSE IF dryRun
    THEN Finish(w, "withheld")
  ELSE /\ op' = [op EXCEPT ![w].at = IF ids = {} THEN "season" ELSE "put", ![w].ids = ids]
       /\ UNCHANGED <<jobs, result>>

\* Mutant of Proceed: no episode to write is taken for nothing to do.
ProceedNothingToDo(w, ids) ==
  IF \/ Target(w) /\ ids # EpisodesOf(Season(w))
     \/ ids = {}
    THEN Finish(w, "refused")
  ELSE IF dryRun
    THEN Finish(w, "withheld")
  ELSE /\ op' = [op EXCEPT ![w].at = "put", ![w].ids = ids]
       /\ UNCHANGED <<jobs, result>>

\* The clean-season mandate, the recovery verdict and the dry-run gates, in
\* that order, over the episodes still to be written.
Proceed(w, ids) ==
  IF \/ Target(w) /\ ids # EpisodesOf(Season(w))
     \/ op[w].job.recoveryOnly /\ ids # {}
    THEN Finish(w, "refused")
  ELSE IF dryRun
    THEN Finish(w, "withheld")
  ELSE /\ op' = [op EXCEPT ![w].at = IF ids = {} THEN "season" ELSE "put", ![w].ids = ids]
       /\ UNCHANGED <<jobs, result>>

Unwritten(w) == {e \in EpisodesOf(Season(w)) : mon[e] # Target(w)}

\* Mutant of StillReady: what the sweep decided on is not checked again.
AssumedReady(w) == TRUE

\* The completeness and airing guards compare the series read before with the
\* episodes read now.
StillReady(w) == op[w].snap.ready[Season(w)] /\ ready[Season(w)]

GetEpisodes(w) ==
  /\ At(w, "episodes")
  /\ IF ~StillReady(w)
       THEN Finish(w, "refused")
     ELSE IF Target(w)
       THEN /\ op' = [op EXCEPT ![w].at = "verify", ![w].ids = Unwritten(w)]
            /\ UNCHANGED <<jobs, result>>
     ELSE Proceed(w, Unwritten(w))
  /\ UNCHANGED <<series, mon, late>>

\* verifySeasonStillAReverseFinding: the criteria once more, on fresh data
\* (which may turn out unreadable) but with the pass's own wanted list.
Verify(w) ==
  /\ At(w, "verify")
  /\ \/ /\ ReverseFinding(op[w].snap, Season(w), op[w].job.unmet)
        /\ Proceed(w, op[w].ids)
     \/ Finish(w, "refused")
  /\ UNCHANGED <<series, mon, late>>

Monitored(done, to) == [e \in Episodes |-> IF e \in done THEN to ELSE mon[e]]

\* The request times out and will arrive later, if at all.
TimesOut(w, request) ==
  /\ Cardinality(late) < MaxLate
  /\ late' = late \cup {request}
  /\ Finish(w, "error")
  /\ UNCHANGED <<series, mon>>

\* Mutant of PutEpisodes: an unreadable answer counts as a confirmation.
PutEpisodesTrusting(w) ==
  /\ At(w, "put")
  /\ \E done \in SUBSET op[w].ids :
       /\ mon' = Monitored(done, Target(w))
       /\ Finish(w, "error") \/ Goto(w, "season")
  /\ UNCHANGED <<series, late>>

\* PUT /episode/monitor, as Sonarr and the network may treat it: some of the
\* episodes named are set, and the answer arrives or does not. What a readable
\* answer says is true.
PutEpisodes(w) ==
  /\ At(w, "put")
  /\ \/ /\ \E done \in SUBSET op[w].ids :
             /\ mon' = Monitored(done, Target(w))
             /\ \/ Finish(w, "error")                     \* none, an error or a denial
                \/ Goto(w, "reread")                      \* unreadable
                \/ done = op[w].ids /\ Goto(w, "season")  \* confirmed
        /\ UNCHANGED <<series, late>>
     \/ TimesOut(w, [to |-> Target(w), ids |-> op[w].ids])

\* Mutant of ReRead: one episode is taken for all of them.
ReReadOne(w) ==
  /\ At(w, "reread")
  /\ IF \E e \in op[w].ids : mon[e] = Target(w)
       THEN Goto(w, "season")
       ELSE Finish(w, "error")
  /\ UNCHANGED <<series, mon, late>>

\* confirmEpisodeMonitorByReRead.
ReRead(w) ==
  /\ At(w, "reread")
  /\ IF \A e \in op[w].ids : mon[e] = Target(w)
       THEN Goto(w, "season")
       ELSE Finish(w, "error")
  /\ UNCHANGED <<series, mon, late>>

\* Mutant of Assembled: the flag of every season is set.
AssembledForAll(w) ==
  [op[w].snap.series EXCEPT !.flags = [s \in Seasons |-> Target(w)]]

\* The object the season write puts back: the one read before, one flag changed.
Assembled(w) == [op[w].snap.series EXCEPT !.flags[Season(w)] = Target(w)]

\* Mutant of Completed: an outcome the pass does not know.
CompletedInPart(w) == IF op[w].ids # EpisodesOf(Season(w)) THEN "partial" ELSE "written"

Completed(w) == IF ~Target(w) /\ op[w].ids = {} THEN "recovered" ELSE "written"

PutSeason(w) ==
  /\ At(w, "season")
  /\ \/ /\ series' = Assembled(w)
        /\ \E r \in {"error", "unverified", Completed(w)} : Finish(w, r)
        /\ UNCHANGED <<mon, late>>
     \/ /\ \E r \in {"error", "unverified"} : Finish(w, r)
        /\ UNCHANGED <<series, mon, late>>
     \/ TimesOut(w, [object |-> Assembled(w)])

Step(w) ==
  \/ Start(w) \/ ReadFails(w) \/ GetSeries(w) \/ GetEpisodes(w) \/ Verify(w)
  \/ PutEpisodes(w) \/ ReRead(w) \/ PutSeason(w)

-----------------------------------------------------------------------------
(***************************************************************************)
(* Everything else that happens.                                           *)
(***************************************************************************)
Edit ==
  /\ edits < MaxEdits
  /\ edits' = edits + 1
  /\ UNCHANGED <<control, jobs, op, result, late, crashes>>

\* A person (un)monitors the series, tags it, or flips a season or an episode.
EditSeries ==
  /\ Edit
  /\ \/ series' = [series EXCEPT !.monitored = ~@] /\ UNCHANGED mon
     \/ series' = [series EXCEPT !.tagged = ~@] /\ UNCHANGED mon
     \/ \E s \in Seasons :
          /\ series' = [series EXCEPT !.flags[s] = ~@]
          /\ mon' = [e \in Episodes |-> IF SeasonOf[e] = s THEN series'.flags[s] ELSE mon[e]]
     \/ \E e \in Episodes : mon' = [mon EXCEPT ![e] = ~@] /\ UNCHANGED series
  /\ UNCHANGED <<ready, below, scores>>

\* A file arrives or goes, or a new episode is announced.
LibraryChanges ==
  /\ Edit
  /\ \/ \E s \in Seasons : ready' = [ready EXCEPT ![s] = ~@] /\ UNCHANGED <<below, scores>>
     \/ \E s \in Seasons : scores' = [scores EXCEPT ![s] = ~@] /\ UNCHANGED <<ready, below>>
     \/ \E e \in Episodes : /\ below' = IF e \in below THEN below \ {e} ELSE below \cup {e}
                            /\ UNCHANGED <<ready, scores>>
  /\ UNCHANGED <<series, mon, late>>

\* A write that timed out reaches Sonarr after all, in whole or in part.
LateArrives ==
  /\ \E r \in late :
       /\ late' = late \ {r}
       /\ \/ /\ r \notin [object : Series]
             /\ \E done \in SUBSET r.ids : mon' = Monitored(done, r.to)
             /\ UNCHANGED series
          \/ /\ r \in [object : Series]
             /\ series' = r.object
             /\ UNCHANGED mon
  /\ UNCHANGED <<ready, below, scores, control, jobs, op, result, bounds>>

\* The program is killed, and started again with nothing remembered. What it has
\* sent stays on its way.
Crash ==
  /\ crashes < MaxCrashes
  /\ crashes' = crashes + 1
  /\ stage' = "idle" /\ lib' = NoRead /\ gate' = Shut
  /\ jobs' = [w \in Writers |-> {}]
  /\ op' = [w \in Writers |-> NoOp]
  /\ result' = [w \in Writers |-> "none"]
  /\ UNCHANGED <<server, dryRun, late, edits>>

-----------------------------------------------------------------------------
(***************************************************************************)
(* The history, kept beside every step.                                    *)
(***************************************************************************)
Writable     == series.monitored /\ ~series.tagged
ReadySeasons == {s \in Seasons : ready[s]}

\* The seasons this step changes.
Changed ==
  {s \in Seasons :
     \/ series'.flags[s] # series.flags[s] \/ ready'[s] # ready[s] \/ scores'[s] # scores[s]
     \/ \E e \in EpisodesOf(s) : mon'[e] # mon[e] \/ (e \in below' <=> e \notin below)}

\* A step of nobody in the program, or of an operation that has met an outsider.
Outside(actors) == \A v \in actors : seen[v].met = "outsider"

\* Whom w's operation has met after a step that others take.
Meets(w, actors) ==
  IF server' = server THEN seen[w].met
  ELSE IF seen[w].met = "outsider" \/ Outside(actors) THEN "outsider"
  ELSE "writer"

\* actors: the writer that takes the step, or nobody.
Watched(actors) ==
  seen' = [w \in Writers |->
    IF op'[w] = NoOp THEN Blank
    ELSE IF op[w] = NoOp THEN [Blank EXCEPT !.writable = Writable', !.ready = ReadySeasons']
    ELSE [writable |-> seen[w].writable \/ Writable',
          ready    |-> seen[w].ready \cup ReadySeasons',
          touched  |-> seen[w].touched \cup IF w \in actors THEN {} ELSE Changed,
          met      |-> IF w \in actors THEN seen[w].met ELSE Meets(w, actors)]]

OthersNext ==
  \/ SweepForward \/ SweepReverse \/ SweepEnd
  \/ \E s \in Seasons : Click(s)
  \/ EditSeries \/ LibraryChanges \/ LateArrives \/ Crash

Next ==
  \/ OthersNext /\ Watched({})
  \/ \E w \in Writers : Step(w) /\ Watched({w})

Safety == Init /\ [][Next]_vars

(***************************************************************************)
(* Sweeps are repeated, and every request ends.  An instance that is asked *)
(* again and again about one season answers at times.  What its data makes *)
(* of the cross-check is a premise of each liveness property.              *)
(***************************************************************************)
Opens(forward) == SweepForward /\ gate'.forward = forward
Unmonitoring(s) == op[Sweep] # NoOp /\ Season(Sweep) = s /\ ~Target(Sweep)
Confirmed == PutEpisodes(Sweep) /\ op'[Sweep].at = "season"
Succeeds  == PutSeason(Sweep) /\ result'[Sweep] \in {"written", "recovered"}

Fairness ==
  /\ WF_work(SweepForward) /\ WF_work(SweepReverse) /\ WF_work(SweepEnd) /\ WF_work(Step(Sweep))
  /\ \A s \in Seasons :
       /\ SF_work(Unmonitoring(s) /\ GetSeries(Sweep))
       /\ SF_work(Unmonitoring(s) /\ GetEpisodes(Sweep))
       /\ SF_work(Unmonitoring(s) /\ Confirmed)
       /\ SF_work(Unmonitoring(s) /\ Succeeds)

Spec == Safety /\ Fairness

-----------------------------------------------------------------------------
(***************************************************************************)
(* Properties.  People, imports, the other writer and requests that arrive *)
(* late may interfere at any moment; each property says what it still      *)
(* promises then.                                                          *)
(***************************************************************************)
Writes(w)     == PutEpisodes(w) \/ PutSeason(w)
Unmonitors(s) == series.flags[s] /\ ~series'.flags[s]
Remonitors(s) == ~series.flags[s] /\ series'.flags[s]

\* No operation unmonitors its season while an episode of it is still
\* monitored, unless somebody has been at that season meanwhile: no later pass
\* would ever look at that episode again.
NeverStrands ==
  [][\A w \in Writers :
       PutSeason(w) /\ Unmonitors(Season(w)) /\ Season(w) \notin seen[w].touched =>
         \A e \in EpisodesOf(Season(w)) : ~mon[e]]_vars

\* No write is sent in a dry run, nor to a series that has been excluded, or
\* unmonitored, from the operation's first moment on, whoever interferes.
RespectsTheSeries == [][\A w \in Writers : Writes(w) => ~dryRun /\ seen[w].writable]_vars

\* No write is sent about a season that has been incomplete, or has had an
\* episode still to air, all through the operation.
WritesOnlyReady == [][\A w \in Writers : Writes(w) => Season(w) \in seen[w].ready]_vars

\* What an operation re-monitors, it found without a monitored episode (a mixed
\* state is somebody's own) and leaves with every episode monitored, and the next
\* forward pass does not undo it, unless the wanted list the pass had read was
\* overtaken by an upgrade, or somebody has been at that season meanwhile.
RepairsOnlyCleanFailing ==
  [][\A w \in Writers, s \in Seasons :
       PutSeason(w) /\ Season(w) = s /\ Target(w) /\ Remonitors(s) /\ s \notin seen[w].touched =>
         /\ WouldUnmonitor(s)' => op[w].job.unmet /\ EpisodesOf(s) \cap below = {}
         /\ \A e \in EpisodesOf(s) : ~op[w].before[2][e] /\ mon[e]]_vars

\* What is counted is what happened, wherever nobody else has interfered: a
\* refused or withheld operation changed nothing, a written one left its flag and
\* every episode as asked, and a recovered one found every episode as it had to be.
OutcomeIsTrue ==
  [][\A w \in Writers, s \in Seasons :
       op[w] # NoOp /\ op'[w] = NoOp /\ s \notin seen[w].touched =>
         /\ result'[w] \in {"refused", "withheld"} =>
              /\ series'.flags[s] = op[w].before[1].flags[s]
              /\ \A e \in EpisodesOf(s) : mon'[e] = op[w].before[2][e]
         /\ result'[w] \in {"written", "recovered"} /\ s = Season(w) =>
              /\ series'.flags[s] = Target(w)
              /\ \A e \in EpisodesOf(s) : mon'[e] = Target(w)
         /\ result'[w] = "recovered" /\ s = Season(w) =>
              \A e \in EpisodesOf(s) : ~op[w].before[2][e]]_vars

\* The season write puts the whole series back and still reverts nothing but what
\* somebody has changed during the operation; what it sets in its own season is
\* what was asked. If only writers of this program were about, the series' own
\* fields stay, and a season that is unmonitored by putting back its flag was at
\* least complete and aired meanwhile.
RevertsOnlyConcurrent ==
  [][\A w \in Writers : PutSeason(w) =>
       /\ \A s \in Seasons : series'.flags[s] # series.flags[s] =>
            \/ s = Season(w) /\ series'.flags[s] = Target(w)
            \/ s # Season(w) /\ s \in seen[w].touched
       /\ seen[w].met # "outsider" =>
            /\ series'.monitored = series.monitored /\ series'.tagged = series.tagged
            /\ \A s \in Seasons : Unmonitors(s) => s \in seen[w].ready]_vars

\* Each PUT changes one value and preserves everything else.
OneValuePerPut ==
  [][\A w \in Writers : PutSeason(w) =>
       \/ series' = series
       \/ series' = [series EXCEPT !.flags[Season(w)] = Target(w)]]_vars

\* A season the program has just unmonitored meets the criteria, so the reverse
\* pass has nothing to say of it.
OwnOutputIsNoFinding ==
  [][\A w \in Writers, s \in Seasons :
       PutSeason(w) /\ Unmonitors(s) => ~ReverseFinding(Read, s, Wanted(s, FALSE))']_vars

\* Crashes, lost answers and half-done writes notwithstanding, a season that
\* stays fit to be unmonitored ends up unmonitored, if the cross-check passes
\* again and again with enough evidence.
ForwardConverges ==
  SF_work(Opens("open")) =>
    \A s \in Seasons : (~dryRun /\ WouldUnmonitor(s)) ~> ~WouldUnmonitor(s)

HalfDone(s) == ~dryRun /\ WouldUnmonitor(s) /\ RecoveryCandidate(s)

\* Also when the ordinary gate never opens, a season whose episodes have all
\* been unmonitored is finished, as the recovery path is built for.
RecoveryConverges ==
  SF_work(Opens("recovery")) => \A s \in Seasons : HalfDone(s) ~> ~HalfDone(s)
=============================================================================
