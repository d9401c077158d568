------------------------- MODULE SeasonWriterProofs -------------------------
(***************************************************************************)
(* Theorems about SeasonWriter, for any seasons and episodes, one writer   *)
(* or two, any outcomes of the cross-check, and any number of edits, late  *)
(* writes and crashes, at any moment.                                      *)
(***************************************************************************)
EXTENDS SeasonWriter, TLAPS

USE SeasonsAssumption, SeasonOfAssumption, WritersAssumption, BoundsAssumption, GatesAssumption

-----------------------------------------------------------------------------
(***************************************************************************)
(* Types.                                                                  *)
(***************************************************************************)
ServerType ==
  /\ series \in Series
  /\ mon \in [Episodes -> BOOLEAN]
  /\ below \subseteq Episodes
  /\ ready \in [Seasons -> BOOLEAN] /\ scores \in [Seasons -> BOOLEAN]
  /\ edits \in 0 .. MaxEdits /\ crashes \in 0 .. MaxCrashes

SweepType ==
  /\ lib \in Reads \cup {NoRead}
  /\ dryRun \in BOOLEAN
  /\ stage \in {"idle", "forward", "reverse"}
  /\ gate \in AllGates

WriterType ==
  /\ jobs \in [Writers -> SUBSET Jobs]
  /\ op \in [Writers -> {NoOp} \cup Ops]
  /\ result \in [Writers -> Outcomes]

WireType == late \subseteq Requests

SightType == seen \in [Writers -> Sights]

LEMMA TypeParts ==
  TypeOK <=> ServerType /\ SweepType /\ WriterType /\ WireType /\ SightType
BY DEF TypeOK, ServerType, SweepType, WriterType, WireType, SightType

LEMMA ReadType == ASSUME ServerType PROVE Read \in Reads
BY DEF ServerType, Read, Reads

LEMMA BlankType == Blank \in Sights
BY DEF Blank, Sights

LEMMA InitTyped == Init => TypeOK
BY BlankType DEF Init, TypeOK, Series, Shut, AllGates, NoRead, NoOp, Outcomes

\* An operation that is somewhere is one.
LEMMA Busy ==
  ASSUME WriterType, NEW w \in Writers, op[w] # NoOp \/ op[w].at # "none"
  PROVE  op[w] \in Ops
BY DEF WriterType, NoOp

LEMMA OpFields ==
  ASSUME NEW x \in Ops
  PROVE  /\ x.job \in Jobs /\ x.snap \in Reads /\ x.ids \subseteq Episodes
         /\ x.job.season \in Seasons /\ x.job.to \in BOOLEAN
         /\ x.snap.series \in Series /\ x.snap.ready \in [Seasons -> BOOLEAN]
         /\ x.before \in Series \X [Episodes -> BOOLEAN]
BY DEF Ops, Jobs, Reads

LEMMA FinishTyped ==
  ASSUME WriterType, NEW w \in Writers, NEW r \in Outcomes, Finish(w, r)
  PROVE  WriterType'
BY DEF WriterType, Finish, NoOp

LEMMA GotoTyped ==
  ASSUME WriterType, NEW w \in Writers, op[w] \in Ops, Goto(w, "reread") \/ Goto(w, "season")
  PROVE  WriterType'
<1>1. PICK s \in {"reread", "season"} : Goto(w, s)
  OBVIOUS
<1>2. [op[w] EXCEPT !.at = s] \in Ops
  BY DEF Ops
<1> QED BY <1>1, <1>2 DEF WriterType, Goto

LEMMA ProceedTyped ==
  ASSUME WriterType, NEW w \in Writers, op[w] \in Ops, NEW ids \in SUBSET Episodes,
         Proceed(w, ids)
  PROVE  WriterType'
<1>1. CASE Finish(w, "refused") \/ Finish(w, "withheld")
  BY <1>1, FinishTyped DEF Outcomes
<1>2. CASE /\ op' = [op EXCEPT ![w].at = IF ids = {} THEN "season" ELSE "put", ![w].ids = ids]
           /\ UNCHANGED <<jobs, result>>
  <2>1. [op[w] EXCEPT !.at = IF ids = {} THEN "season" ELSE "put", !.ids = ids] \in Ops
    BY DEF Ops
  <2> QED BY <1>2, <2>1 DEF WriterType
<1> QED BY <1>1, <1>2 DEF Proceed

\* The jobs a sweep or a click may have.
LEMMA JobsTyped ==
  ASSUME NEW g, NEW x
  PROVE  /\ ForwardJobs(g) \subseteq Jobs
         /\ ReverseJobs(x, g) \subseteq Jobs
<1>1. \A s \in Seasons, m \in BOOLEAN : Wanted(s, m) \in BOOLEAN
  BY DEF Wanted
<1>2. (g.forward = "recovery") \in BOOLEAN
  OBVIOUS
<1>3. \A s \in Seasons, to \in BOOLEAN, r \in BOOLEAN, u \in BOOLEAN :
        [season |-> s, to |-> to, recoveryOnly |-> r, unmet |-> u] \in Jobs
  BY DEF Jobs
<1>4. ASSUME NEW j \in ForwardJobs(g) PROVE j \in Jobs
  <2>1. PICK s \in Seasons :
          j = [season |-> s, to |-> FALSE, recoveryOnly |-> g.forward = "recovery",
               unmet |-> FALSE]
    BY Zenon DEF ForwardJobs
  <2> QED BY Zenon, <1>2, <1>3, <2>1
<1>5. ASSUME NEW j \in ReverseJobs(x, g) PROVE j \in Jobs
  <2>1. PICK s \in Seasons :
          j = [season |-> s, to |-> TRUE, recoveryOnly |-> FALSE, unmet |-> Wanted(s, FALSE)]
    BY Zenon DEF ReverseJobs
  <2> QED BY Zenon, <1>1, <1>3, <2>1
<1> QED BY <1>4, <1>5

\* What a write on the wire says, and what becomes of the episodes.
LEMMA RequestFields ==
  ASSUME NEW r \in Requests
  PROVE  /\ r \notin [object : Series] => r.to \in BOOLEAN /\ r.ids \subseteq Episodes
         /\ r \in [object : Series] => r.object \in Series
BY DEF Requests

LEMMA MonitoredTyped ==
  ASSUME ServerType, NEW done \in SUBSET Episodes, NEW to \in BOOLEAN
  PROVE  Monitored(done, to) \in [Episodes -> BOOLEAN]
BY DEF ServerType, Monitored

LEMMA TimesOutTyped ==
  ASSUME WriterType, NEW w \in Writers, NEW r, TimesOut(w, r)
  PROVE  WriterType'
BY FinishTyped DEF TimesOut, Outcomes

\* The server's steps.
LEMMA ServerTyped ==
  ASSUME ServerType, WriterType, WireType, [Next]_vars
  PROVE  ServerType'
<1> USE DEF ServerType
<1>1. CASE UNCHANGED <<server, bounds>>
  BY <1>1 DEF server, bounds
<1>2. CASE \E w \in Writers : PutEpisodes(w)
  <2>1. PICK w \in Writers : PutEpisodes(w)
    BY <1>2
  <2>2. op[w] \in Ops
    BY <2>1, Busy DEF PutEpisodes, At
  <2>3. Target(w) \in BOOLEAN /\ op[w].ids \subseteq Episodes
    BY <2>2, OpFields DEF Target
  <2>4. mon' \in [Episodes -> BOOLEAN]
    BY <2>1, <2>3, MonitoredTyped DEF PutEpisodes, TimesOut
  <2>5. UNCHANGED series
    BY <2>1 DEF PutEpisodes, TimesOut
  <2> QED BY <2>1, <2>4, <2>5 DEF PutEpisodes, At, bounds
<1>3. CASE \E w \in Writers : PutSeason(w)
  <2>1. PICK w \in Writers : PutSeason(w)
    BY <1>3
  <2>2. op[w] \in Ops
    BY <2>1, Busy DEF PutSeason, At
  <2>3. /\ Target(w) \in BOOLEAN /\ op[w].snap.series \in Series
        /\ Season(w) \in Seasons
    BY <2>2, OpFields DEF Target, Season
  <2>4. Assembled(w) \in Series
    BY <2>3 DEF Assembled, Series
  <2>5. series' \in Series /\ UNCHANGED mon
    BY <2>1, <2>4 DEF PutSeason, TimesOut
  <2> QED BY <2>1, <2>5 DEF PutSeason, At, bounds
<1>4. CASE EditSeries
  <2>1. edits' \in 0 .. MaxEdits /\ crashes' = crashes
    BY <1>4 DEF EditSeries, Edit
  <2>2. series' \in Series /\ mon' \in [Episodes -> BOOLEAN]
    <3>1. CASE series' = [series EXCEPT !.monitored = ~@] /\ UNCHANGED mon
      BY <3>1 DEF Series
    <3>2. CASE series' = [series EXCEPT !.tagged = ~@] /\ UNCHANGED mon
      BY <3>2 DEF Series
    <3>3. CASE \E s \in Seasons :
                 /\ series' = [series EXCEPT !.flags[s] = ~@]
                 /\ mon' = [e \in Episodes |->
                              IF SeasonOf[e] = s THEN series'.flags[s] ELSE mon[e]]
      <4>1. PICK s \in Seasons :
                 /\ series' = [series EXCEPT !.flags[s] = ~@]
                 /\ mon' = [e \in Episodes |->
                              IF SeasonOf[e] = s THEN series'.flags[s] ELSE mon[e]]
        BY <3>3
      <4>2. series' \in Series
        BY <4>1 DEF Series
      <4>3. series'.flags[s] \in BOOLEAN
        BY <4>2 DEF Series
      <4> QED BY <4>1, <4>2, <4>3
    <3>4. CASE \E e \in Episodes : mon' = [mon EXCEPT ![e] = ~@] /\ UNCHANGED series
      BY <3>4
    <3> QED BY <1>4, <3>1, <3>2, <3>3, <3>4 DEF EditSeries
  <2> QED BY <1>4, <2>1, <2>2 DEF EditSeries
<1>5. CASE LibraryChanges
  <2>1. edits' \in 0 .. MaxEdits /\ crashes' = crashes
    BY <1>5 DEF LibraryChanges, Edit
  <2> QED BY <1>5, <2>1 DEF LibraryChanges
<1>6. CASE Crash
  BY <1>6 DEF Crash, server
<1>7. CASE LateArrives
  <2>1. PICK r \in late :
          \/ /\ r \notin [object : Series]
             /\ \E done \in SUBSET r.ids : mon' = Monitored(done, r.to)
             /\ UNCHANGED series
          \/ /\ r \in [object : Series]
             /\ series' = r.object
             /\ UNCHANGED mon
    BY <1>7 DEF LateArrives
  <2>2. r \in Requests
    BY <2>1 DEF WireType
  <2>3. series' \in Series /\ mon' \in [Episodes -> BOOLEAN]
    <3>1. CASE r \notin [object : Series]
      <4>1. PICK done \in SUBSET r.ids : mon' = Monitored(done, r.to)
        BY <2>1, <3>1
      <4>2. done \in SUBSET Episodes /\ r.to \in BOOLEAN
        BY <2>2, <3>1, <4>1, RequestFields
      <4> QED BY <2>1, <3>1, <4>1, <4>2, MonitoredTyped
    <3>2. CASE r \in [object : Series]
      BY <2>1, <2>2, <3>2, RequestFields
    <3> QED BY <3>1, <3>2
  <2> QED BY <1>7, <2>3 DEF LateArrives, bounds
<1> QED BY <1>1, <1>2, <1>3, <1>4, <1>5, <1>6, <1>7
        DEF Next, OthersNext, Step, vars, work, server, bounds, SweepForward, SweepReverse, SweepEnd, Click,
            Start, ReadFails, GetSeries, GetEpisodes, Verify, ReRead, At

LEMMA SweepTyped ==
  ASSUME ServerType, SweepType, [Next]_vars
  PROVE  SweepType'
<1> USE DEF SweepType
<1>1. CASE UNCHANGED control
  BY <1>1 DEF control
<1>2. CASE SweepForward
  BY <1>2, ReadType DEF SweepForward
<1>3. Shut \in AllGates
  BY DEF Shut, AllGates
<1>4. CASE SweepReverse
  BY <1>3, <1>4 DEF SweepReverse
<1>5. CASE SweepEnd
  BY <1>5 DEF SweepEnd
<1>6. CASE Crash
  BY <1>3, <1>6 DEF Crash
<1> QED BY <1>1, <1>2, <1>4, <1>5, <1>6
        DEF Next, OthersNext, Step, vars, work, control, Click, Start, ReadFails, GetSeries,
            GetEpisodes, Verify, PutEpisodes, ReRead, PutSeason, At, EditSeries, LibraryChanges,
            Edit, LateArrives

LEMMA WriterTyped ==
  ASSUME ServerType, SweepType, WriterType, [Next]_vars
  PROVE  WriterType'
<1>1. CASE UNCHANGED <<jobs, op, result>>
  BY <1>1 DEF WriterType
<1>2. CASE SweepForward
  BY <1>2, JobsTyped DEF SweepForward, WriterType
<1>3. CASE SweepReverse
  BY <1>3, JobsTyped DEF SweepReverse, WriterType
<1>4. CASE \E s \in Seasons : Click(s)
  <2>1. PICK s \in Seasons : Click(s)
    BY <1>4
  <2>2. PICK g \in Gates :
          jobs' = [jobs EXCEPT ![Action] = {j \in ReverseJobs(Read, g) : j.season = s}]
    BY <2>1 DEF Click
  <2>3. {j \in ReverseJobs(Read, g) : j.season = s} \subseteq Jobs
    BY JobsTyped
  <2> QED BY <2>1, <2>2, <2>3 DEF Click, WriterType
<1>5. ASSUME NEW w \in Writers, Step(w) PROVE WriterType'
  <2>0. ASSUME op[w].at # "none" PROVE op[w] \in Ops
    BY <2>0, Busy
  <2>1. CASE Start(w)
    <3>1. PICK j \in jobs[w] :
            op' = [op EXCEPT ![w] =
                     [at |-> "series", job |-> j, snap |-> Read, ids |-> {},
                      before |-> <<series, mon>>]]
      BY <2>1 DEF Start
    <3>2. j \in Jobs
      BY <3>1 DEF WriterType
    <3>3. [at |-> "series", job |-> j, snap |-> Read, ids |-> {},
           before |-> <<series, mon>>] \in Ops
      BY <3>2, ReadType DEF Ops, ServerType
    <3>4. "none" \in Outcomes
      BY DEF Outcomes
    <3> QED BY <2>1, <3>1, <3>3, <3>4 DEF Start, WriterType
  <2>2. CASE ReadFails(w)
    BY <2>2, FinishTyped DEF ReadFails, Outcomes
  <2>3. CASE GetSeries(w)
    <3>1. op[w] \in Ops
      BY <2>0, <2>3 DEF GetSeries, At
    <3>2. [op[w] EXCEPT !.at = "episodes", !.snap = Read] \in Ops
      BY <3>1, ReadType DEF Ops
    <3> QED BY <2>3, <3>2, FinishTyped DEF GetSeries, WriterType, Outcomes
  <2>4. CASE GetEpisodes(w)
    <3>1. op[w] \in Ops
      BY <2>0, <2>4 DEF GetEpisodes, At
    <3>2. Unwritten(w) \subseteq Episodes
      BY DEF Unwritten, EpisodesOf
    <3>3. [op[w] EXCEPT !.at = "verify", !.ids = Unwritten(w)] \in Ops
      BY <3>1, <3>2 DEF Ops
    <3>4. CASE Finish(w, "refused")
      BY <3>4, FinishTyped DEF Outcomes
    <3>5. CASE Proceed(w, Unwritten(w))
      BY <3>1, <3>2, <3>5, ProceedTyped
    <3>6. CASE /\ op' = [op EXCEPT ![w].at = "verify", ![w].ids = Unwritten(w)]
               /\ UNCHANGED <<jobs, result>>
      BY <3>3, <3>6 DEF WriterType
    <3> QED BY <2>4, <3>4, <3>5, <3>6 DEF GetEpisodes
  <2>5. CASE Verify(w)
    <3>1. op[w] \in Ops
      BY <2>0, <2>5 DEF Verify, At
    <3>2. op[w].ids \subseteq Episodes
      BY <3>1, OpFields
    <3> QED BY <2>5, <3>1, <3>2, FinishTyped, ProceedTyped DEF Verify, Outcomes
  <2>6. CASE PutEpisodes(w)
    <3>1. op[w] \in Ops
      BY <2>0, <2>6 DEF PutEpisodes, At
    <3> QED BY <2>6, <3>1, FinishTyped, GotoTyped, TimesOutTyped DEF PutEpisodes, Outcomes
  <2>7. CASE ReRead(w)
    <3>1. op[w] \in Ops
      BY <2>0, <2>7 DEF ReRead, At
    <3> QED BY <2>7, <3>1, FinishTyped, GotoTyped DEF ReRead, Outcomes
  <2>8. CASE PutSeason(w)
    <3>1. Completed(w) \in Outcomes
      BY DEF Completed, Outcomes
    <3> QED BY <2>8, <3>1, FinishTyped, TimesOutTyped DEF PutSeason, Outcomes
  <2> QED BY <1>5, <2>1, <2>2, <2>3, <2>4, <2>5, <2>6, <2>7, <2>8 DEF Step
<1>6. CASE Crash
  BY <1>6 DEF Crash, WriterType, Outcomes
<1> QED BY <1>1, <1>2, <1>3, <1>4, <1>5, <1>6
        DEF Next, OthersNext, vars, work, SweepEnd, EditSeries, LibraryChanges, Edit, LateArrives

\* What is on its way is a write that an operation has sent.
LEMMA WireTyped ==
  ASSUME ServerType, WriterType, WireType, [Next]_vars
  PROVE  WireType'
<1> USE DEF WireType
<1>1. CASE UNCHANGED late
  BY <1>1
<1>2. CASE LateArrives
  BY <1>2 DEF LateArrives
<1>3. CASE \E w \in Writers : PutEpisodes(w) \/ PutSeason(w)
  <2>1. PICK w \in Writers : PutEpisodes(w) \/ PutSeason(w)
    BY <1>3
  <2>2. op[w] \in Ops
    BY <2>1, Busy DEF PutEpisodes, PutSeason, At
  <2>3. [to |-> Target(w), ids |-> op[w].ids] \in Requests
    BY <2>2, OpFields DEF Target, Requests
  <2>4. Assembled(w) \in Series
    BY <2>2, OpFields DEF Assembled, Series, Season, Target
  <2>5. [object |-> Assembled(w)] \in Requests
    BY <2>4 DEF Requests
  <2> QED BY <2>1, <2>3, <2>5 DEF PutEpisodes, PutSeason, TimesOut
<1> QED BY <1>1, <1>2, <1>3
        DEF Next, OthersNext, vars, work, SweepForward, SweepReverse, SweepEnd, Click, EditSeries,
            LibraryChanges, Edit, Crash, Step, Start, ReadFails, GetSeries, GetEpisodes, Verify,
            ReRead

\* The history is kept by every step.
LEMMA SightTyped ==
  ASSUME SightType, [Next]_vars
  PROVE  SightType'
<1> USE DEF SightType
<1>1. ASSUME NEW actors, Watched(actors) PROVE SightType'
  <2>1. ASSUME NEW w \in Writers
        PROVE  [Blank EXCEPT !.writable = Writable', !.ready = ReadySeasons'] \in Sights
    <3>1. Writable' \in BOOLEAN /\ ReadySeasons' \subseteq Seasons
      BY DEF Writable, ReadySeasons
    <3> QED BY <3>1 DEF Blank, Sights
  <2>2. ASSUME NEW w \in Writers
        PROVE  [writable |-> seen[w].writable \/ Writable',
                ready    |-> seen[w].ready \cup ReadySeasons',
                touched  |-> seen[w].touched \cup IF w \in actors THEN {} ELSE Changed,
                met      |-> IF w \in actors THEN seen[w].met ELSE Meets(w, actors)] \in Sights
    <3>1. ReadySeasons' \subseteq Seasons /\ Changed \subseteq Seasons
      BY DEF ReadySeasons, Changed
    <3>2. /\ seen[w].ready \subseteq Seasons /\ seen[w].touched \subseteq Seasons
          /\ seen[w].met \in {"nobody", "writer", "outsider"}
      BY DEF Sights
    <3>3. Meets(w, actors) \in {"nobody", "writer", "outsider"}
      BY <3>2 DEF Meets
    <3>4. (seen[w].writable \/ Writable') \in BOOLEAN
      OBVIOUS
    <3> QED BY <3>1, <3>2, <3>3, <3>4 DEF Sights
  <2> QED BY <1>1, <2>1, <2>2, BlankType DEF Watched
<1> QED BY <1>1 DEF Next, vars

\* The type invariant, for any series and any writers, the requests on their way
\* included.
THEOREM TypeCorrect == Safety => []TypeOK
<1>1. TypeOK /\ [Next]_vars => TypeOK'
  BY TypeParts, ServerTyped, SweepTyped, WriterTyped, WireTyped, SightTyped
     DEF TypeOK, ServerType, SweepType, WriterType, WireType, SightType
<1> QED BY <1>1, InitTyped, PTL DEF Safety

-----------------------------------------------------------------------------
(***************************************************************************)
(* What a step means to one operation: it is its own, or it ends it, or it *)
(* leaves it as it is and is taken by others, whom the history names.      *)
(***************************************************************************)
LEMMA StepFrame ==
  ASSUME WriterType, NEW w \in Writers, Step(w)
  PROVE  /\ UNCHANGED <<ready, below, scores, control>>
         /\ \A v \in Writers \ {w} : op'[v] = op[v]
<1> USE DEF WriterType
<1>1. CASE Start(w)
  BY <1>1 DEF Start, server
<1>2. CASE ReadFails(w)
  BY <1>2 DEF ReadFails, At, Finish
<1>3. CASE GetSeries(w)
  BY <1>3 DEF GetSeries, At, Finish
<1>4. CASE GetEpisodes(w)
  BY <1>4 DEF GetEpisodes, At, Finish, Proceed
<1>5. CASE Verify(w)
  BY <1>5 DEF Verify, At, Finish, Proceed
<1>6. CASE PutEpisodes(w)
  BY <1>6 DEF PutEpisodes, TimesOut, At, Finish, Goto
<1>7. CASE ReRead(w)
  BY <1>7 DEF ReRead, At, Finish, Goto
<1>8. CASE PutSeason(w)
  BY <1>8 DEF PutSeason, TimesOut, At, Finish
<1> QED BY <1>1, <1>2, <1>3, <1>4, <1>5, <1>6, <1>7, <1>8 DEF Step

\* The flags and the episodes change in two of a writer's steps only.
LEMMA StepServer ==
  ASSUME NEW w \in Writers, Step(w)
  PROVE  /\ UNCHANGED series \/ PutSeason(w)
         /\ UNCHANGED mon \/ PutEpisodes(w)
BY DEF Step, Start, ReadFails, GetSeries, GetEpisodes, Verify, PutEpisodes, ReRead, PutSeason,
       TimesOut, server

LEMMA Roles ==
  ASSUME WriterType, [Next]_vars, NEW w \in Writers
  PROVE  /\ UNCHANGED dryRun
         /\ \/ Step(w) /\ Watched({w})
            \/ op'[w] = NoOp /\ (UNCHANGED op \/ result' = [v \in Writers |-> "none"])
            \/ op'[w] = op[w] /\ \E v \in Writers \ {w} : Step(v) /\ Watched({v})
            \/ op'[w] = op[w] /\ UNCHANGED op /\ Watched({})
            \/ UNCHANGED vars
<1>1. CASE UNCHANGED vars
  BY <1>1 DEF vars, work, control
<1>2. CASE \E v \in Writers : Step(v) /\ Watched({v})
  BY <1>2, StepFrame DEF control
<1>3. CASE OthersNext /\ Watched({})
  <2>1. CASE Crash
    BY <2>1 DEF Crash
  <2>2. CASE SweepForward \/ SweepReverse \/ SweepEnd \/ (\E s \in Seasons : Click(s))
             \/ EditSeries \/ LibraryChanges \/ LateArrives
    BY <1>3, <2>2 DEF SweepForward, SweepReverse, SweepEnd, Click, EditSeries, LibraryChanges,
                      LateArrives, Edit, control
  <2> QED BY <1>3, <2>1, <2>2 DEF OthersNext
<1> QED BY <1>1, <1>2, <1>3 DEF Next

\* The history of an operation that goes on, and of one that begins.
LEMMA SeenLater ==
  ASSUME SightType, NEW actors, Watched(actors), NEW w \in Writers, op'[w] # NoOp, op[w] # NoOp
  PROVE  /\ seen'[w].writable = (seen[w].writable \/ Writable')
         /\ seen'[w].ready = seen[w].ready \cup ReadySeasons'
         /\ w \in actors => seen'[w].touched = seen[w].touched /\ seen'[w].met = seen[w].met
         /\ w \notin actors => /\ seen'[w].touched = seen[w].touched \cup Changed
                              /\ seen'[w].met = Meets(w, actors)
BY DEF SightType, Watched

LEMMA SeenFirst ==
  ASSUME NEW actors, Watched(actors), NEW w \in Writers, op'[w] # NoOp, op[w] = NoOp
  PROVE  /\ seen'[w].writable = Writable' /\ seen'[w].ready = ReadySeasons'
         /\ seen'[w].touched = {} /\ seen'[w].met = "nobody"
BY DEF Watched, Blank

\* What does not change in a season that a step does not touch.
LEMMA Untouched ==
  ASSUME ServerType, ServerType', NEW s \in Seasons, s \notin Changed
  PROVE  /\ series'.flags[s] = series.flags[s] /\ ready'[s] = ready[s] /\ scores'[s] = scores[s]
         /\ \A e \in EpisodesOf(s) : mon'[e] = mon[e] /\ (e \in below' <=> e \in below)
BY DEF Changed

-----------------------------------------------------------------------------
(***************************************************************************)
(* What an operation has read was so at some moment since it began.        *)
(***************************************************************************)
Writing(w) == op[w].at \in {"put", "reread", "season"}
Decided(w) == Writing(w) \/ op[w].at = "verify"
Past(w)    == Decided(w) \/ op[w].at = "episodes"

\* The history holds the present moment, and what each stage of the operation
\* has gone by.
SightedBy(w) ==
  /\ op[w] # NoOp => (Writable => seen[w].writable) /\ ReadySeasons \subseteq seen[w].ready
  /\ Past(w) => seen[w].writable
  /\ Decided(w) => Season(w) \in seen[w].ready
  /\ Writing(w) => ~dryRun

Sighted == \A w \in Writers : SightedBy(w)

\* The places a writer's step can lead it to.
LEMMA OwnStep ==
  ASSUME ServerType, WriterType, NEW w \in Writers, Step(w)
  PROVE  \/ op'[w] = NoOp
         \/ op[w] = NoOp /\ op'[w].at = "series" /\ UNCHANGED <<series, mon>>
            /\ op'[w].before = <<series, mon>>
         \/ /\ op[w].at = "series" /\ SeriesWritable(w) /\ UNCHANGED <<series, mon>>
            /\ op'[w].at = "episodes" /\ op'[w].snap = Read /\ op'[w].job = op[w].job
            /\ op'[w].before = op[w].before
         \/ /\ Past(w) /\ Decided(w)' /\ UNCHANGED series
            /\ op'[w].snap = op[w].snap /\ op'[w].job = op[w].job
            /\ op'[w].before = op[w].before
            /\ op[w].at = "episodes" => ready[Season(w)]
            /\ Writing(w)' => Writing(w) \/ ~dryRun
<1> USE DEF WriterType, Past, Decided, Writing
<1>0. ASSUME op[w].at # "none" PROVE op[w] \in Ops
  BY <1>0, Busy
<1>1. CASE Start(w)
  BY <1>1 DEF Start, server
<1>2. CASE ReadFails(w)
  BY <1>2 DEF ReadFails, Finish
<1>3. CASE GetSeries(w)
  <2>1. op[w] \in Ops
    BY <1>0, <1>3 DEF GetSeries, At
  <2> QED BY <1>3, <2>1 DEF GetSeries, At, Finish, Ops
<1>4. CASE GetEpisodes(w)
  <2>1. op[w] \in Ops
    BY <1>0, <1>4 DEF GetEpisodes, At
  <2>2. StillReady(w) => ready[Season(w)]
    BY DEF StillReady
  <2> QED BY <1>4, <2>1, <2>2 DEF GetEpisodes, At, Finish, Proceed, Ops
<1>5. CASE Verify(w)
  <2>1. op[w] \in Ops
    BY <1>0, <1>5 DEF Verify, At
  <2> QED BY <1>5, <2>1 DEF Verify, At, Finish, Proceed, Ops
<1>6. CASE PutEpisodes(w)
  <2>1. op[w] \in Ops
    BY <1>0, <1>6 DEF PutEpisodes, At
  <2> QED BY <1>6, <2>1 DEF PutEpisodes, TimesOut, At, Finish, Goto, Ops
<1>7. CASE ReRead(w)
  <2>1. op[w] \in Ops
    BY <1>0, <1>7 DEF ReRead, At
  <2> QED BY <1>7, <2>1 DEF ReRead, At, Finish, Goto, Ops
<1>8. CASE PutSeason(w)
  BY <1>8 DEF PutSeason, TimesOut, Finish
<1> QED BY <1>1, <1>2, <1>3, <1>4, <1>5, <1>6, <1>7, <1>8 DEF Step

LEMMA SightedInit == Init => Sighted
BY DEF Init, Sighted, SightedBy, Past, Decided, Writing, NoOp

\* An operation that nobody but others takes a step beside.
LEMMA SightedBeside ==
  ASSUME ServerType, WriterType, SightType, NEW w \in Writers, SightedBy(w),
         op'[w] = op[w], UNCHANGED dryRun, NEW actors, Watched(actors)
  PROVE  SightedBy(w)'
<1> USE DEF Past, Decided, Writing, Season
<1>1. CASE op[w] = NoOp
  BY <1>1 DEF SightedBy, NoOp
<1>2. CASE op[w] # NoOp
  <2>1. /\ seen'[w].writable = (seen[w].writable \/ Writable')
        /\ seen'[w].ready = seen[w].ready \cup ReadySeasons'
    BY <1>2, SeenLater
  <2> QED BY <2>1 DEF SightedBy
<1> QED BY <1>1, <1>2

LEMMA SightedStep ==
  ASSUME ServerType, WriterType, SightType, NEW w \in Writers, SightedBy(w),
         Step(w), Watched({w})
  PROVE  SightedBy(w)'
<1> USE DEF Past, Decided, Writing
<1>0. UNCHANGED <<ready, dryRun>>
  BY StepFrame DEF control
<1>1. CASE op'[w] = NoOp
  BY <1>1 DEF SightedBy, NoOp
<1>2. CASE op[w] = NoOp /\ op'[w].at = "series"
  <2>1. op'[w] # NoOp
    BY <1>2 DEF NoOp
  <2>2. seen'[w].writable = Writable' /\ seen'[w].ready = ReadySeasons'
    BY <1>2, <2>1, SeenFirst
  <2> QED BY <1>2, <2>2 DEF SightedBy
<1>3. CASE /\ op[w].at = "series" /\ SeriesWritable(w) /\ UNCHANGED series
           /\ op'[w].at = "episodes"
  <2>1. op'[w] # NoOp /\ op[w] # NoOp
    BY <1>3 DEF NoOp
  <2>2. /\ seen'[w].writable = (seen[w].writable \/ Writable')
        /\ seen'[w].ready = seen[w].ready \cup ReadySeasons'
    BY <2>1, SeenLater
  <2>3. Writable
    BY <1>3 DEF SeriesWritable, Writable
  <2> QED BY <1>3, <2>1, <2>2, <2>3 DEF SightedBy
<1>4. CASE /\ Past(w) /\ Decided(w)' /\ op'[w].job = op[w].job
           /\ op[w].at = "episodes" => ready[Season(w)]
           /\ Writing(w)' => Writing(w) \/ ~dryRun
  <2>1. op'[w] # NoOp /\ op[w] # NoOp
    BY <1>4 DEF NoOp
  <2>2. /\ seen'[w].writable = (seen[w].writable \/ Writable')
        /\ seen'[w].ready = seen[w].ready \cup ReadySeasons'
    BY <2>1, SeenLater
  <2>3. op[w] \in Ops /\ Season(w) \in Seasons
    BY <2>1, Busy, OpFields DEF Season
  <2>4. Season(w) \in seen[w].ready
    BY <1>4, <2>1, <2>3 DEF SightedBy, ReadySeasons
  <2>5. Season(w)' = Season(w)
    BY <1>4 DEF Season
  <2> QED BY <1>0, <1>4, <2>1, <2>2, <2>4, <2>5 DEF SightedBy
<1> QED BY <1>1, <1>2, <1>3, <1>4, OwnStep

LEMMA SightedNext ==
  ASSUME TypeOK, Sighted, [Next]_vars
  PROVE  Sighted'
<1>0. ServerType /\ WriterType /\ SightType
  BY TypeParts
<1> SUFFICES ASSUME NEW w \in Writers PROVE SightedBy(w)'
  BY DEF Sighted
<1>1. SightedBy(w) /\ UNCHANGED dryRun
  BY <1>0, Roles DEF Sighted
<1>2. CASE op'[w] = NoOp
  BY <1>2 DEF SightedBy, NoOp, Past, Decided, Writing
<1>3. CASE UNCHANGED vars
  BY <1>1, <1>3 DEF vars, work, server, control, SightedBy, Writable, ReadySeasons, Past, Decided,
                    Writing, Season
<1>4. CASE Step(w) /\ Watched({w})
  BY <1>0, <1>1, <1>4, SightedStep
<1>5. CASE op'[w] = op[w] /\ \E actors : Watched(actors)
  BY <1>0, <1>1, <1>5, SightedBeside
<1> QED BY <1>0, <1>2, <1>3, <1>4, <1>5, Roles

LEMMA SightedAlways == Safety => []Sighted
<1>1. TypeOK /\ Sighted /\ [Next]_vars => Sighted'
  BY SightedNext
<1> QED BY <1>1, SightedInit, TypeCorrect, PTL DEF Safety

\* No write is sent in a dry run or to a series that was excluded or unmonitored
\* all the while, whatever others do meanwhile.
THEOREM SeriesRespected == Safety => RespectsTheSeries
<1>1. Sighted => [\A w \in Writers : Writes(w) => ~dryRun /\ seen[w].writable]_vars
  <2> SUFFICES ASSUME Sighted, NEW w \in Writers, Writes(w)
               PROVE  ~dryRun /\ seen[w].writable
    OBVIOUS
  <2>1. Writing(w) /\ Past(w)
    BY DEF Writes, PutSeason, PutEpisodes, At, Writing, Past, Decided
  <2> QED BY <2>1 DEF Sighted, SightedBy
<1> QED BY <1>1, SightedAlways, PTL DEF RespectsTheSeries

\* No season that was incomplete or still airing all the while is written about,
\* whatever others do meanwhile.
THEOREM OnlyReadyWritten == Safety => WritesOnlyReady
<1>1. TypeOK /\ Sighted => [\A w \in Writers : Writes(w) => Season(w) \in seen[w].ready]_vars
  <2> SUFFICES ASSUME Sighted, NEW w \in Writers, Writes(w)
               PROVE  Season(w) \in seen[w].ready
    OBVIOUS
  <2>1. Decided(w)
    BY DEF Writes, PutSeason, PutEpisodes, At, Writing, Decided
  <2> QED BY <2>1 DEF Sighted, SightedBy
<1> QED BY <1>1, SightedAlways, TypeCorrect, PTL DEF WritesOnlyReady

-----------------------------------------------------------------------------
(***************************************************************************)
(* Operations that have met no outsider.                                   *)
(***************************************************************************)

\* The seasons that were ready at some moment are ready, the series itself is as
\* it was read, and a flag that is not was changed while its season was ready.
CalmBy(w) ==
  op[w] # NoOp /\ seen[w].met # "outsider" =>
    /\ seen[w].ready \subseteq ReadySeasons
    /\ Past(w) =>
         /\ op[w].snap.series.monitored = series.monitored
         /\ op[w].snap.series.tagged = series.tagged
         /\ \A s \in Seasons : op[w].snap.series.flags[s] # series.flags[s] => s \in seen[w].ready

Calm == \A w \in Writers : CalmBy(w)

\* What the season write does to the flags, and to nothing else.
LEMMA AssembledIs ==
  ASSUME NEW w \in Writers, op[w] \in Ops
  PROVE  /\ Assembled(w) \in Series
         /\ Assembled(w).monitored = op[w].snap.series.monitored
         /\ Assembled(w).tagged = op[w].snap.series.tagged
         /\ Assembled(w).flags[Season(w)] = Target(w)
         /\ \A s \in Seasons \ {Season(w)} : Assembled(w).flags[s] = op[w].snap.series.flags[s]
<1>1. /\ Target(w) \in BOOLEAN /\ op[w].snap.series \in Series /\ Season(w) \in Seasons
  BY OpFields DEF Target, Season
<1> QED BY <1>1 DEF Assembled, Series

\* The season write of an operation that has met no outsider changes flags of
\* seasons that are ready.
LEMMA SeasonPut ==
  ASSUME WriterType, Sighted, Calm, NEW w \in Writers, PutSeason(w), seen[w].met # "outsider"
  PROVE  /\ series'.monitored = series.monitored /\ series'.tagged = series.tagged
         /\ \A s \in Seasons : series'.flags[s] # series.flags[s] =>
              s \in ReadySeasons /\ s \in seen[w].ready
<1>1. op[w].at = "season" /\ op[w] \in Ops
  BY Busy DEF PutSeason, At
<1>2. op[w] # NoOp /\ Past(w) /\ Decided(w)
  BY <1>1 DEF NoOp, Past, Decided, Writing
<1>3. CalmBy(w) /\ SightedBy(w)
  BY DEF Calm, Sighted
<1>4. CASE UNCHANGED series
  BY <1>4
<1>5. CASE series' = Assembled(w)
  BY <1>1, <1>2, <1>3, <1>5, AssembledIs DEF CalmBy, SightedBy
<1> QED BY <1>4, <1>5 DEF PutSeason, TimesOut

LEMMA CalmInit == Init => Calm
BY DEF Init, Calm, CalmBy

\* A step that others take.
LEMMA CalmBeside ==
  ASSUME ServerType, WriterType, SightType, Sighted, Calm, NEW w \in Writers, op'[w] = op[w],
         \/ UNCHANGED op /\ Watched({})
         \/ \E v \in Writers \ {w} : Step(v) /\ Watched({v})
  PROVE  CalmBy(w)'
<1> USE DEF Past, Decided, Writing
<1> SUFFICES ASSUME op[w] # NoOp, seen'[w].met # "outsider"
             PROVE  CalmBy(w)'
  BY DEF CalmBy
<1>0. CalmBy(w) /\ SightedBy(w)
  BY DEF Calm, Sighted
<1>1. PICK actors \in SUBSET (Writers \ {w}) :
        Watched(actors) /\ (actors = {} \/ \E v \in Writers \ {w} : actors = {v} /\ Step(v))
  OBVIOUS
<1>2. /\ seen'[w].ready = seen[w].ready \cup ReadySeasons' /\ seen'[w].met = Meets(w, actors)
  BY <1>1, SeenLater
<1>3. CASE server' = server
  BY <1>0, <1>2, <1>3 DEF server, CalmBy, Meets, ReadySeasons
<1>4. CASE server' # server
  <2>1. seen[w].met # "outsider" /\ ~Outside(actors)
    BY <1>2, <1>4 DEF Meets
  <2>2. PICK v \in Writers \ {w} : Step(v) /\ seen[v].met # "outsider"
    BY <1>1, <2>1 DEF Outside
  <2>3. UNCHANGED ready /\ ReadySeasons' = ReadySeasons
    BY <2>2, StepFrame DEF ReadySeasons
  <2>4. /\ series'.monitored = series.monitored /\ series'.tagged = series.tagged
        /\ \A s \in Seasons : series'.flags[s] # series.flags[s] => s \in ReadySeasons
    BY <2>2, StepServer, SeasonPut
  <2> QED BY <1>0, <1>2, <2>1, <2>3, <2>4 DEF CalmBy, SightedBy
<1> QED BY <1>3, <1>4

\* The operation's own step.
LEMMA CalmStep ==
  ASSUME ServerType, WriterType, SightType, Sighted, Calm, NEW w \in Writers, Step(w), Watched({w})
  PROVE  CalmBy(w)'
<1> USE DEF Past, Decided, Writing
<1>0. CalmBy(w) /\ UNCHANGED ready /\ ReadySeasons' = ReadySeasons
  BY StepFrame DEF Calm, ReadySeasons
<1>1. CASE op'[w] = NoOp
  BY <1>1 DEF CalmBy
<1>2. CASE op[w] = NoOp /\ op'[w].at = "series"
  <2>1. seen'[w].ready = ReadySeasons'
    BY <1>2, SeenFirst DEF NoOp
  <2> QED BY <1>2, <2>1 DEF CalmBy
<1>3. CASE op[w].at = "series" /\ UNCHANGED series /\ op'[w].at = "episodes" /\ op'[w].snap = Read
  <2>1. op[w] # NoOp /\ op'[w] # NoOp
    BY <1>3 DEF NoOp
  <2>2. seen'[w].met = seen[w].met /\ seen'[w].ready = seen[w].ready \cup ReadySeasons'
    BY <2>1, SeenLater
  <2>3. op'[w].snap.series = series'
    BY <1>3 DEF Read
  <2> QED BY <1>0, <2>1, <2>2, <2>3 DEF CalmBy
<1>4. CASE Past(w) /\ Decided(w)' /\ UNCHANGED series /\ op'[w].snap = op[w].snap
  <2>1. op[w] # NoOp /\ op'[w] # NoOp
    BY <1>4 DEF NoOp
  <2>2. seen'[w].met = seen[w].met /\ seen'[w].ready = seen[w].ready \cup ReadySeasons'
    BY <2>1, SeenLater
  <2> QED BY <1>0, <1>4, <2>1, <2>2 DEF CalmBy
<1> QED BY <1>1, <1>2, <1>3, <1>4, OwnStep

LEMMA CalmNext ==
  ASSUME TypeOK, Sighted, Calm, [Next]_vars
  PROVE  Calm'
<1>0. ServerType /\ WriterType /\ SightType
  BY TypeParts
<1> SUFFICES ASSUME NEW w \in Writers PROVE CalmBy(w)'
  BY DEF Calm
<1>1. CASE op'[w] = NoOp
  BY <1>1 DEF CalmBy
<1>2. CASE UNCHANGED vars
  BY <1>2 DEF vars, work, server, Calm, CalmBy, ReadySeasons, Past, Decided, Writing
<1>3. CASE Step(w) /\ Watched({w})
  BY <1>0, <1>3, CalmStep
<1>4. CASE /\ op'[w] = op[w]
           /\ \/ UNCHANGED op /\ Watched({})
              \/ \E v \in Writers \ {w} : Step(v) /\ Watched({v})
  BY <1>0, <1>4, CalmBeside
<1> QED BY <1>0, <1>1, <1>2, <1>3, <1>4, Roles

-----------------------------------------------------------------------------
(***************************************************************************)
(* Seasons that nobody else has been at since the operation began.         *)
(***************************************************************************)
Begun(w) == op[w].at \in {"series", "episodes", "verify"}

\* Until the operation writes, the season is as it was found, and up to the
\* season write its flag is as it was read.
Kept(w, s) ==
  /\ Begun(w) => /\ op[w].before[1].flags[s] = series.flags[s]
                 /\ \A e \in EpisodesOf(s) : op[w].before[2][e] = mon[e]
  /\ Past(w) => op[w].snap.series.flags[s] = series.flags[s]

\* From the first write on, the operation's ids are the episodes of its season
\* that needed it, and all of them where it re-monitors; the others needed
\* nothing; and at the season write no episode is left.
Fit(w) ==
  /\ op[w].at = "verify" => op[w].ids = Unwritten(w)
  /\ Writing(w) =>
       /\ op[w].ids \subseteq EpisodesOf(Season(w))
       /\ \A e \in EpisodesOf(Season(w)) :
            IF e \in op[w].ids THEN op[w].before[2][e] # Target(w)
            ELSE op[w].before[2][e] = Target(w) /\ mon[e] = Target(w)
       /\ Target(w) => /\ op[w].ids = EpisodesOf(Season(w))
                       /\ op[w].job.unmet \/ ~scores[Season(w)]
  /\ op[w].at = "season" => \A e \in EpisodesOf(Season(w)) : mon[e] = Target(w)

SteadyBy(w) ==
  op[w] # NoOp =>
    /\ \A s \in Seasons \ seen[w].touched : Kept(w, s)
    /\ Season(w) \notin seen[w].touched => Fit(w)

Steady == \A w \in Writers : SteadyBy(w)

LEMMA SteadyInit == Init => Steady
BY DEF Init, Steady, SteadyBy

\* A step that others take, and that does not touch the season.
LEMMA KeptBeside ==
  ASSUME ServerType, ServerType', NEW w \in Writers, NEW s \in Seasons, s \notin Changed,
         op'[w] = op[w], Kept(w, s)
  PROVE  Kept(w, s)'
<1>1. /\ series'.flags[s] = series.flags[s]
      /\ \A e \in EpisodesOf(s) : mon'[e] = mon[e]
  BY Untouched
<1> QED BY <1>1 DEF Kept, Begun, Past, Decided, Writing, EpisodesOf

LEMMA FitBeside ==
  ASSUME ServerType, ServerType', NEW w \in Writers, op[w] \in Ops, Season(w) \notin Changed,
         op'[w] = op[w], Fit(w)
  PROVE  Fit(w)'
<1>0. Season(w) \in Seasons
  BY OpFields DEF Season
<1>1. /\ scores'[Season(w)] = scores[Season(w)]
      /\ \A e \in EpisodesOf(Season(w)) : mon'[e] = mon[e]
  BY <1>0, Untouched
<1>2. Season(w)' = Season(w) /\ Target(w)' = Target(w) /\ EpisodesOf(Season(w))' = EpisodesOf(Season(w))
  BY DEF Season, Target, EpisodesOf
<1>3. Unwritten(w)' = Unwritten(w)
  BY <1>1, <1>2 DEF Unwritten
<1> QED BY <1>1, <1>2, <1>3 DEF Fit, Writing

\* The operation's own steps, up to its last, keep every season as it was found
\* until they write.
LEMMA KeptStep ==
  ASSUME ServerType, WriterType, NEW w \in Writers, Step(w), op'[w] # NoOp,
         NEW s \in Seasons, op[w] # NoOp => Kept(w, s)
  PROVE  Kept(w, s)'
<1> USE DEF Begun, Past, Decided, Writing
<1>1. CASE op[w] = NoOp /\ op'[w].at = "series" /\ UNCHANGED <<series, mon>>
           /\ op'[w].before = <<series, mon>>
  BY <1>1 DEF Kept, EpisodesOf
<1>2. CASE /\ op[w].at = "series" /\ UNCHANGED <<series, mon>>
           /\ op'[w].at = "episodes" /\ op'[w].snap = Read /\ op'[w].before = op[w].before
  BY <1>2 DEF Kept, EpisodesOf, Read, NoOp
<1>3. CASE /\ Past(w) /\ Decided(w)' /\ UNCHANGED series
           /\ op'[w].snap = op[w].snap /\ op'[w].before = op[w].before
  <2>1. op[w] # NoOp
    BY <1>3 DEF NoOp
  <2>2. op[w] \in Ops
    BY <2>1, Busy
  <2>3. ASSUME op'[w].at = "verify" PROVE Begun(w) /\ UNCHANGED mon
    <3>1. ~PutEpisodes(w) /\ ~ReRead(w) /\ ~PutSeason(w)
      BY <2>2, <2>3 DEF PutEpisodes, ReRead, PutSeason, TimesOut, Finish, Goto, WriterType, NoOp, Ops
    <3>2. UNCHANGED mon
      BY <3>1, StepServer
    <3> QED BY <1>3, <3>1, <3>2 DEF Step, GetEpisodes, Verify, Start, ReadFails, GetSeries, At, Finish, WriterType, NoOp
  <2> QED BY <1>3, <2>1, <2>3 DEF Kept, EpisodesOf
<1> QED BY <1>1, <1>2, <1>3, OwnStep

\* The checks before the first write leave the operation ended, or about to
\* write what it has found to be unwritten.
LEMMA ProceedFit ==
  ASSUME ServerType, WriterType, NEW w \in Writers, op[w] \in Ops, Kept(w, Season(w)), Begun(w),
         UNCHANGED <<mon, scores>>, Proceed(w, Unwritten(w)), op'[w] # NoOp,
         Target(w) => \/ op[w].job.unmet \/ ~scores[Season(w)]
                      \/ \E e \in EpisodesOf(Season(w)) : mon[e]
  PROVE  Fit(w)'
<1>1. /\ op' = [op EXCEPT ![w].at = IF Unwritten(w) = {} THEN "season" ELSE "put",
                          ![w].ids = Unwritten(w)]
      /\ Target(w) => Unwritten(w) = EpisodesOf(Season(w))
  BY DEF Proceed, Finish, WriterType
<1>2. /\ op'[w].at = (IF Unwritten(w) = {} THEN "season" ELSE "put")
      /\ op'[w].ids = Unwritten(w)
      /\ op'[w].job = op[w].job /\ op'[w].before = op[w].before
  BY <1>1 DEF WriterType, Ops
<1>3. \A e \in EpisodesOf(Season(w)) : op[w].before[2][e] = mon[e]
  BY DEF Kept
<1>4. /\ Season(w)' = Season(w) /\ Target(w)' = Target(w)
      /\ EpisodesOf(Season(w))' = EpisodesOf(Season(w))
  BY <1>2 DEF Season, Target, EpisodesOf
<1>5. /\ Unwritten(w) \subseteq EpisodesOf(Season(w))
      /\ \A e \in EpisodesOf(Season(w)) :
           IF e \in Unwritten(w) THEN mon[e] # Target(w) ELSE mon[e] = Target(w)
  BY DEF Unwritten
<1>6. ASSUME Target(w) PROVE op[w].job.unmet \/ ~scores[Season(w)]
  <2>1. \A e \in EpisodesOf(Season(w)) : mon[e] # Target(w)
    BY <1>1, <1>6 DEF Unwritten
  <2>2. mon \in [Episodes -> BOOLEAN] /\ Target(w) \in BOOLEAN
    BY OpFields DEF ServerType, Target
  <2> QED BY <1>6, <2>1, <2>2 DEF EpisodesOf
<1>7. \A e \in EpisodesOf(Season(w))' :
        IF e \in op'[w].ids THEN op'[w].before[2][e] # Target(w)'
        ELSE op'[w].before[2][e] = Target(w)' /\ mon'[e] = Target(w)'
  BY <1>2, <1>3, <1>4, <1>5
<1>8. Target(w)' => op'[w].ids = EpisodesOf(Season(w))' /\ (op'[w].job.unmet \/ ~scores'[Season(w)'])
  BY <1>1, <1>2, <1>4, <1>6
<1>9. op'[w].at = "season" => \A e \in EpisodesOf(Season(w))' : mon'[e] = Target(w)'
  BY <1>2, <1>4, <1>5
<1> QED BY <1>2, <1>4, <1>5, <1>7, <1>8, <1>9 DEF Fit, Writing

\* A step between two writes: the operation keeps what it has to write.
LEMMA WritesOn ==
  ASSUME WriterType, NEW w \in Writers, op[w] \in Ops, Writing(w), Fit(w), UNCHANGED scores,
         op'[w].at \in {"reread", "season"}, op'[w].ids = op[w].ids,
         op'[w].job = op[w].job, op'[w].before = op[w].before,
         \A e \in EpisodesOf(Season(w)) :
           \/ mon'[e] = Target(w)
           \/ mon'[e] = mon[e] /\ e \in op[w].ids /\ op'[w].at # "season"
  PROVE  Fit(w)'
<1>1. /\ Season(w)' = Season(w) /\ Target(w)' = Target(w)
      /\ EpisodesOf(Season(w))' = EpisodesOf(Season(w))
  BY DEF Season, Target, EpisodesOf
<1>2. \A e \in EpisodesOf(Season(w))' :
        IF e \in op'[w].ids THEN op'[w].before[2][e] # Target(w)'
        ELSE op'[w].before[2][e] = Target(w)' /\ mon'[e] = Target(w)'
  BY <1>1 DEF Fit
<1>3. /\ op'[w].ids \subseteq EpisodesOf(Season(w))'
      /\ Target(w)' => /\ op'[w].ids = EpisodesOf(Season(w))'
                       /\ op'[w].job.unmet \/ ~scores'[Season(w)']
  BY <1>1 DEF Fit
<1>4. op'[w].at = "season" => \A e \in EpisodesOf(Season(w))' : mon'[e] = Target(w)'
  BY <1>1
<1> QED BY <1>2, <1>3, <1>4 DEF Fit, Writing

\* The operation's own steps, up to its last.
LEMMA FitStep ==
  ASSUME ServerType, WriterType, NEW w \in Writers, Step(w), op'[w] # NoOp,
         op[w] # NoOp => Kept(w, Season(w)) /\ Fit(w)
  PROVE  Fit(w)'
<1> USE DEF Begun, Past, Decided, Writing
<1>0. ASSUME op[w].at # "none" PROVE op[w] \in Ops /\ op[w] # NoOp
  BY <1>0, Busy DEF NoOp
<1>1. UNCHANGED scores
  BY StepFrame
<1>2. ASSUME NEW r, Finish(w, r) PROVE FALSE
  BY <1>2 DEF Finish, WriterType
<1>3. CASE Start(w)
  <2>1. op'[w].at = "series"
    BY <1>3 DEF Start, WriterType
  <2> QED BY <2>1 DEF Fit
<1>4. CASE GetSeries(w)
  <2>1. op'[w].at = "episodes"
    BY <1>0, <1>2, <1>4 DEF GetSeries, At, WriterType, Ops
  <2> QED BY <2>1 DEF Fit
<1>5. CASE GetEpisodes(w)
  <2>1. op[w] \in Ops /\ op[w].at = "episodes" /\ UNCHANGED mon /\ op[w] # NoOp
    BY <1>0, <1>5 DEF GetEpisodes, At
  <2>2. CASE op' = [op EXCEPT ![w].at = "verify", ![w].ids = Unwritten(w)]
    <3>1. op'[w].at = "verify" /\ op'[w].ids = Unwritten(w) /\ op'[w].job = op[w].job
      BY <2>1, <2>2 DEF WriterType, Ops
    <3>2. Unwritten(w)' = Unwritten(w)
      BY <2>1, <3>1 DEF Unwritten, Season, Target, EpisodesOf
    <3> QED BY <3>1, <3>2 DEF Fit
  <2>3. CASE ~Target(w) /\ Proceed(w, Unwritten(w))
    BY <1>1, <2>1, <2>3, ProceedFit
  <2> QED BY <1>2, <1>5, <2>2, <2>3 DEF GetEpisodes
<1>6. CASE Verify(w)
  <2>1. op[w] \in Ops /\ op[w].at = "verify" /\ UNCHANGED mon /\ op[w] # NoOp
    BY <1>0, <1>6 DEF Verify, At
  <2>2. op[w].ids = Unwritten(w)
    BY <2>1 DEF Fit
  <2>3. CASE ReverseFinding(op[w].snap, Season(w), op[w].job.unmet) /\ Proceed(w, Unwritten(w))
    BY <1>1, <2>1, <2>3, ProceedFit DEF ReverseFinding
  <2> QED BY <1>2, <1>6, <2>2, <2>3 DEF Verify
<1>7. CASE PutEpisodes(w)
  <2>1. op[w] \in Ops /\ op[w].at = "put" /\ op[w] # NoOp
    BY <1>0, <1>7 DEF PutEpisodes, At
  <2>2. PICK done \in SUBSET op[w].ids :
          /\ mon' = Monitored(done, Target(w))
          /\ Goto(w, "reread") \/ (done = op[w].ids /\ Goto(w, "season"))
    BY <1>2, <1>7 DEF PutEpisodes, TimesOut
  <2>3. /\ op'[w].at \in {"reread", "season"} /\ op'[w].ids = op[w].ids
        /\ op'[w].job = op[w].job /\ op'[w].before = op[w].before
        /\ op'[w].at = "season" => done = op[w].ids
    BY <2>1, <2>2 DEF WriterType, Ops, Goto
  <2>4. \A e \in EpisodesOf(Season(w)) :
          \/ mon'[e] = Target(w)
          \/ mon'[e] = mon[e] /\ e \in op[w].ids /\ op'[w].at # "season"
    BY <2>1, <2>2, <2>3 DEF Fit, EpisodesOf, Monitored
  <2> QED BY <1>1, <2>1, <2>3, <2>4, WritesOn
<1>8. CASE ReRead(w)
  <2>1. op[w] \in Ops /\ op[w].at = "reread" /\ UNCHANGED mon /\ op[w] # NoOp
    BY <1>0, <1>8 DEF ReRead, At
  <2>2. Goto(w, "season") /\ \A e \in op[w].ids : mon[e] = Target(w)
    BY <1>2, <1>8 DEF ReRead
  <2>3. /\ op'[w].at = "season" /\ op'[w].ids = op[w].ids
        /\ op'[w].job = op[w].job /\ op'[w].before = op[w].before
    BY <2>1, <2>2 DEF WriterType, Ops, Goto
  <2>4. \A e \in EpisodesOf(Season(w)) : mon[e] = Target(w)
    BY <2>1, <2>2 DEF Fit
  <2> QED BY <1>1, <2>1, <2>3, <2>4, WritesOn
<1> QED BY <1>2, <1>3, <1>4, <1>5, <1>6, <1>7, <1>8 DEF Step, ReadFails, PutSeason, TimesOut

LEMMA SteadyNext ==
  ASSUME TypeOK, TypeOK', Steady, [Next]_vars
  PROVE  Steady'
<1>0. ServerType /\ WriterType /\ SightType /\ ServerType'
  BY TypeParts DEF TypeOK, ServerType
<1> SUFFICES ASSUME NEW w \in Writers, op'[w] # NoOp PROVE SteadyBy(w)'
  BY DEF Steady, SteadyBy
<1>1. SteadyBy(w)
  BY DEF Steady
<1>2. CASE UNCHANGED vars
  BY <1>1, <1>2 DEF vars, work, server, SteadyBy, Kept, Fit, Begun, Past, Decided, Writing,
                    Unwritten, Season, Target, EpisodesOf
<1>3. CASE Step(w) /\ Watched({w})
  <2>1. CASE op[w] = NoOp
    <3>1. \A s \in Seasons : Kept(w, s)'
      BY <1>0, <1>3, <2>1, KeptStep
    <3>2. Fit(w)'
      BY <1>0, <1>3, <2>1, FitStep
    <3> QED BY <3>1, <3>2 DEF SteadyBy
  <2>2. CASE op[w] # NoOp
    <3>1. seen'[w].touched = seen[w].touched
      BY <1>0, <1>3, <2>2, SeenLater
    <3>2. op'[w].job = op[w].job
      BY <1>0, <1>3, <2>2, OwnStep
    <3>3. \A s \in Seasons \ seen[w].touched : Kept(w, s)'
      BY <1>0, <1>1, <1>3, <2>2, KeptStep DEF SteadyBy
    <3>4. Season(w) \in Seasons
      BY <1>0, <2>2, Busy, OpFields DEF Season
    <3>5. Season(w) \notin seen[w].touched => Fit(w)'
      BY <1>0, <1>1, <1>3, <2>2, <3>4, FitStep DEF SteadyBy
    <3> QED BY <3>1, <3>2, <3>3, <3>5 DEF SteadyBy, Season
  <2> QED BY <2>1, <2>2
<1>4. CASE op'[w] = op[w] /\ \E actors \in SUBSET (Writers \ {w}) : Watched(actors)
  <2>1. PICK actors \in SUBSET (Writers \ {w}) : Watched(actors)
    BY <1>4
  <2>2. op[w] # NoOp /\ op[w] \in Ops
    BY <1>0, <1>4, Busy
  <2>3. seen'[w].touched = seen[w].touched \cup Changed
    BY <1>0, <1>4, <2>1, <2>2, SeenLater
  <2>4. ASSUME NEW s \in Seasons, s \notin seen'[w].touched PROVE Kept(w, s)'
    BY <1>0, <1>1, <1>4, <2>2, <2>3, <2>4, KeptBeside DEF SteadyBy
  <2>5. ASSUME Season(w) \notin seen'[w].touched PROVE Fit(w)'
    BY <1>0, <1>1, <1>4, <2>2, <2>3, <2>5, FitBeside DEF SteadyBy
  <2>6. Season(w)' = Season(w)
    BY <1>4 DEF Season
  <2> QED BY <2>4, <2>5, <2>6 DEF SteadyBy
<1> QED BY <1>0, <1>2, <1>3, <1>4, Roles

LEMMA SteadyAlways == Safety => []Steady
<1>1. TypeOK /\ TypeOK' /\ Steady /\ [Next]_vars => Steady'
  BY SteadyNext
<1> QED BY <1>1, SteadyInit, TypeCorrect, PTL DEF Safety

\* The season write, where nobody else has been at its season: nothing is left of
\* the episodes, and the flag is what was asked.
LEMMA SeasonSettled ==
  ASSUME TypeOK, Steady, NEW w \in Writers, PutSeason(w), Season(w) \notin seen[w].touched
  PROVE  /\ op[w] \in Ops /\ Season(w) \in Seasons /\ UNCHANGED <<mon, scores, below>>
         /\ Fit(w) /\ Writing(w)
         /\ \A e \in EpisodesOf(Season(w)) : mon[e] = Target(w)
         /\ series'.flags[Season(w)] # series.flags[Season(w)] =>
              series'.flags[Season(w)] = Target(w)
<1>0. WriterType
  BY TypeParts
<1>1. op[w].at = "season" /\ op[w] # NoOp /\ UNCHANGED <<mon, scores, below>>
  BY DEF PutSeason, TimesOut, At, NoOp
<1>2. op[w] \in Ops /\ Season(w) \in Seasons
  BY <1>0, <1>1, Busy, OpFields DEF Season
<1>3. Fit(w) /\ Writing(w)
  BY <1>1 DEF Steady, SteadyBy, Writing
<1>4. series' = series \/ series' = Assembled(w)
  BY DEF PutSeason, TimesOut
<1> QED BY <1>1, <1>2, <1>3, <1>4, AssembledIs DEF Fit

\* No season is unmonitored over a monitored episode, unless somebody else has
\* been at it meanwhile.
THEOREM NoneStranded == Safety => NeverStrands
<1>1. TypeOK /\ Steady =>
        [\A w \in Writers :
           PutSeason(w) /\ Unmonitors(Season(w)) /\ Season(w) \notin seen[w].touched =>
             \A e \in EpisodesOf(Season(w)) : ~mon[e]]_vars
  <2> SUFFICES ASSUME TypeOK, Steady, NEW w \in Writers, PutSeason(w), Unmonitors(Season(w)),
                      Season(w) \notin seen[w].touched, NEW e \in EpisodesOf(Season(w))
               PROVE  ~mon[e]
    OBVIOUS
  <2>1. series'.flags[Season(w)] # series.flags[Season(w)] /\ ~series'.flags[Season(w)]
    BY DEF Unmonitors
  <2> QED BY <2>1, SeasonSettled
<1> QED BY <1>1, SteadyAlways, TypeCorrect, PTL DEF NeverStrands

\* What is re-monitored was clean, is left whole, and is not undone by the next
\* forward pass unless an upgrade has overtaken the list or somebody else has
\* been at the season meanwhile.
THEOREM OnlyCleanRepaired == Safety => RepairsOnlyCleanFailing
<1>1. TypeOK /\ Steady =>
        [\A w \in Writers, s \in Seasons :
           PutSeason(w) /\ Season(w) = s /\ Target(w) /\ Remonitors(s) /\ s \notin seen[w].touched =>
             /\ WouldUnmonitor(s)' => op[w].job.unmet /\ EpisodesOf(s) \cap below = {}
             /\ \A e \in EpisodesOf(s) : ~op[w].before[2][e] /\ mon[e]]_vars
  <2> SUFFICES ASSUME TypeOK, Steady, NEW w \in Writers, NEW s \in Seasons,
                      PutSeason(w), Season(w) = s, Target(w), s \notin seen[w].touched
               PROVE  /\ WouldUnmonitor(s)' => op[w].job.unmet /\ EpisodesOf(s) \cap below = {}
                      /\ \A e \in EpisodesOf(s) : ~op[w].before[2][e] /\ mon[e]
    OBVIOUS
  <2>1. /\ op[w] \in Ops /\ Fit(w) /\ Writing(w) /\ UNCHANGED <<mon, scores, below>>
        /\ \A e \in EpisodesOf(s) : mon[e] = Target(w)
    BY SeasonSettled
  <2>2. /\ op[w].job.unmet \/ ~scores[s]
        /\ \A e \in EpisodesOf(s) : op[w].before[2][e] # Target(w)
    BY <2>1 DEF Fit
  <2>3. /\ Target(w) = TRUE /\ op[w].before[2] \in [Episodes -> BOOLEAN]
        /\ EpisodesOf(s) \subseteq Episodes
    BY <2>1, OpFields DEF Target, EpisodesOf
  <2>4. \A e \in EpisodesOf(s) : ~op[w].before[2][e] /\ mon[e] = TRUE
    BY <2>1, <2>2, <2>3
  <2>5. ASSUME WouldUnmonitor(s)' PROVE op[w].job.unmet /\ EpisodesOf(s) \cap below = {}
    <3>1. scores[s] /\ ~\E e \in EpisodesOf(s) : e \in below /\ mon[e] = TRUE
      BY <2>1, <2>5 DEF WouldUnmonitor, Wanted, EpisodesOf
    <3> QED BY <2>2, <2>4, <3>1
  <2> QED BY <2>4, <2>5
<1> QED BY <1>1, SteadyAlways, TypeCorrect, PTL DEF RepairsOnlyCleanFailing

\* Putting the whole series back reverts only what somebody else has changed
\* during the operation, and, if the operation has met no outsider, nothing of
\* the series itself and no flag of a season that was not ready.
THEOREM OnlyConcurrentReverted == Safety => RevertsOnlyConcurrent
<1>1. TypeOK /\ Sighted /\ Calm /\ [Next]_vars => Calm'
  BY CalmNext
<1>2. TypeOK /\ Sighted /\ Calm /\ Steady =>
        [\A w \in Writers : PutSeason(w) =>
           /\ \A s \in Seasons : series'.flags[s] # series.flags[s] =>
                \/ s = Season(w) /\ series'.flags[s] = Target(w)
                \/ s # Season(w) /\ s \in seen[w].touched
           /\ seen[w].met # "outsider" =>
                /\ series'.monitored = series.monitored /\ series'.tagged = series.tagged
                /\ \A s \in Seasons : Unmonitors(s) => s \in seen[w].ready]_vars
  <2> SUFFICES ASSUME TypeOK, Sighted, Calm, Steady, NEW w \in Writers, PutSeason(w)
               PROVE  /\ \A s \in Seasons : series'.flags[s] # series.flags[s] =>
                           \/ s = Season(w) /\ series'.flags[s] = Target(w)
                           \/ s # Season(w) /\ s \in seen[w].touched
                      /\ seen[w].met # "outsider" =>
                           /\ series'.monitored = series.monitored /\ series'.tagged = series.tagged
                           /\ \A s \in Seasons : Unmonitors(s) => s \in seen[w].ready
    OBVIOUS
  <2>0. WriterType
    BY TypeParts
  <2>1. op[w].at = "season" /\ op[w] # NoOp
    BY DEF PutSeason, At, NoOp
  <2>2. op[w] \in Ops /\ Past(w)
    BY <2>0, <2>1, Busy DEF Past, Decided, Writing
  <2>3. ASSUME NEW s \in Seasons, series'.flags[s] # series.flags[s]
        PROVE  \/ s = Season(w) /\ series'.flags[s] = Target(w)
               \/ s # Season(w) /\ s \in seen[w].touched
    <3>1. series' = Assembled(w)
      BY <2>3 DEF PutSeason, TimesOut
    <3>2. ASSUME s # Season(w) PROVE op[w].snap.series.flags[s] # series.flags[s]
      BY <2>2, <2>3, <3>1, <3>2, AssembledIs
    <3>3. s \notin seen[w].touched => op[w].snap.series.flags[s] = series.flags[s]
      BY <2>1, <2>2 DEF Steady, SteadyBy, Kept
    <3> QED BY <2>2, <3>1, <3>2, <3>3, AssembledIs
  <2>4. ASSUME NEW s \in Seasons, Unmonitors(s), seen[w].met # "outsider"
        PROVE  s \in seen[w].ready
    <3>1. series'.flags[s] # series.flags[s]
      BY <2>4 DEF Unmonitors
    <3> QED BY <2>0, <2>4, <3>1, SeasonPut
  <2> QED BY <2>0, <2>3, <2>4, SeasonPut
<1> QED BY <1>1, <1>2, CalmInit, SightedAlways, SteadyAlways, TypeCorrect, PTL
        DEF Safety, RevertsOnlyConcurrent

\* What OutcomeIsTrue says of one operation and one season.
Told(w, s) ==
  /\ result'[w] \in {"refused", "withheld"} =>
       /\ series'.flags[s] = op[w].before[1].flags[s]
       /\ \A e \in EpisodesOf(s) : mon'[e] = op[w].before[2][e]
  /\ result'[w] \in {"written", "recovered"} /\ s = Season(w) =>
       /\ series'.flags[s] = Target(w)
       /\ \A e \in EpisodesOf(s) : mon'[e] = Target(w)
  /\ result'[w] = "recovered" /\ s = Season(w) =>
       \A e \in EpisodesOf(s) : ~op[w].before[2][e]

LEMMA EndsTruly ==
  ASSUME TypeOK, Steady, NEW w \in Writers, Step(w), op[w] # NoOp, op'[w] = NoOp,
         NEW s \in Seasons, s \notin seen[w].touched
  PROVE  Told(w, s)
<1>0. WriterType /\ op[w] \in Ops /\ Kept(w, s)
  BY TypeParts, Busy DEF Steady, SteadyBy
<1>1. ASSUME NEW r \in {"refused", "withheld"}, Begun(w), UNCHANGED <<series, mon>>, Finish(w, r)
      PROVE  Told(w, s)
  <2>1. result'[w] = r
    BY <1>0, <1>1 DEF Finish, WriterType
  <2> QED BY <1>0, <1>1, <2>1 DEF Told, Kept
<1>2. ASSUME NEW r \in {"error", "unverified"}, Finish(w, r)
      PROVE  Told(w, s)
  BY <1>0, <1>2 DEF Told, Finish, WriterType
<1>3. ASSUME NEW ids, Proceed(w, ids), Begun(w), UNCHANGED <<series, mon>> PROVE Told(w, s)
  <2>1. CASE op' = [op EXCEPT ![w].at = IF ids = {} THEN "season" ELSE "put", ![w].ids = ids]
    BY <1>0, <2>1 DEF WriterType, NoOp, Ops
  <2> QED BY <1>1, <1>3, <2>1 DEF Proceed
<1>4. CASE Start(w)
  BY <1>4 DEF Start
<1>5. CASE ReadFails(w)
  BY <1>2, <1>5 DEF ReadFails
<1>6. CASE GetSeries(w)
  <2>1. CASE op' = [op EXCEPT ![w].at = "episodes", ![w].snap = Read]
    BY <1>0, <2>1 DEF WriterType, NoOp, Ops
  <2> QED BY <1>1, <1>6, <2>1 DEF GetSeries, At, Begun
<1>7. CASE GetEpisodes(w)
  <2>1. CASE op' = [op EXCEPT ![w].at = "verify", ![w].ids = Unwritten(w)]
    BY <1>0, <2>1 DEF WriterType, NoOp, Ops
  <2> QED BY <1>1, <1>3, <1>7, <2>1 DEF GetEpisodes, At, Begun
<1>8. CASE Verify(w)
  BY <1>1, <1>3, <1>8 DEF Verify, At, Begun
<1>9. CASE PutEpisodes(w)
  <2>1. CASE Finish(w, "error")
    BY <1>2, <2>1
  <2>2. CASE Goto(w, "reread") \/ Goto(w, "season")
    BY <1>0, <2>2 DEF Goto, WriterType, NoOp, Ops
  <2> QED BY <1>9, <2>1, <2>2 DEF PutEpisodes, TimesOut
<1>10. CASE ReRead(w)
  <2>1. CASE Finish(w, "error")
    BY <1>2, <2>1
  <2>2. CASE Goto(w, "season")
    BY <1>0, <2>2 DEF Goto, WriterType, NoOp, Ops
  <2> QED BY <1>10, <2>1, <2>2 DEF ReRead
<1>11. CASE PutSeason(w)
  <2>1. CASE Finish(w, "error") \/ Finish(w, "unverified")
    BY <1>2, <2>1
  <2>2. CASE series' = Assembled(w) /\ Finish(w, Completed(w))
    <3>1. result'[w] = Completed(w) /\ Completed(w) \in {"written", "recovered"}
      BY <1>0, <2>2 DEF Finish, WriterType, Completed
    <3>2. ASSUME s = Season(w)
          PROVE  /\ series'.flags[s] = Target(w) /\ \A e \in EpisodesOf(s) : mon'[e] = Target(w)
                 /\ Fit(w) /\ Writing(w)
      BY <1>0, <1>11, <2>2, <3>2, SeasonSettled, AssembledIs
    <3>3. ASSUME s = Season(w), Completed(w) = "recovered", NEW e \in EpisodesOf(s)
          PROVE  ~op[w].before[2][e]
      <4>1. op[w].ids = {} /\ ~Target(w)
        BY <3>3 DEF Completed
      <4>2. op[w].before[2][e] = Target(w)
        BY <3>2, <3>3, <4>1 DEF Fit
      <4> QED BY <4>1, <4>2
    <3> QED BY <3>1, <3>2, <3>3 DEF Told
  <2> QED BY <1>11, <2>1, <2>2 DEF PutSeason, TimesOut
<1> QED BY <1>4, <1>5, <1>6, <1>7, <1>8, <1>9, <1>10, <1>11 DEF Step

\* What an operation is counted as is what happened, in every season that nobody
\* else has been at meanwhile.
THEOREM OutcomesTrue == Safety => OutcomeIsTrue
<1>1. TypeOK /\ Steady /\ [Next]_vars =>
        [\A w \in Writers, s \in Seasons :
           op[w] # NoOp /\ op'[w] = NoOp /\ s \notin seen[w].touched => Told(w, s)]_vars
  <2> SUFFICES ASSUME TypeOK, Steady, [Next]_vars, NEW w \in Writers, NEW s \in Seasons,
                      op[w] # NoOp, op'[w] = NoOp, s \notin seen[w].touched
               PROVE  Told(w, s)
    OBVIOUS
  <2>1. CASE Step(w)
    BY <2>1, EndsTruly
  <2>2. CASE result' = [v \in Writers |-> "none"]
    BY <2>2 DEF Told
  <2>3. CASE op'[w] = op[w] \/ UNCHANGED vars
    BY <2>3 DEF vars, work
  <2> QED BY <2>1, <2>2, <2>3, TypeParts, Roles
<1> QED BY <1>1, SteadyAlways, TypeCorrect, PTL DEF Safety, OutcomeIsTrue, Told
=============================================================================
