-------------------------- MODULE StatsStoreProofs --------------------------
(***************************************************************************)
(* Theorems about StatsStore, for any instances, any room for records, and *)
(* any number of cycles, clicks and restarts.                              *)
(***************************************************************************)
EXTENDS StatsStore, SequenceTheorems, TLAPS

USE InstancesAssumption, BoundsAssumption

-----------------------------------------------------------------------------
(***************************************************************************)
(* The cache file.                                                         *)
(***************************************************************************)
\* The snapshot under way is no older than the file in place, and neither is of
\* the future.
Advancing ==
  /\ now \in Nat /\ final.at \in Int /\ final.at <= now
  /\ saving = "snapshot" => snap.at \in Int /\ final.at <= snap.at /\ snap.at <= now
  /\ saving = "written" => tmp.at \in Int /\ final.at <= tmp.at /\ tmp.at <= now

LEMMA AdvancingKept == ASSUME Advancing, [Next]_vars PROVE Advancing' /\ final'.at >= final.at
<1> USE DEF Advancing
<1>1. CASE UNCHANGED <<files, now>>
  BY <1>1 DEF files
<1>2. CASE UNCHANGED files /\ Ticks
  BY <1>2 DEF files, Ticks
<1>3. CASE EndCycle
  <2>1. UNCHANGED <<tmp, final, now>>
    BY <1>3 DEF EndCycle
  <2>2. CASE cycle = "sweep"
    <3>1. saving' = "snapshot" /\ snap' = [at |-> now, views |-> store]
      BY <1>3, <2>2 DEF EndCycle
    <3>2. snap'.at = now
      BY <3>1
    <3> QED BY <2>1, <3>1, <3>2
  <2>3. CASE cycle # "sweep"
    BY <1>1, <1>3, <2>1, <2>3 DEF EndCycle, files
  <2> QED BY <2>2, <2>3
<1>4. CASE WriteTemp
  BY <1>4 DEF WriteTemp
<1>5. CASE Rename
  BY <1>5 DEF Rename
<1>6. CASE Stop
  BY <1>6 DEF Stop
<1>7. CASE Boot
  BY <1>2, <1>7 DEF Boot
<1>8. CASE BeginSweep \/ BeginWebhook
  BY <1>1, <1>8 DEF BeginSweep, BeginWebhook, Begin
<1>9. ASSUME NEW i \in Instances, Unreachable(i) \/ Aborted(i) \/ Evaluate(i) \/ RecordAction(i)
      PROVE  Advancing' /\ final'.at >= final.at
  BY <1>1, <1>2, <1>9 DEF Unreachable, Aborted, Evaluate, RecordAction, Visited
<1>10. CASE UNCHANGED vars
  BY <1>1, <1>10 DEF vars
<1> QED BY <1>3, <1>4, <1>5, <1>6, <1>7, <1>8, <1>9, <1>10 DEF Next

\* writeStateCache: the file that a start reads is never torn and never goes back
\* to an older snapshot, wherever the process stops.
THEOREM CacheAdvances == Spec => CacheOnlyAdvances
<1>1. Init => Advancing
  BY DEF Init, Advancing, NoFile
<1>2. Advancing /\ [Next]_vars => Advancing' /\ [final'.at >= final.at]_vars
  BY AdvancingKept
<1> QED BY <1>1, <1>2, PTL DEF Spec, CacheOnlyAdvances

-----------------------------------------------------------------------------
(***************************************************************************)
(* Views.                                                                  *)
(***************************************************************************)
\* A view of its type, whose dates are those of the figures it shows. Its file
\* report is of the evaluation that counted, unless that was a webhook batch.
Dated(v) ==
  /\ v.lastRun = v.would /\ v.reverseAsOf = v.reverse
  /\ v.stale = TRUE /\ v.would # 0 => v.asOf = v.would
  /\ v.kind # "webhook" => v.report \in {0, v.would}

Sound(v) == v \in Views /\ Len(v.actions) <= MaxActions /\ Dated(v)

\* A list of records that is not too long stays so, and is left as it is.
LEMMA CappedTyped ==
  ASSUME NEW s \in Seq(Time)
  PROVE  /\ Capped(s) \in Seq(Time) /\ Len(Capped(s)) <= MaxActions
         /\ Len(s) <= MaxActions => Capped(s) = s
<1> DEFINE n == IF Len(s) < MaxActions THEN Len(s) ELSE MaxActions
<1>1. Len(s) \in Nat
  BY LenProperties
<1>2. n \in Nat /\ n <= MaxActions /\ n <= Len(s)
  BY <1>1
<1>3. Capped(s) = SubSeq(s, 1, n)
  BY DEF Capped
<1>4. \A i \in 1 .. n : s[i] \in Time
  BY <1>1, <1>2, ElementOfSeq
<1> HIDE DEF n
<1>5. /\ SubSeq(s, 1, n) \in Seq(Time)
      /\ Len(SubSeq(s, 1, n)) = IF 1 <= n THEN n - 1 + 1 ELSE 0
  BY <1>2, <1>4, SubSeqProperties
<1>6. Len(s) <= MaxActions => n = Len(s)
  BY <1>1 DEF n
<1>7. SubSeq(s, 1, Len(s)) = s
  BY SubSeqFull
<1>8. Len(SubSeq(s, 1, n)) = n
  BY <1>2, <1>5
<1>9. Capped(s) \in Seq(Time) /\ Len(Capped(s)) <= MaxActions
  BY <1>2, <1>3, <1>5, <1>8
<1>10. ASSUME Len(s) <= MaxActions PROVE Capped(s) = s
  BY <1>3, <1>6, <1>7, <1>10
<1> QED BY <1>9, <1>10

LEMMA PrependedTyped ==
  ASSUME NEW s \in Seq(Time), NEW r \in Seq(Time)
  PROVE  Prepended(r, s) \in Seq(Time) /\ Len(Prepended(r, s)) <= MaxActions
<1>1. r \o s \in Seq(Time)
  BY ConcatProperties
<1> QED BY <1>1, CappedTyped DEF Prepended

LEMMA NewSound == Sound(NewView)
<1>1. <<>> \in Seq(Time) /\ Len(<<>>) = 0
  BY EmptySeq
<1>2. NewView \in Views
  BY <1>1 DEF NewView, Views, Time
<1> QED BY <1>1, <1>2 DEF Sound, Dated, NewView

\* A warm start keeps a view's figures and dates them.
LEMMA WarmedSound ==
  ASSUME NEW v, Sound(v), NEW w \in Time, NEW h \in BOOLEAN
  PROVE  Sound(Warmed(v, w, h)) /\ Warmed(v, w, h).stale = TRUE
<1>1. v \in Views /\ v.asOf \in Time /\ v.lastRun \in Time /\ v.report \in Time /\ v.stale \in BOOLEAN
  BY DEF Sound, Views
<1>2. ShownSince(v, w) \in Time
  BY <1>1 DEF ShownSince
<1>3. v.would # 0 => ShownSince(v, w) = v.would
  BY <1>1 DEF ShownSince, Sound, Dated
<1> DEFINE a == ShownSince(v, w)
           r == IF h THEN v.report ELSE 0
<1>4. Warmed(v, w, h) = [v EXCEPT !.stale = TRUE, !.asOf = a, !.report = r]
  BY DEF Warmed
<1>5. r \in Time
  BY <1>1 DEF Time
<1> HIDE DEF a, r
<1>6. [v EXCEPT !.stale = TRUE, !.asOf = a, !.report = r] \in Views
  BY <1>1, <1>2, <1>5 DEF Views, a
<1>7. /\ Warmed(v, w, h).lastRun = v.lastRun /\ Warmed(v, w, h).would = v.would
      /\ Warmed(v, w, h).reverse = v.reverse /\ Warmed(v, w, h).reverseAsOf = v.reverseAsOf
      /\ Warmed(v, w, h).actions = v.actions /\ Warmed(v, w, h).asOf = a
      /\ Warmed(v, w, h).stale = TRUE /\ Warmed(v, w, h).kind = v.kind
      /\ Warmed(v, w, h).report = r
  BY <1>1, <1>4 DEF Views
<1>8. r = v.report \/ r = 0
  BY DEF r
<1> QED BY <1>3, <1>4, <1>6, <1>7, <1>8 DEF Sound, Dated, a

\* What a visit that finishes nothing, or a click, leaves of a view.
LEMMA TouchedSound ==
  ASSUME NEW v, Sound(v), NEW t \in Time, NEW s \in {"none", "ok", "skipped"}
  PROVE  /\ Sound([v EXCEPT !.status = s])
         /\ Sound([v EXCEPT !.total = t, !.status = s])
<1>1. v \in Views
  BY DEF Sound
<1>2. [v EXCEPT !.status = s] \in Views /\ [v EXCEPT !.total = t, !.status = s] \in Views
  BY <1>1 DEF Views
<1> QED BY <1>1, <1>2 DEF Sound, Dated, Views

LEMMA RecordedSound ==
  ASSUME NEW v, Sound(v), NEW t \in Time
  PROVE  Sound([v EXCEPT !.actions = Prepended(<<t>>, @)])
<1>1. v \in Views /\ v.actions \in Seq(Time)
  BY DEF Sound, Views
<1>2. <<t>> \in Seq(Time)
  OBVIOUS
<1> DEFINE a == Prepended(<<t>>, v.actions)
<1>3. a \in Seq(Time) /\ Len(a) <= MaxActions
  BY <1>1, <1>2, PrependedTyped
<1> HIDE DEF a
<1>4. [v EXCEPT !.actions = a] \in Views
  BY <1>1, <1>3 DEF Views
<1>5. Sound([v EXCEPT !.actions = a])
  BY <1>1, <1>3, <1>4 DEF Sound, Dated, Views
<1> QED BY <1>5 DEF a

\* What a finished evaluation has computed.
Computed(w) ==
  /\ w.stale = FALSE /\ w.would = now' /\ w.kind = cycle
  /\ cycle = "sweep" => w.report \in {0, now'}

\* It replaces figures and dates together.
LEMMA EvaluatedSound ==
  ASSUME NEW v, Sound(v), now' \in Time, cycle \in {"sweep", "webhook"},
         NEW r \in BOOLEAN, NEW h \in BOOLEAN, NEW acted \in BOOLEAN
  PROVE  Sound(Evaluated(v, r, h, acted)) /\ Computed(Evaluated(v, r, h, acted))
<1>1. v \in Views /\ v.actions \in Seq(Time) /\ v.reverse \in Time /\ v.reverseAsOf \in Time
      /\ v.report \in Time /\ v.reverseStatus \in {"off", "ran", "skipped"}
      /\ v.reverseAsOf = v.reverse
  BY DEF Sound, Views, Dated
<1> DEFINE rev == IF r THEN now' ELSE v.reverse
           ras == IF r THEN now' ELSE v.reverseAsOf
           rst == IF r THEN "ran" ELSE IF cycle = "sweep" THEN "skipped" ELSE v.reverseStatus
           rep == IF cycle = "webhook" THEN v.report ELSE IF h THEN now' ELSE 0
           act == Prepended(IF acted THEN <<now'>> ELSE <<>>, v.actions)
           no  == FALSE
           ok  == "ok"
           w   == Evaluated(v, r, h, acted)
<1>2. act \in Seq(Time) /\ Len(act) <= MaxActions
  <2>1. <<now'>> \in Seq(Time) /\ <<>> \in Seq(Time)
    BY EmptySeq
  <2>2. (IF acted THEN <<now'>> ELSE <<>>) \in Seq(Time)
    BY <2>1
  <2> QED BY <1>1, <2>2, PrependedTyped
<1>3. /\ rev \in Time /\ ras \in Time /\ ras = rev /\ rst \in {"off", "ran", "skipped"}
      /\ rep \in Time /\ (cycle = "sweep" => rep \in {0, now'})
  BY <1>1 DEF Time
<1>4. w = [v EXCEPT !.stale = no, !.asOf = 0, !.total = now', !.would = now',
                    !.lastRun = now', !.kind = cycle, !.status = ok, !.reverse = rev,
                    !.reverseAsOf = ras, !.reverseStatus = rst, !.report = rep,
                    !.actions = act]
  BY Zenon DEF Evaluated
<1>0. no \in BOOLEAN /\ no = FALSE /\ ok \in {"none", "ok", "skipped"} /\ 0 \in Time
      /\ cycle \in {"none", "sweep", "webhook"}
  BY DEF Time
<1> HIDE DEF rev, ras, rst, rep, act, w, no, ok
<1>5. w \in Views
  BY <1>0, <1>1, <1>2, <1>3, <1>4 DEF Views
<1>6. /\ w.stale = FALSE /\ w.would = now' /\ w.lastRun = now' /\ w.kind = cycle
      /\ w.reverse = rev /\ w.reverseAsOf = ras /\ w.report = rep /\ w.actions = act
  BY <1>0, <1>1, <1>4 DEF Views
<1>7. Sound(w)
  BY <1>2, <1>3, <1>5, <1>6 DEF Sound, Dated
<1> QED BY <1>3, <1>6, <1>7 DEF w, Computed

-----------------------------------------------------------------------------
(***************************************************************************)
(* Types, and dates.                                                       *)
(***************************************************************************)
SoundFile(f) ==
  /\ f \in Files
  /\ Readable(f) => /\ f.at \in Time
                    /\ \A i \in Instances : f.views[i] # NoView => Sound(f.views[i])

SoundStore ==
  /\ store \in [Instances -> {NoView} \cup Views]
  /\ \A i \in Instances : store[i] # NoView => Sound(store[i])

SoundFiles == SoundFile(snap) /\ SoundFile(tmp) /\ SoundFile(final)

Control ==
  /\ cycle \in {"none", "sweep", "webhook"} /\ todo \subseteq config
  /\ saving \in {"no", "snapshot", "written"}
  /\ config \subseteq Instances /\ rooted \subseteq config
  /\ now \in Time /\ born \in Time /\ up \in BOOLEAN /\ stops \in 0 .. MaxStops

LEMMA SoundTyped == SoundStore /\ SoundFiles /\ Control => TypeOK /\ DatesAreTrue
<1> SUFFICES ASSUME SoundStore, SoundFiles, Control PROVE TypeOK /\ DatesAreTrue
  OBVIOUS
<1>1. TypeOK
  BY DEF SoundStore, SoundFiles, SoundFile, Control, Sound, TypeOK
<1>2. \A v \in Stored \cup Cached : Sound(v)
  BY DEF Stored, Cached, SoundStore, SoundFiles, SoundFile
<1>3. \A v \in Stored \cup Cached :
        /\ v.lastRun = v.would /\ v.reverseAsOf = v.reverse
        /\ v.stale /\ v.would # 0 => v.asOf = v.would
        /\ v.stale /\ v.report # 0 /\ v.kind # "webhook" => v.asOf = v.report
  <2> TAKE v \in Stored \cup Cached
  <2>1. Sound(v) /\ v.stale \in BOOLEAN
    BY <1>2 DEF Sound, Views
  <2> QED BY <2>1 DEF Sound, Dated
<1> QED BY <1>1, <1>3 DEF DatesAreTrue

LEMMA ControlKept == ASSUME Control, [Next]_vars PROVE Control'
<1> USE DEF Control
<1>1. ASSUME Ticks PROVE now' \in Time
  BY <1>1 DEF Ticks, Time
<1>2. CASE Boot
  <2>1. now' \in Time /\ born' = now'
    BY <1>1, <1>2 DEF Boot
  <2>2. config' \subseteq Instances /\ rooted' \subseteq config' /\ todo' = config'
    BY <1>2 DEF Boot
  <2> QED BY <1>2, <2>1, <2>2 DEF Boot, files
<1>3. CASE BeginSweep
  BY <1>3 DEF BeginSweep, Begin, files, process
<1>4. CASE BeginWebhook
  BY <1>4 DEF BeginWebhook, Begin, files, process
<1>5. ASSUME NEW i \in Instances, NEW v, Visited(i, v), now' \in Time PROVE Control'
  BY <1>5 DEF Visited, files, process
<1>6. ASSUME NEW i \in Instances, Unreachable(i) \/ Aborted(i) \/ Evaluate(i)
      PROVE  Control'
  BY <1>1, <1>5, <1>6 DEF Unreachable, Aborted, Evaluate
<1>7. ASSUME NEW i \in Instances, RecordAction(i) PROVE Control'
  BY <1>1, <1>7 DEF RecordAction, files, process
<1>8. CASE EndCycle
  BY <1>8 DEF EndCycle, process
<1>9. CASE WriteTemp \/ Rename
  BY <1>9 DEF WriteTemp, Rename, process
<1>10. CASE Stop
  <2>1. stops' \in 0 .. MaxStops
    BY <1>10 DEF Stop
  <2>2. up' \in BOOLEAN
    BY <1>10 DEF Stop
  <2>3. /\ cycle' \in {"none", "sweep", "webhook"} /\ todo' \subseteq config'
        /\ saving' \in {"no", "snapshot", "written"}
        /\ config' \subseteq Instances /\ rooted' \subseteq config'
    BY <1>10 DEF Stop
  <2>4. now' \in Time /\ born' \in Time
    BY <1>10 DEF Stop
  <2> QED BY <2>1, <2>2, <2>3, <2>4
<1>11. CASE UNCHANGED vars
  BY <1>11 DEF vars, files, process
<1> QED BY <1>2, <1>3, <1>4, <1>6, <1>7, <1>8, <1>9, <1>10, <1>11 DEF Next

LEMMA ShownSound == ASSUME SoundStore, NEW i \in Instances PROVE Sound(Shown(i))
BY NewSound DEF SoundStore, Shown

LEMMA StoreUpdated ==
  ASSUME SoundStore, NEW i \in Instances, NEW v, Sound(v), store' = [store EXCEPT ![i] = v]
  PROVE  SoundStore'
<1>1. v \in Views
  BY DEF Sound
<1> QED BY <1>1 DEF SoundStore

\* An evaluation is of a kind.
LEMMA EvaluateIs ==
  ASSUME Control, NEW i \in Instances, Evaluate(i)
  PROVE  /\ now' = now + 1 /\ now' \in Time /\ cycle \in {"sweep", "webhook"}
         /\ \E r \in BOOLEAN, h \in BOOLEAN, a \in BOOLEAN :
              store' = [store EXCEPT ![i] = Evaluated(Shown(i), r, h, a)]
<1>1. now' = now + 1 /\ now' \in Time
  BY DEF Evaluate, Ticks, Control, Time
<1>2. PICK r \in (IF cycle = "sweep" THEN BOOLEAN ELSE {FALSE}), a \in BOOLEAN :
        Visited(i, Evaluated(Shown(i), r, i \in rooted, a))
  BY DEF Evaluate
<1>3. cycle \in {"sweep", "webhook"} /\ r \in BOOLEAN
  BY <1>2 DEF Visited, Control
<1>4. store' = [store EXCEPT ![i] = Evaluated(Shown(i), r, i \in rooted, a)]
  BY <1>2 DEF Visited
<1> DEFINE h == i \in rooted
<1>5. h \in BOOLEAN
  OBVIOUS
<1>6. store' = [store EXCEPT ![i] = Evaluated(Shown(i), r, h, a)]
  BY <1>4
<1> HIDE DEF h
<1> QED BY <1>1, <1>3, <1>5, <1>6

\* What a start shows of a readable file.
LEMMA BootIs ==
  ASSUME SoundFiles, Boot
  PROVE  \A i \in Instances :
           \/ store'[i] = NoView
           \/ store'[i] \in Views /\ Sound(store'[i]) /\ store'[i].stale = TRUE
<1>1. PICK c \in SUBSET Instances, r \in SUBSET Instances :
        store' = [i \in Instances |->
            IF i \in c /\ Readable(final) /\ final.views[i] # NoView
            THEN Warmed(final.views[i], final.at, i \in r) ELSE NoView]
  BY DEF Boot
<1> TAKE i \in Instances
<1>2. CASE i \in c /\ Readable(final) /\ final.views[i] # NoView
  <2> DEFINE h == i \in r
  <2>1. store'[i] = Warmed(final.views[i], final.at, h)
    BY <1>1, <1>2
  <2>2. Sound(final.views[i]) /\ final.at \in Time /\ h \in BOOLEAN
    BY <1>2 DEF SoundFiles, SoundFile
  <2> HIDE DEF h
  <2>3. Sound(store'[i]) /\ store'[i].stale = TRUE
    BY <2>1, <2>2, WarmedSound
  <2> QED BY <2>3 DEF Sound
<1>3. CASE ~(i \in c /\ Readable(final) /\ final.views[i] # NoView)
  BY <1>1, <1>3
<1> QED BY <1>2, <1>3

LEMMA StoreKept == ASSUME SoundStore, SoundFiles, Control, [Next]_vars PROVE SoundStore'
<1>1. CASE UNCHANGED store
  BY <1>1 DEF SoundStore
<1>2. CASE Boot
  <2>1. DOMAIN store' = Instances /\ store' = [i \in Instances |-> store'[i]]
    BY <1>2 DEF Boot
  <2> QED BY <1>2, <2>1, BootIs DEF SoundStore
<1>3. ASSUME NEW i \in Instances, Unreachable(i) PROVE SoundStore'
  <2>1. Sound([Shown(i) EXCEPT !.status = "skipped"])
    BY ShownSound, TouchedSound DEF Control
  <2> QED BY <1>3, <2>1, StoreUpdated DEF Unreachable, Visited
<1>4. ASSUME NEW i \in Instances, Aborted(i) PROVE SoundStore'
  <2>1. now' \in Time
    BY <1>4 DEF Aborted, Ticks, Control, Time
  <2>2. Sound([Shown(i) EXCEPT !.total = now', !.status = "skipped"])
    BY <2>1, ShownSound, TouchedSound
  <2> QED BY <1>4, <2>2, StoreUpdated DEF Aborted, Visited
<1>5. ASSUME NEW i \in Instances, Evaluate(i) PROVE SoundStore'
  <2>1. PICK r \in BOOLEAN, h \in BOOLEAN, a \in BOOLEAN :
          store' = [store EXCEPT ![i] = Evaluated(Shown(i), r, h, a)]
    BY <1>5, EvaluateIs
  <2>2. now' \in Time /\ cycle \in {"sweep", "webhook"}
    BY <1>5, EvaluateIs
  <2>3. Sound(Evaluated(Shown(i), r, h, a))
    BY <2>2, ShownSound, EvaluatedSound
  <2> QED BY <2>1, <2>3, StoreUpdated
<1>6. ASSUME NEW i \in Instances, RecordAction(i) PROVE SoundStore'
  <2>1. now' \in Time
    BY <1>6 DEF RecordAction, Ticks, Control, Time
  <2>2. Sound([Shown(i) EXCEPT !.actions = Prepended(<<now'>>, @)])
    BY <2>1, ShownSound, RecordedSound
  <2> QED BY <1>6, <2>2, StoreUpdated DEF RecordAction
<1>7. CASE Stop
  BY <1>7 DEF Stop, Empty, SoundStore
<1> QED BY <1>1, <1>2, <1>3, <1>4, <1>5, <1>6, <1>7
        DEF Next, vars, BeginSweep, BeginWebhook, Begin, EndCycle, WriteTemp, Rename

LEMMA FilesKept == ASSUME SoundStore, SoundFiles, Control, [Next]_vars PROVE SoundFiles'
<1>1. CASE UNCHANGED files
  BY <1>1 DEF files, SoundFiles
<1>2. SoundFile(NoFile) /\ SoundFile(Torn)
  BY DEF SoundFile, Files, Readable
<1>3. CASE EndCycle
  <2> DEFINE f == [at |-> now, views |-> store]
  <2>1. f \in Files /\ f.at = now /\ f.views = store
    BY DEF Files, SoundStore, Control
  <2>2. SoundFile(f)
    BY <2>1 DEF SoundFile, SoundStore, Control
  <2>3. /\ tmp' = tmp /\ final' = final
        /\ snap' = f \/ snap' = snap
    BY <1>3 DEF EndCycle
  <2> HIDE DEF f
  <2> QED BY <2>2, <2>3 DEF SoundFiles
<1>4. CASE WriteTemp
  BY <1>2, <1>4 DEF WriteTemp, SoundFiles
<1>5. CASE Rename
  BY <1>2, <1>5 DEF Rename, SoundFiles
<1>6. CASE Stop
  BY <1>2, <1>6 DEF Stop, SoundFiles
<1> QED BY <1>1, <1>3, <1>4, <1>5, <1>6
        DEF Next, vars, Boot, BeginSweep, BeginWebhook, Begin, Unreachable, Aborted, Evaluate,
            RecordAction, Visited

LEMMA SoundAlways == Spec => [](SoundStore /\ SoundFiles /\ Control)
<1>1. Init => SoundStore /\ SoundFiles /\ Control
  <2> SUFFICES ASSUME Init PROVE SoundStore /\ SoundFiles /\ Control
    OBVIOUS
  <2>1. SoundStore
    BY DEF Init, SoundStore, Empty
  <2>2. SoundFile(NoFile)
    BY DEF SoundFile, Files, Readable
  <2>3. SoundFiles
    BY <2>2 DEF Init, SoundFiles
  <2>4. now \in Time /\ born \in Time /\ stops \in 0 .. MaxStops
    BY DEF Init, Time
  <2>5. up \in BOOLEAN
    BY DEF Init
  <2>6. /\ cycle \in {"none", "sweep", "webhook"} /\ todo \subseteq config
        /\ saving \in {"no", "snapshot", "written"}
        /\ config \subseteq Instances /\ rooted \subseteq config
    BY DEF Init
  <2>7. Control
    BY <2>4, <2>5, <2>6 DEF Control
  <2> QED BY <2>1, <2>3, <2>7
<1>2. SoundStore /\ SoundFiles /\ Control /\ [Next]_vars => (SoundStore /\ SoundFiles /\ Control)'
  BY StoreKept, FilesKept, ControlKept
<1> QED BY <1>1, <1>2, PTL DEF Spec

\* Every variable stays in its type, the list of records within its limit.
THEOREM TypeCorrect == Spec => []TypeOK
BY SoundAlways, SoundTyped, PTL

\* statsStore.warmStart: over any number of restarts, what a view says of its age
\* is true of its counts, and of its file report unless a webhook batch was the
\* last to evaluate it.
THEOREM DatesCorrect == Spec => []DatesAreTrue
BY SoundAlways, SoundTyped, PTL

-----------------------------------------------------------------------------
(***************************************************************************)
(* What this process has found.                                            *)
(***************************************************************************)
Found(v, since) ==
  v.stale = FALSE =>
    /\ v.would # 0 => v.would >= since
    /\ v.kind = "sweep" /\ v.report # 0 => v.report >= since

Current ==
  /\ born <= now
  /\ \A i \in Instances : store[i] # NoView => Found(store[i], born)

\* Fields that a visit without an evaluation, and a click, leave alone.
LEMMA FoundLike ==
  ASSUME NEW v, NEW w, NEW since, Found(v, since),
         w.stale = v.stale, w.would = v.would, w.kind = v.kind, w.report = v.report
  PROVE  Found(w, since)
BY DEF Found

LEMMA NewFound == ASSUME NEW since PROVE Found(NewView, since)
BY DEF Found, NewView

LEMMA EvaluatedFound ==
  ASSUME NEW v, Sound(v), now' \in Time, cycle \in {"sweep", "webhook"},
         NEW r \in BOOLEAN, NEW h \in BOOLEAN, NEW acted \in BOOLEAN,
         NEW since \in Nat, since <= now'
  PROVE  Found(Evaluated(v, r, h, acted), since)
<1> DEFINE w == Evaluated(v, r, h, acted)
<1>1. Computed(w)
  BY EvaluatedSound
<1>2. now' \in Nat
  BY DEF Time
<1> HIDE DEF w
<1>3. Found(w, since)
  BY <1>1, <1>2 DEF Found, Computed
<1> QED BY <1>3 DEF w

LEMMA ShownFound ==
  ASSUME Current, NEW i \in Instances PROVE Found(Shown(i), born)
BY NewFound DEF Current, Shown

LEMMA CurrentUpdated ==
  ASSUME SoundStore, Current, NEW i \in Instances, NEW v, Found(v, born),
         store' = [store EXCEPT ![i] = v], born' = born, born <= now'
  PROVE  Current'
BY DEF Current, SoundStore

LEMMA CurrentKept ==
  ASSUME SoundStore, SoundFiles, Control, Current, [Next]_vars
  PROVE  Current'
<1>0. now \in Nat /\ born \in Nat /\ born <= now
  BY DEF Control, Time, Current
<1>1. ASSUME NEW i \in Instances PROVE Sound(Shown(i)) /\ Shown(i) \in Views /\ Found(Shown(i), born)
  BY ShownSound, ShownFound DEF Sound
<1>2. CASE UNCHANGED <<store, born, now>>
  BY <1>2 DEF Current
<1>3. CASE Boot
  <2>1. born' = now' /\ now' \in Nat
    BY <1>0, <1>3 DEF Boot, Ticks
  <2>2. \A i \in Instances : store'[i] # NoView => store'[i].stale = TRUE
    BY <1>3, BootIs
  <2>3. \A i \in Instances : store'[i] # NoView => Found(store'[i], born')
    BY <2>2 DEF Found
  <2> QED BY <2>1, <2>3 DEF Current
<1>4. ASSUME NEW i \in Instances, Unreachable(i) PROVE Current'
  <2> DEFINE w == [Shown(i) EXCEPT !.status = "skipped"]
  <2>1. w.stale = Shown(i).stale /\ w.would = Shown(i).would /\ w.kind = Shown(i).kind
        /\ w.report = Shown(i).report
    BY <1>1 DEF Views
  <2>2. store' = [store EXCEPT ![i] = w] /\ born' = born /\ now' = now
    BY <1>4 DEF Unreachable, Visited, process
  <2> HIDE DEF w
  <2>3. Found(w, born)
    BY <1>1, <2>1, FoundLike
  <2> QED BY <1>0, <2>2, <2>3, CurrentUpdated
<1>5. ASSUME NEW i \in Instances, Aborted(i) PROVE Current'
  <2> DEFINE w == [Shown(i) EXCEPT !.total = now', !.status = "skipped"]
  <2>1. w.stale = Shown(i).stale /\ w.would = Shown(i).would /\ w.kind = Shown(i).kind
        /\ w.report = Shown(i).report
    BY <1>1 DEF Views
  <2>2. store' = [store EXCEPT ![i] = w] /\ born' = born /\ now' = now + 1
    BY <1>5 DEF Aborted, Ticks, Visited, process
  <2> HIDE DEF w
  <2>3. Found(w, born)
    BY <1>1, <2>1, FoundLike
  <2>4. born <= now'
    BY <1>0, <2>2
  <2> QED BY <2>2, <2>3, <2>4, CurrentUpdated, Zenon
<1>6. ASSUME NEW i \in Instances, Evaluate(i) PROVE Current'
  <2>1. PICK r \in BOOLEAN, h \in BOOLEAN, a \in BOOLEAN :
          store' = [store EXCEPT ![i] = Evaluated(Shown(i), r, h, a)]
    BY <1>6, EvaluateIs
  <2>2. now' \in Time /\ now' = now + 1 /\ cycle \in {"sweep", "webhook"}
    BY <1>6, EvaluateIs
  <2> DEFINE w == Evaluated(Shown(i), r, h, a)
  <2>3. born <= now' /\ born \in Nat
    BY <1>0, <2>2
  <2>4. store' = [store EXCEPT ![i] = w] /\ born' = born
    BY <1>6, <2>1 DEF Evaluate, Visited, process
  <2>5. Found(w, born)
    BY <1>1, <2>2, <2>3, EvaluatedFound
  <2> HIDE DEF w
  <2> QED BY <2>3, <2>4, <2>5, CurrentUpdated, Zenon
<1>7. ASSUME NEW i \in Instances, RecordAction(i) PROVE Current'
  <2> DEFINE w == [Shown(i) EXCEPT !.actions = Prepended(<<now'>>, @)]
  <2>1. w.stale = Shown(i).stale /\ w.would = Shown(i).would /\ w.kind = Shown(i).kind
        /\ w.report = Shown(i).report
    BY <1>1 DEF Views
  <2>2. store' = [store EXCEPT ![i] = w] /\ born' = born /\ now' = now + 1
    BY <1>7 DEF RecordAction, Ticks, process
  <2> HIDE DEF w
  <2>3. Found(w, born)
    BY <1>1, <2>1, FoundLike
  <2>4. born <= now'
    BY <1>0, <2>2
  <2> QED BY <2>2, <2>3, <2>4, CurrentUpdated, Zenon
<1>8. CASE Stop
  BY <1>8 DEF Stop, Empty, Current
<1> QED BY <1>2, <1>3, <1>4, <1>5, <1>6, <1>7, <1>8
        DEF Next, vars, process, BeginSweep, BeginWebhook, Begin, EndCycle, WriteTemp, Rename

\* recordInstance and warmStart: figures shown without the mark of a warm start
\* are this process's own.
THEOREM FreshFigures == Spec => []FreshIsOfThisProcess
<1>1. Init => Current
  BY DEF Init, Current, Empty
<1>2. SoundStore /\ SoundFiles /\ Control /\ Current /\ [Next]_vars => Current'
  BY CurrentKept
<1>3. SoundStore /\ Current => FreshIsOfThisProcess
  <2> SUFFICES ASSUME SoundStore, Current, NEW i \in Instances, store[i] # NoView,
                      ~store[i].stale
               PROVE  /\ store[i].would # 0 => store[i].would >= born
                      /\ store[i].kind = "sweep" /\ store[i].report # 0 => store[i].report >= born
    BY DEF FreshIsOfThisProcess, Stored
  <2>1. store[i].stale \in BOOLEAN
    BY DEF SoundStore, Sound, Views
  <2>2. store[i].stale = FALSE
    BY <2>1
  <2> QED BY <2>2 DEF Current, Found
<1> QED BY <1>1, <1>2, <1>3, SoundAlways, PTL DEF Spec

-----------------------------------------------------------------------------
(***************************************************************************)
(* The records of actions.                                                 *)
(***************************************************************************)
\* A new list is the old one with a record before it, cut to its limit.
Pushed(new, old) == new = old \/ new = Capped(<<Head(new)>> \o old)

LEMMA PrependedPushed ==
  ASSUME NEW s \in Seq(Time), NEW t \in Time
  PROVE  Pushed(Prepended(<<t>>, s), s)
<1>1. <<t>> \in Seq(Time) /\ Len(<<t>>) = 1 /\ <<t>>[1] = t /\ Len(s) \in Nat
  BY LenProperties
<1> DEFINE q == <<t>> \o s
           n == IF Len(q) < MaxActions THEN Len(q) ELSE MaxActions
<1>2. q \in Seq(Time) /\ Len(q) = 1 + Len(s) /\ q[1] = t
  BY <1>1, ConcatProperties
<1> HIDE DEF q
<1>3. n \in 1 .. Len(q)
  BY <1>1, <1>2
<1>4. Capped(q) = SubSeq(q, 1, n)
  BY DEF Capped
<1> HIDE DEF n
<1>5. 1 \in 1 .. Len(q)
  BY <1>1, <1>2
<1>6. Head(SubSeq(q, 1, n)) = q[1]
  BY <1>2, <1>3, <1>5, HeadTailOfSubSeq
<1>7. Head(Capped(q)) = t
  BY <1>2, <1>4, <1>6
<1>8. Prepended(<<t>>, s) = Capped(q)
  BY DEF Prepended, q
<1> QED BY <1>7, <1>8 DEF Pushed, q

LEMMA PushedByEvaluation ==
  ASSUME NEW v, Sound(v), now' \in Time, NEW r, NEW h, NEW acted \in BOOLEAN
  PROVE  Pushed(Evaluated(v, r, h, acted).actions, v.actions)
<1>1. v \in Views /\ v.actions \in Seq(Time) /\ Len(v.actions) <= MaxActions
  BY DEF Sound, Views
<1>2. Evaluated(v, r, h, acted).actions = Prepended(IF acted THEN <<now'>> ELSE <<>>, v.actions)
  BY <1>1 DEF Evaluated, Views
<1>3. CASE acted = TRUE
  BY <1>1, <1>2, <1>3, PrependedPushed
<1>4. CASE acted = FALSE
  <2>1. <<>> \o v.actions = v.actions
    BY <1>1, ConcatEmptySeq
  <2>2. Prepended(<<>>, v.actions) = v.actions
    BY <1>1, <2>1, CappedTyped DEF Prepended
  <2> QED BY <1>2, <1>4, <2>2 DEF Pushed
<1> QED BY <1>3, <1>4

LEMMA ListsPushed ==
  ASSUME SoundStore, SoundFiles, Control, Next, up, up', NEW i \in Instances, store[i] # NoView
  PROVE  Pushed(store'[i].actions, store[i].actions)
<1>0. Sound(store[i]) /\ store[i] \in Views /\ Shown(i) = store[i]
      /\ store[i].actions \in Seq(Time)
  BY DEF SoundStore, Sound, Shown, Views
<1>1. CASE UNCHANGED store
  BY <1>1 DEF Pushed
<1>2. ASSUME NEW j \in Instances, NEW v, store' = [store EXCEPT ![j] = v], j # i
      PROVE  Pushed(store'[i].actions, store[i].actions)
  BY <1>2 DEF Pushed, SoundStore
<1>3. ASSUME NEW v, store' = [store EXCEPT ![i] = v]
      PROVE  store'[i] = v
  BY <1>3 DEF SoundStore
<1>4. ASSUME NEW j \in Instances, Unreachable(j)
      PROVE  Pushed(store'[i].actions, store[i].actions)
  <2>1. store' = [store EXCEPT ![j] = [Shown(j) EXCEPT !.status = "skipped"]]
    BY <1>4 DEF Unreachable, Visited
  <2>2. CASE j = i
    <3>1. store'[i] = [store[i] EXCEPT !.status = "skipped"]
      BY <1>0, <1>3, <2>1, <2>2
    <3> QED BY <1>0, <3>1 DEF Views, Pushed
  <2> QED BY <1>2, <2>1, <2>2
<1>5. ASSUME NEW j \in Instances, Aborted(j)
      PROVE  Pushed(store'[i].actions, store[i].actions)
  <2>1. store' = [store EXCEPT ![j] = [Shown(j) EXCEPT !.total = now', !.status = "skipped"]]
    BY <1>5 DEF Aborted, Visited
  <2>2. CASE j = i
    <3>1. store'[i] = [store[i] EXCEPT !.total = now', !.status = "skipped"]
      BY <1>0, <1>3, <2>1, <2>2
    <3> QED BY <1>0, <3>1 DEF Views, Pushed
  <2> QED BY <1>2, <2>1, <2>2
<1>6. ASSUME NEW j \in Instances, Evaluate(j)
      PROVE  Pushed(store'[i].actions, store[i].actions)
  <2>1. PICK r \in BOOLEAN, h \in BOOLEAN, a \in BOOLEAN :
          store' = [store EXCEPT ![j] = Evaluated(Shown(j), r, h, a)]
    BY <1>6, EvaluateIs
  <2>2. now' \in Time
    BY <1>6, EvaluateIs
  <2>3. CASE j = i
    <3>1. store'[i] = Evaluated(store[i], r, h, a)
      BY <1>0, <1>3, <2>1, <2>3
    <3> QED BY <1>0, <2>2, <3>1, PushedByEvaluation
  <2> QED BY <1>2, <2>1, <2>3
<1>7. ASSUME NEW j \in Instances, RecordAction(j)
      PROVE  Pushed(store'[i].actions, store[i].actions)
  <2>1. store' = [store EXCEPT ![j] = [Shown(j) EXCEPT !.actions = Prepended(<<now'>>, @)]]
    BY <1>7 DEF RecordAction
  <2>2. now' \in Time
    BY <1>7 DEF RecordAction, Ticks, Control, Time
  <2>3. CASE j = i
    <3>1. store'[i] = [store[i] EXCEPT !.actions = Prepended(<<now'>>, @)]
      BY <1>0, <1>3, <2>1, <2>3
    <3>2. store'[i].actions = Prepended(<<now'>>, store[i].actions)
      BY <1>0, <3>1 DEF Views
    <3> QED BY <1>0, <2>2, <3>2, PrependedPushed
  <2> QED BY <1>2, <2>1, <2>3
<1>8. ~Boot /\ ~Stop
  BY DEF Boot, Stop
<1> QED BY <1>1, <1>4, <1>5, <1>6, <1>7, <1>8
        DEF Next, BeginSweep, BeginWebhook, Begin, EndCycle, WriteTemp, Rename

\* recordGUIAction and recordInstance: a record is lost only to newer ones.
THEOREM RecordsKept == Spec => NoRecordLost
<1>1. SoundStore /\ SoundFiles /\ Control /\ [Next]_vars =>
        [up /\ up' => \A i \in Instances :
           LET new == store'[i].actions
               old == store[i].actions
           IN  store[i] # NoView /\ new # old => new = Capped(<<Head(new)>> \o old)]_vars
  BY ListsPushed DEF Pushed
<1> QED BY <1>1, SoundAlways, PTL DEF Spec, NoRecordLost
=============================================================================
