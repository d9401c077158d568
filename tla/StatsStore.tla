----------------------------- MODULE StatsStore -----------------------------
(***************************************************************************)
(* What the dashboard shows of each instance (stats.go), and the file that *)
(* lets it show something right after a restart (statecache.go).           *)
(*                                                                         *)
(* A view is a handful of figures that different cycles compute: a sweep   *)
(* all of them, a webhook batch and an aborted evaluation some, and a      *)
(* click on a button none, though it leaves a record.  A figure is modelled*)
(* as the time at which it was computed, 0 for never, so that a view can   *)
(* be asked how old it really is; what it says of its own age is in        *)
(* lastRun, reverseAsOf, stale and asOf.                                   *)
(***************************************************************************)
EXTENDS Integers, FiniteSets, Sequences

CONSTANTS
  Instances,
  MaxActions,  \* maxLastActions
  MaxTime,     \* bound on the clock
  MaxStops     \* bound on the times the process ends

ASSUME InstancesAssumption == IsFiniteSet(Instances)
ASSUME BoundsAssumption ==
  MaxActions \in Nat \ {0} /\ MaxTime \in Nat \ {0} /\ MaxStops \in Nat

Time == 0 .. MaxTime

Views ==
  [total : Time, would : Time, reverse : Time, report : Time,
   lastRun : Time, kind : {"none", "sweep", "webhook"},
   status : {"none", "ok", "skipped"}, reverseStatus : {"off", "ran", "skipped"},
   reverseAsOf : Time, stale : BOOLEAN, asOf : Time, actions : Seq(Time)]

NoView  == [total |-> -1]
NewView ==
  [total |-> 0, would |-> 0, reverse |-> 0, report |-> 0, lastRun |-> 0, kind |-> "none",
   status |-> "none", reverseStatus |-> "off", reverseAsOf |-> 0, stale |-> FALSE, asOf |-> 0,
   actions |-> <<>>]

\* A cache file: none, one that is not whole (or a temporary one left over, which
\* nothing ever reads), or a whole one.
NoFile == [at |-> 0]
Torn   == [at |-> -1]
Files  == {NoFile, Torn} \cup [at : Time, views : [Instances -> {NoView} \cup Views]]

VARIABLES
  store,     \* the views of the running process
  cycle,     \* the cycle in progress: "none", "sweep" or "webhook"
  todo,      \* the instances it has still to visit
  saving,    \* "no", "snapshot", "written": how far the cache write has come
  snap,      \* the snapshot being written
  tmp, final,\* the two files
  config,    \* the instances the running process is configured with
  rooted,    \* those of them that have a media root, and so a file report
  now,       \* the clock
  born,      \* when the process started
  up, stops

process == <<config, rooted, born, up, stops>>
files   == <<saving, snap, tmp, final>>
vars    == <<store, cycle, todo, files, process, now>>

TypeOK ==
  /\ store \in [Instances -> {NoView} \cup Views]
  /\ cycle \in {"none", "sweep", "webhook"} /\ todo \subseteq config
  /\ saving \in {"no", "snapshot", "written"}
  /\ snap \in Files /\ tmp \in Files /\ final \in Files
  /\ config \subseteq Instances /\ rooted \subseteq config
  /\ now \in Time /\ born \in Time /\ up \in BOOLEAN /\ stops \in 0 .. MaxStops
  /\ \A i \in Instances : store[i] # NoView => Len(store[i].actions) <= MaxActions

Empty == [i \in Instances |-> NoView]

Init ==
  /\ store = Empty /\ cycle = "none" /\ todo = {}
  /\ saving = "no" /\ snap = NoFile /\ tmp = NoFile /\ final = NoFile
  /\ config = {} /\ rooted = {} /\ now = 1 /\ born = 1 /\ up = FALSE /\ stops = 0

-----------------------------------------------------------------------------
(***************************************************************************)
(* Starting: warmStartFromStateCache and statsStore.warmStart.             *)
(***************************************************************************)
Ticks == now < MaxTime /\ now' = now + 1

\* Mutant of ShownSince: the file's own date, whatever is in it.
ShownSinceWritten(v, writtenAt) == writtenAt

\* The date of the figures shown: the one they already carry, that of the cycle
\* that computed them, or for a view that was never computed the file's.
ShownSince(v, writtenAt) ==
  IF v.stale /\ v.asOf # 0 THEN v.asOf
  ELSE IF ~v.stale /\ v.lastRun # 0 THEN v.lastRun
  ELSE writtenAt

Warmed(v, writtenAt, hasRoots) ==
  [v EXCEPT !.stale = TRUE, !.asOf = ShownSince(v, writtenAt),
            !.report = IF hasRoots THEN @ ELSE 0]

\* Whatever keeps the file from being read as a whole makes a cold start.
Readable(file) == file \notin {NoFile, Torn}

\* A process starts, with a configuration of its own.
Boot ==
  /\ ~up /\ up' = TRUE /\ Ticks /\ born' = now'
  /\ \E c \in SUBSET Instances, r \in SUBSET Instances :
       /\ c # {} /\ r \subseteq c
       /\ config' = c /\ rooted' = r
       /\ store' = [i \in Instances |->
            IF i \in c /\ Readable(final) /\ final.views[i] # NoView
            THEN Warmed(final.views[i], final.at, i \in r) ELSE NoView]
  /\ cycle' = "sweep" /\ todo' = config'
  /\ UNCHANGED <<files, stops>>

-----------------------------------------------------------------------------
(***************************************************************************)
(* Cycles: runScanCycle, recordUnreachable and recordInstance.             *)
(***************************************************************************)
Begin(kind, instances) ==
  /\ up /\ cycle = "none" /\ saving = "no"
  /\ cycle' = kind /\ todo' = instances
  /\ UNCHANGED <<store, files, process, now>>

BeginSweep   == Begin("sweep", config)
BeginWebhook == \E i \in config : Begin("webhook", {i})

Shown(i) == IF store[i] = NoView THEN NewView ELSE store[i]

\* The visit of one instance ends and leaves view v.
Visited(i, v) ==
  /\ up /\ cycle # "none" /\ i \in todo
  /\ todo' = todo \ {i} /\ store' = [store EXCEPT ![i] = v]
  /\ UNCHANGED <<cycle, files, process>>

\* recordUnreachable: nothing but the status of the attempt.
Unreachable(i) ==
  /\ Visited(i, [Shown(i) EXCEPT !.status = "skipped"])
  /\ UNCHANGED now

\* Mutant of Capped: one record too many.
CappedLate(actions) ==
  SubSeq(actions, 1, IF Len(actions) <= MaxActions THEN Len(actions) ELSE MaxActions + 1)

Capped(actions) ==
  SubSeq(actions, 1, IF Len(actions) < MaxActions THEN Len(actions) ELSE MaxActions)

\* Mutant of Prepended: the cycle's own records replace those made meanwhile.
PrependedOver(records, actions) == IF records = <<>> THEN actions ELSE Capped(records)

Prepended(records, actions) == Capped(records \o actions)

\* Mutant of Aborted: whatever has read the library ends a warm start.
AbortedCurrent(i) ==
  /\ Ticks
  /\ Visited(i, [Shown(i) EXCEPT !.total = now', !.status = "skipped",
                                 !.stale = FALSE, !.asOf = 0])

\* An evaluation that was abandoned after the library had been read.
Aborted(i) ==
  /\ Ticks
  /\ Visited(i, [Shown(i) EXCEPT !.total = now', !.status = "skipped"])

\* recordInstance after a finished evaluation: each figure it computed is
\* replaced, each it did not is left as it was, and a warm start is over.  A
\* webhook batch has neither a reverse pass nor a file report; a sweep's reverse
\* pass may be skipped, and its report is off without a media root.
Evaluated(v, reverse, hasRoots, acted) ==
  [v EXCEPT
     !.stale = FALSE, !.asOf = 0,
     !.total = now', !.would = now', !.lastRun = now', !.kind = cycle, !.status = "ok",
     !.reverse = IF reverse THEN now' ELSE @, !.reverseAsOf = IF reverse THEN now' ELSE @,
     !.reverseStatus = IF reverse THEN "ran" ELSE IF cycle = "sweep" THEN "skipped" ELSE @,
     !.report = IF cycle = "webhook" THEN @ ELSE IF hasRoots THEN now' ELSE 0,
     !.actions = Prepended(IF acted THEN <<now'>> ELSE <<>>, @)]

\* A pass in either direction may have written something.
Evaluate(i) ==
  /\ Ticks
  /\ \E reverse \in IF cycle = "sweep" THEN BOOLEAN ELSE {FALSE}, acted \in BOOLEAN :
       Visited(i, Evaluated(Shown(i), reverse, i \in rooted, acted))

\* A full scan that was not cut short is saved; a webhook batch is not.
EndCycle ==
  /\ up /\ cycle # "none" /\ todo = {}
  /\ cycle' = "none"
  /\ IF cycle = "sweep"
       THEN /\ saving' = "snapshot"
            /\ snap' = [at |-> now, views |-> store]
       ELSE UNCHANGED <<saving, snap>>
  /\ UNCHANGED <<store, todo, tmp, final, process, now>>

\* recordGUIAction, at any moment, for any configured instance.
RecordAction(i) ==
  /\ up /\ Ticks
  /\ store' = [store EXCEPT ![i] =
                 [Shown(i) EXCEPT !.actions = Prepended(<<now'>>, @)]]
  /\ UNCHANGED <<cycle, todo, files, process>>

-----------------------------------------------------------------------------
(***************************************************************************)
(* writeStateCache: the snapshot goes to a file of its own, which is then  *)
(* moved into place.  Any failure costs this cycle's snapshot only.        *)
(***************************************************************************)
\* Mutant of WriteTemp: the file in place is written over.
WriteInPlace ==
  /\ up /\ saving = "snapshot"
  /\ \/ saving' = "written" /\ tmp' = snap /\ final' = snap
     \/ saving' = "no" /\ final' \in {final, Torn} /\ UNCHANGED tmp
  /\ snap' = NoFile
  /\ UNCHANGED <<store, cycle, todo, process, now>>

WriteTemp ==
  /\ up /\ saving = "snapshot"
  /\ \/ saving' = "written" /\ tmp' = snap
     \/ saving' = "no" /\ tmp' = Torn
  /\ snap' = NoFile
  /\ UNCHANGED <<store, cycle, todo, final, process, now>>

Rename ==
  /\ up /\ saving = "written"
  /\ saving' = "no"
  /\ \/ final' = tmp /\ tmp' = NoFile
     \/ tmp' = Torn /\ UNCHANGED final
  /\ UNCHANGED <<store, cycle, todo, snap, process, now>>

\* The process ends at any moment, also in the middle of writing the file.
Stop ==
  /\ up /\ stops < MaxStops
  /\ up' = FALSE /\ stops' = stops + 1
  /\ store' = Empty /\ cycle' = "none" /\ todo' = {} /\ config' = {} /\ rooted' = {}
  /\ saving' = "no" /\ snap' = NoFile
  /\ tmp' = IF saving = "no" THEN tmp ELSE Torn
  /\ UNCHANGED <<final, born, now>>

Next ==
  \/ Boot \/ BeginSweep \/ BeginWebhook
  \/ \E i \in Instances : Unreachable(i) \/ Aborted(i) \/ Evaluate(i) \/ RecordAction(i)
  \/ EndCycle \/ WriteTemp \/ Rename \/ Stop

Spec == Init /\ [][Next]_vars

-----------------------------------------------------------------------------
(***************************************************************************)
(* Properties.                                                             *)
(***************************************************************************)
Stored == {store[i] : i \in Instances} \ {NoView}
Cached == IF Readable(final) THEN {final.views[i] : i \in Instances} \ {NoView} ELSE {}

\* What a view says of its age is true of the counts shown, and of the file report
\* too unless a webhook batch, which ends a warm start and makes no report, was the
\* last to evaluate the view. No number of restarts makes these younger.
DatesAreTrue ==
  \A v \in Stored \cup Cached :
    /\ v.lastRun = v.would /\ v.reverseAsOf = v.reverse
    /\ v.stale /\ v.would # 0 => v.asOf = v.would
    /\ v.stale /\ v.report # 0 /\ v.kind # "webhook" => v.asOf = v.report

\* A view that is not marked as a warm start's shows what this process found: its
\* would-be writes always, its file report when a sweep was the last to evaluate it.
FreshIsOfThisProcess ==
  \A v \in Stored : ~v.stale =>
    /\ v.would # 0 => v.would >= born
    /\ v.kind = "sweep" /\ v.report # 0 => v.report >= born

\* The cache file that a start would read is never torn and never goes back to an
\* older snapshot, wherever the process stops and whatever part of a write fails.
CacheOnlyAdvances == [][final'.at >= final.at]_vars

\* While the process runs, the record of an action leaves the list only when newer
\* ones push it out, whether a click or a cycle adds them.
NoRecordLost ==
  [][up /\ up' => \A i \in Instances :
       LET new == store'[i].actions
           old == store[i].actions
       IN  store[i] # NoView /\ new # old => new = Capped(<<Head(new)>> \o old)]_vars
=============================================================================
