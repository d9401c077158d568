# A specification of cutoffarr

cutoffarr is a small daemon beside Radarr and Sonarr. It reads each instance's
library, decides which monitored movies and seasons have reached their quality
profile's cutoffs, and sets those to unmonitored. A reverse scan looks for
unmonitored items that should not be, and re-monitors them if it is allowed to.
This directory holds TLA+ models of the parts of it where ordering, failure and
concurrency decide the outcome, the TLC configurations that check them, and
machine-checked proofs of their safety properties.

All the code is one flat Go package; paths below are relative to the repository.
`PROJECT.json` maps every definition to the lines it models.

## 1. The system

### Processes and shared state

| Process | Runs | Shares |
|---|---|---|
| the loop goroutine (`daemon.go` `loop`) | every scheduled evaluation: webhook cycles, manual scans, sweeps | debounce queue, scan coordinator, statistics |
| HTTP handlers (`webhook.go`, `webui.go`, `actions.go`) | one goroutine per request: webhooks, `POST /api/scan`, actions | the same, and the *arr servers, which an action writes to by itself |
| the shutdown handler (`installShutdownHandler`) | waits for SIGTERM or SIGINT, twice | the root context |
| Radarr and Sonarr | the servers, changed by people and by their own imports | everything the daemon reads and writes |

### Components

| Component | State | Operations | Correct when |
|---|---|---|---|
| Webhook listener and debounce queue (`webhook.go`, `scope.go`) | three maps (deadline, seasons, wholeItem), a one-slot channel | add, expired, nextDeadline | an evaluation gets exactly what events claimed; a scope is never widened or narrowed; the queue is bounded and forgets only what it says it forgets |
| Daemon loop (`daemon.go`) | the sweep's timer, the cycle in progress | the loop body, `nextWait`, `runWebhookCycles`, `runScanCycle` | it never sleeps through work, serves everything in the end, stops when told to |
| Scan coordinator (`daemon.go`) | running, pending, a one-slot channel | requestScan, takePending, begin, end | a queued scan runs; the caller is told the truth |
| Shutdown (`daemon.go`) | root context, signal channel | first signal cancels, second exits | the state cache never shows part of a library as the whole |
| Sonarr decision engine (`decision.go`, `reverse.go`) | none between cycles | evaluateSeries in two directions, cross-check, gates, write passes | what it decides is so when it is written |
| Sonarr season writer (`sonarr_writer.go`) | none: up to five HTTP calls in sequence | unmonitorSeason, remonitorSeason | no monitored episode is left in an unmonitored season; a half-done season is finished; nobody else's change is undone |
| Radarr engine and movie writer (`decision.go`, `writer.go`) | none | evaluateMovie, writeMovieMonitored | the same, with one flag |
| Re-monitor, trash, merge actions (`actions.go`) | a mutex over actions; files on disk | run, remonitor, trash, mergeTwin | a refusal changes nothing; a partial failure is reported as one |
| Statistics and state cache (`stats.go`, `statecache.go`) | per-instance figures; a JSON file | publish, recordInstance, recordUnreachable, warmStart, write, load | partial figures never pass for whole ones; the file is written atomically |
| File report (`filereport.go`) | none: a walk of the disk | classify, detect case collisions | a file is reported as extra only on complete evidence |
| Readers (`radarr.go`, `sonarr.go`) | none | paging of the wanted list | an incomplete list is never used as a complete one |
| HTTP client, configuration, web UI (`client.go`, `connectivity.go`, `config.go`, `main.go`, `webui.go`) | none | I/O, parsing, rendering | not modelled |

Handlers and the loop meet in the queue and the coordinator, each of which has
its own lock and wakes the loop through its own one-slot channel. The loop and
an action meet only in the servers: an action does not take any lock the loop
takes.

### What is hard

`PROJECT.json` lists every hazard at its line. In short: a handler reads the
clock before it takes the queue's lock; the loop computes its wait before it
sleeps; a scan is taken before it is marked running; shutdown can fall between
any two items; a season is changed in two writes, each of which can be lost,
half-applied, or applied and its answer lost; the second write sends back a whole
object read several calls earlier; what was decided on may no longer be so when
it is written; an action writes beside a sweep; a list is read in pages while it
changes; a view mixes figures of different cycles and processes, and outlives
them in a file; a button acts on a report of yesterday's disk.

## 2. Modules

| Module | Models | Role |
|---|---|---|
| `PendingScopes` | what the debounce queue promises | abstract specification |
| `DebounceQueue` | handlers, queue and the loop's clock | implements `PendingScopes` |
| `DaemonLoop` | loop, coordinator, cycles, shutdown; instantiates `PendingScopes` for its queue | component |
| `SeasonWriter` | the season writer, the passes that feed it, the action beside them, the server | component |
| `WantedPages` | how a wanted list is read page by page | operators |
| `CrossCheck` | the sample, the agreement, the three write gates | operators |
| `RadarrCycle` | evaluations of a Radarr library from the first read to the last write, the server; extends the two above | component |
| `StatsStore` | the dashboard's figures and the cache file, over restarts | component |
| `FileReport` | tracked set, classification, case twins, skipped roots | operators |
| `FileActions` | the trash and merge buttons, sweeps' reports, the disk and the library; extends `FileReport` | component |
| `DebounceQueueProofs`, `DaemonLoopProofs`, `SeasonWriterProofs`, `CrossCheckProofs`, `RadarrCycleProofs`, `StatsStoreProofs`, `FileActionsProofs` | | theorems |
| `MC*` | instances for TLC | |

A definition called a mutant, which a comment above it says, is a plausible
mistake in the definition it is a mutant of. No specification uses one:
`PROJECT.json` names, for each property, the mutant that breaks it.

### DebounceQueue

`deadline`, `seasons` and `wholeItem` are the queue's three maps, `notify` its
channel. `HandleWebhook` is a request up to the clock reading (`handleWebhook`),
with the payload reduced to the shape of its `episodes` value; `Add` is
`debounceQueue.add` under its lock, refusal, eviction and all; `ReadClock` and
`Expired` are the loop's two steps; `Wake` is the receive in its select.
`HandedScope` is what `webhookScope` and `containsSeason` make of the batch.
The refinement maps the three maps to one scope per item: `{}`, a set of seasons,
or `{Whole}`.

### DaemonLoop

`pc` is the loop goroutine's place in `loop`, and each check, lock and wait is a
step. The queue is `PendingScopes`, which `DebounceQueue` has been shown to
implement. A cycle visits its instances one by one; reading the library and
evaluating it are one visit with a start and an end. `unseen` and `reading` are
history variables: the items some event has named and no evaluation has begun to
cover since, and those that the evaluation under way will have covered if it
finishes; if it fails they are `unseen` again. The startup scan is the initial state: the coordinator says
running before the HTTP server exists. `pc = "stopped"` is the return of
`runDaemon`, `"killed"` the second signal. `InHand` and `StepsLeft` belong to
the properties: who will still come to an item, and how many steps the loop may
take once it has been told to stop.

### SeasonWriter

`series`, `mon`, `ready`, `below` and `scores` are Sonarr: the series object with
its flags, each episode's flag, whether a season is complete and aired, which
episodes' files are below the quality cutoff and whether a season's files reach
the custom-format cutoff. `Wanted(s, m)` is `/wanted/cutoff` for monitored or
unmonitored episodes: the forward pass fetches it without a filter, which Sonarr
answers with monitored episodes (`sonarr.go:415`, `radarr_test.go:1279`), the
reverse pass with `monitored=false`. `SweepForward` and `SweepReverse` decide,
the second from the library as the first read it but from the present wanted
list and episodes, as `runSonarr` does. `Start` to `PutSeason` are
`writeSeasonMonitored`, one step per HTTP call; `Proceed` is the checks between
the reads and the writes. `Click` is the re-monitor action. A write that times
out (`TimesOut`) is counted as an error and stays in `late`; `LateArrives`
applies it, whole or in part, at any later moment, after a crash too.

Nothing keeps people, imports, the other writer or a late write from falling
between two calls of an operation. So that the properties can say what an
operation still promises then, `seen` records for each writer what has been so
since its operation began: whether the series could be written and which seasons
were ready at some moment, which seasons anyone else has changed (`touched`), and
whether it has met nobody, a writer of this program, or an outsider (`met`).
It is history: no action reads it, and `work` is the variables without it.

An operation ends with the outcome the pass counts it under. `Crash` is a kill
anywhere. A graceful shutdown lets the season in hand finish and drops the rest,
which is a `Crash` between two operations.

### WantedPages and CrossCheck

`Paged(f, list)` is one turn of the loop of `fetchWantedCutoffPages`: the next
page of the list as it is at that request, the count, the total of the first page,
and the four ways to stop. Radarr's and Sonarr's lists are read by the same loop.
`always` and `grew` are history: what was listed at every request, and whether a
record has arrived between two of them.

`Sampled` is `sampleEveryKth` over a pool in its order, `CrossChecked` is
`runCrossCheck` over the two pools of movies, and `MayUnmonitor`, `MayRecover`
and `MayRemonitor` say when the three functions that give reasons for blocking
give none.

### RadarrCycle

`radarr` is the server, movie by movie: the flag, the exclusion tag, whether there
is a file and whether its profile has rules, the library's own verdict on its
quality (`told`, `below`), and whether its score reaches the cutoff. `below` also
decides whether the wanted list holds the movie; `Listing` is that list, monitored
movies for the forward pass and the others for the reverse one.

An evaluation is `Begin` (the library is read), `GetPage` for the wanted list,
`Evaluate` (every movie decided, the cross-check, the gate, the jobs in scope),
the forward writes, `BeginReverse`, the pages of the other list, `EvaluateReverse`
over the library of the start, and the reverse writes. `origin` tells a sweep
from a webhook batch, which has no reverse pass, and from a click, which has no
forward writes (`evalScope.noForwardWrites`). Each write is `Take`, `Get`, for
the reverse direction `Verify`, and `Put`. A PUT may be applied or not, and its
answer confirm, say nothing or fail; or it times out and `LateArrives` applies it
at any later moment, in the middle of another evaluation or after a restart.
Radarr stores the flag and the tags that a PUT carries and ignores what it says
of files. `Stop` requests shutdown, which is noticed between two movies;
`Restart` is the end of the process, orderly or not.

### StatsStore

A figure is modelled as the time at which it was computed, 0 for never. A view
then says how old its figures are (`lastRun`, `reverseAsOf`, `stale`, `asOf`) and
at the same time shows how old they are, and the properties compare the two.
`Unreachable`, `Aborted` and `Evaluated` are the three ways an instance's visit
ends; `RecordAction` is `recordGUIAction`, on a goroutine of its own. `WriteTemp`
and `Rename` are `writeStateCache`, either of which may fail, and `Stop` ends the
process anywhere between them. `Boot` loads what is in place, with a
configuration that may have lost or gained instances and media roots.

### FileReport and FileActions

A place is a name in a folder; `RootOf`, `Fold`, `FoldOfName`, `Rule`, `SeasonOf`
and `Located` are what the code reads off a path's spelling. `TrackedSet(l, a)`
is what the code builds from an answer about library `l` that leaves out what `a`
says. `Classify` is `classifyFileReportPath`, in the order of its checks;
`SkipsRoot` holds the heuristics that drop a root before or after the walk, and
`Report` is what an instance reports.

In `FileActions`, `disk`, `dirs`, `mounted` and `lib` are the world. A sweep's
report takes its tracked set (`SweepReads`) before it walks (`SweepWalks`).
`act` is the click in hand: `ClickTrash` or `ClickMerge` finds the finding in the
stored report, `ReadLive` reads the library again, `VerifyTrash` or `VerifyMerge`
walks again and compares, and then come the moves, each a look and a rename of
its own, since others work on the disk in between. `Fail` is a system call that
fails, and nothing is rolled back, as in the code. The trash keeps its entries
under time stamp, folder and a number; two clicks in the same second share the
stamp, so that names are taken.

## 3. Runs

| Run | Asks | Bounds |
|---|---|---|
| `debounce_queue` | type, one scope per item, bounded, never forgotten, implements `PendingScopes` | 3 items, 2 seasons, 2 handlers, room for 2, clock 0..1 |
| `daemon_loop` | no lost wake-up, no item dropped on its way to an evaluation, only complete cycles saved, no work after shutdown, which ends | 2 instances, 1 item each, room for both, 2 signals |
| `daemon_live` | requests served, pending items taken, events covered | the same, room for 1, no signal |
| `radarr_cycle` | wanted list complete, counts, evidence, repairs, one direction | 3 movies, one to a page, sample of 2; 1 edit, 1 late write, 1 stop, 1 lost score request per evaluation |
| `wanted_whole` | *violated*: a list that counts as complete holds what was in it throughout | the same |
| `stats_store` | dates true, fresh figures fresh, cache only advances, no record lost | 2 instances, room for 2 records, clock to 5, 2 stops |
| `disk` | nothing lost, nothing tracked moved, "performed" true, no tracked file reported | 1 Sonarr root, 3 folders of which 2 are twins, 2 names, 4 files; 2 edits, 1 sweep |
| `season_sweep` | what sweeps alone may never do, five properties and the type | 1 season of 2 episodes, interchanged; 2 edits, 1 crash and 2 writes on their way at any moment |
| `season_pair` | what a sweep and a click may do to each other | 2 seasons with 1 episode each, interchanged |
| `season_live` | a season to be unmonitored ends up so; half-done ones also when the ordinary gate never opens | 1 season, 2 episodes, 2 edits at any moment, 1 crash |
| `season_output` | *violated*: what the program unmonitors is no finding | 1 season, 2 episodes |
| `season_stale` | *violated*: a season PUT changes one value | 2 seasons with 1 episode each |

Why these are enough to be interesting:

- **Queue.** Three items and room for two make every third event evict, with the
  choice of victim; two handlers give the reversed order of clock readings; one
  tick and a debounce of one tick make timers due, not yet due, and set
  in the past.
- **Loop.** Two instances give a full cycle that shutdown can cut in two, and,
  since the queue has room for both items, a batch that needs two webhook cycles.
  Two signals reach the forced exit; a third finds nobody listening. In
  `daemon_live` every second event evicts, so that a sweep has to cover it.
- **Season writer.** Every combination of flags, readiness and cutoffs is an
  initial state, so one edit reaches every change between decision and write, and
  a second one falls on what the first has led to. A season of two episodes has
  half-applied writes and mixed states; two late writes overtake each other, an
  operation and a restart. In `season_pair` the second season is the bystander
  whose flag a whole-object PUT reverts; there are no edits, since the run asks
  what the program does to itself. That each property holds for both writers,
  edits and late writes together is proved. The episodes of a season are alike,
  and so are seasons of one episode, hence the symmetry. Sweeps repeat without
  bound. `Gates` names the cross-check outcomes a run allows, since the
  cross-check compares data that is not in this model.
- **Radarr.** One record to a page makes every list of two or more change between
  pages. A sample of two is full with three candidates and has room with fewer.
  The libraries hold movies with a verdict and without, below the cutoff
  monitored and not, with a bad score, and without a file. Evaluations repeat, so
  a late write lands in any of the next one's steps. About 1.6 million states.
- **Statistics.** Two stops give a cache that is loaded, saved again and loaded
  again; five ticks let each of three processes compute something; two records
  let a third push one out. About 1.5 million states.
- **Disk.** The three starts have a twin with a taken and a free name, a
  duplicate, and an orphan. Two edits give a file that is replaced and a share
  that goes, in any order around the click's steps; the gaps leave out any one
  title or file of an answer. Both names are videos, and one lies in no season
  folder. About 310 thousand states.

`CHECK_DEADLOCK FALSE` is set where bounds end the run: `radarr_cycle`,
`wanted_whole`, `stats_store`, whose clock stops, and `disk`.

In `SeasonWriter` and `RadarrCycle` edits fall anywhere. The API offers no
conditional write, so an edit between an operation's read and its PUT can always
be lost. The properties therefore say what nobody can take away (a series that was
excluded all the while is not written), what holds in every season that nobody
else has `touched` since the operation began, and what holds of an operation that
has met no outsider; `RepairsOnlyFailing` likewise speaks of movies that nobody
has touched since their turn came.

### Fairness

- `DaemonLoop`: weak fairness of the loop's own steps (each request it makes has
  a timeout, and its select returns), of its timer, of the first signal's
  receive, of time (`KeyRipens`, `SweepComesDue`). Strong fairness of `VisitEnd`
  for each instance: one that is contacted again and again is reached at times.
  `EventIsCovered` rests on it: its target is the end of an evaluation, and an
  instance that is down at every sweep would never get there.
  Handlers, requests and signals are never obliged to happen.
  The liveness properties of the queue assume that events cease, because webhook
  batches go before scans and sweeps and could starve them.
- `SeasonWriter`: weak fairness of the sweep's steps, since sweeps recur and each
  request has a timeout; strong fairness, per season, of the calls that unmonitor
  it succeeding at times. Whether the cross-check opens a gate depends on data, so
  that is a premise of each property instead (`SF_work(Opens(...)) =>`): an
  instance whose cross-check never passes is promised nothing. Fairness is over
  `work`, so that a step that changes the history alone does not count. No write
  is late in `season_live`, and edits cease by their bound.
- The other specifications state no fairness: their properties are safety.

## 4. What the runs found

Three runs end in a violation of something the repository says.

1. **`season_stale`.** `sonarr_writer.go:239` says that each PUT changes exactly
   one value and preserves what another season's write changed. A click beside a
   sweep reads the series, the sweep unmonitors another season of it, and the
   click's PUT puts that season's flag back.
2. **`season_output`.** `docs/REFERENCE.md:297` says that an unmonitored item
   that meets the criteria is cutoffarr's own output "and every item it has ever
   unmonitored looks like that". The forward pass sees only monitored episodes
   below the cutoff, so a season whose one such episode was unmonitored by hand
   is unmonitored whole, and the reverse pass, which sees the unmonitored ones,
   reports it at once and may re-monitor all of it.
3. **`wanted_whole`.** `radarr.go:402` promises that an incomplete wanted list is
   never "handed off as if it were the whole truth". The pages are counted against
   the total of the first one, so a record that enters the list between two pages
   makes a later page repeat one, the count is reached, and a movie that was
   listed all along is missing. `NoneMissed` shows that nothing is missing as long
   as no record enters; `UnmonitorsNoneBelow` shows that the cross-check keeps a
   missing movie from being unmonitored if its sample has room for every
   candidate and the library has a verdict on it.

Three more differences shaped properties without a run of their own.

- `FreshIsOfThisProcess` and `DatesAreTrue` speak of a file report only when a
  sweep was the last to evaluate the view. `recordInstance` clears `Stale` and
  `AsOf`, the only marks of the report's age, whenever an evaluation finished
  (`stats.go:818`), and a webhook batch finishes one without computing a file
  report: a warm-started report loses its mark. If the sweeps after it find the
  instance unreachable, the report is saved as it is with `stale: false`, and the
  next start dates it by `lastRun` (`stats.go:975`), the time of the webhook batch,
  though an earlier process computed it. The comment at `stats.go:800` describes
  just this for an aborted cycle and keeps the marks there; a finished webhook
  batch has the same effect. For the counts both properties hold without exception.
- `actions.go:349` says that a collision never overwrites. The merge looks at the
  destination (398) and renames (415), and a rename replaces what has appeared in
  between. `Replaced` names that case and `NothingIsLost` and `MovesNoTracked`
  except it, and nothing else.
- `requestScan` documents "nothing was running, so this starts right away"
  (`daemon.go:449`). `takePending` and the sweep's due check come before `begin`,
  so a request between them gets this answer and another full scan starts first.
  The scan still runs (`RequestIsServed`); the wording is not modelled.

## 5. What is proved

Every invariant and every safety property of a passing run is proved by TLAPS, for
every value of the constants their assumptions allow. The last step of each is the invariance argument: `Init` establishes the
invariant, each action preserves it, and the property follows from it.

**`DebounceQueueProofs`**, for any finite set of items, any seasons and handlers,
any positive limit and any debounce. `PendingHasOneScope` is not inductive: a
handler about to add a claim of seasons that names none would create an item with
an empty scope. `IInv` adds `ClaimsNameSeasons`, that no handler ever holds such a
claim, a fact about payload decoding (`ClaimsReadable`). `QueueBounded` adds
finiteness of the queue's domain. For `Refinement` each step is mapped to its
abstract one: a clock tick to `Ripen` of the keys it makes due, a refused `Add`
and a clock reading to a step that ripens nothing, `Expired` to `Take`.

**`DaemonLoopProofs`**, for any instances, items, limit and number of signals.
`NoSleepThroughWork` extends `NoLostWakeup` back to the moment `takePending` has
found no request (`Wakes`): from there on a request leaves its token, and only
waking takes one. `NoPartialCache` rests on `Saves`: only shutdown cuts a cycle
short, so the check before the save sees it. `NoneDropped` by `Hands`: a batch is
what is left for further webhook cycles, only a cycle visits, and a handler that
is about to force the exit has cancelled the context. `ShutdownIsShort` by case
analysis over the loop's steps: a cancelled context turns each of them to the end,
so `StepsLeft`, at most nine, falls. It is the safety half of `ShutdownEnds`.

**`SeasonWriterProofs`**, for any seasons and episodes, one writer or both, and
any number of edits, crashes and late writes, wherever they fall. Three
invariants, each about what an operation has gone by:

- `Sighted`: the history holds the present moment, and whoever is past the read of
  the series has seen it writable, whoever is past the read of the episodes has
  seen its season ready. It gives `SeriesRespected` and `OnlyReadyWritten`.
- `Calm`, of an operation that has met no outsider: the seasons it has seen ready
  still are, the series is as it was read, and a flag that differs from the one
  read was changed while its season was ready. That is why putting it back is no
  harm, which is half of `OnlyConcurrentReverted`. The step of another writer
  is the hard case: that writer has met no outsider either, so `Calm` holds of
  what it writes back too.
- `Steady`, of the seasons nobody else has touched: `Kept`, until the first write
  the season is as the operation found it, and its flag is as read until the last
  one; and `Fit`, of the operation's own season: from the first write on its ids
  are exactly the episodes that needed it, and at the season write none is left.
  It gives `NoneStranded`, `OnlyCleanRepaired`, `OutcomesTrue` and the rest of
  `OnlyConcurrentReverted`.

**`CrossCheckProofs`**: the sample is a subset of its pool, all of it when there
is room, and exactly `SampleSize` of it otherwise; an open write gate means that
list and library agree on a candidate, and on all with a verdict unless the sample
was full; what opens a write gate opens the recovery gate.

**`RadarrCycleProofs`**, for any libraries, page size, sample size and bounds:

- `WantedComplete`: while nothing enters the list, what is listed at every request
  is a subset that only shrinks, so ranks only fall. `FetchKnows` says that every
  record of rank below the pages read has been read.
- `OneDirection`: by `Directed`, a pass's jobs were found the other way in the
  library read at its start.
- `WrittenOnEvidence`, `NoneBelowUnmonitored`: by `Evident`, which the gate
  establishes (`OpenOnEvidence`) and no step of the pass disturbs.
- `RepairsAreDue`: by `Current`, that what the operation has read is still so
  unless somebody has edited, also when a late write arrives: a late write carries
  no exclusion tag and no scores.
- `CountsCorrect`: by `Balanced`, each decision has an outcome, is in hand, or is
  still to be taken.

**`StatsStoreProofs`**: `CacheAdvances` by `Advancing` (the snapshot under way is no
older than the file in place); `TypeCorrect` and `DatesCorrect` by soundness of
every view in the store and in all three files; `FreshFigures` and `RecordsKept`
on top of it.

**`FileActionsProofs`**, for any roots, folders, names, files, spellings and starts,
and any number of sweeps, clicks and edits. `TrackedClassified` and `TrackedHeld`
are about the operators alone: whatever one thing an answer leaves out, a tracked
place is neither an orphan nor a duplicate, and no spelling with a tracked file is
called untracked. `NamesTrue` follows for sweeps. The invariant of the buttons,
`Safe`, says what each phase of a click has established: the target of a rename
is free unless something appeared since the look (`added`), the number chosen in
the trash is still free, because one click runs at a time, and the file to be moved
was not tracked throughout. It gives `NothingLost`, `TrackedUnmoved` and `PerformedTrue`.

Assumptions on the constants are stated beside them (`...Assumption`), and TLC
evaluates each. Model-checked only: liveness (`daemon_live` and `season_live`; TLAPS does not reason about ENABLED, on which fairness rests) and the three
violations.

## 6. Not modelled, and why

- **Sonarr's cross-check.** How a season's sample is joined to its episodes and
  files is reduced to the gates it may open (`Gates`); its sampling and its gates
  are those of `CrossCheck`.
- **One series, one profile.** Series do not share anything the writer touches.
  An unreadable field, a missing id and an identity mismatch are refusals or
  failed reads, and both are possible outcomes at each read.
- **The disk.** The walk of a root is one step, folders are one level deep, and
  files that lie directly in a root are left out; an unmounted root is an empty
  directory; nobody else writes to the trash. An answer leaves out files or titles
  but not both. The index of mismatched seasons that a sweep's forward pass adds
  to the tracked set is left out: it only suppresses more findings.
- **The scan's progress bar, log lines, audit lines and response wording.** They
  decide nothing.
- **HTTP client, routing, payload decoding, rendering, configuration**: pure or
  I/O; their outcomes are the inputs of the models.

## 7. Plan

Written, in this order: `PendingScopes`, `DebounceQueue`, `DaemonLoop`,
`SeasonWriter`, `CrossCheck` and `WantedPages`, `RadarrCycle`, `StatsStore`,
`FileReport` and `FileActions`, each with its proofs. What would add most next:

1. the season cross-check's join as an operator, so that `SeasonWriter` computes
   its gates as `RadarrCycle` does;
2. `StatsStore` and `FileActions` composed, so that a button acts on a report
   that came off the cache.
