----------------------------- MODULE DaemonLoop -----------------------------
(***************************************************************************)
(* The daemon (daemon.go): one loop goroutine that runs every evaluation,  *)
(* the HTTP handlers that leave it work (webhooks in the debounce queue,   *)
(* "Scan now" in the scan coordinator), the reconciliation timer, and the  *)
(* shutdown handler.  The debounce queue is the abstract one of            *)
(* PendingScopes, which DebounceQueue implements.                          *)
(*                                                                         *)
(* Time has no numbers here: a pending key ripens, the sweep comes due,    *)
(* and an armed timer fires, at any moment.  An evaluation is abstracted   *)
(* to which items it covered: all that its scope names on one instance, or *)
(* not all of them, because the instance could not be read or because      *)
(* shutdown stopped it between items.                                      *)
(***************************************************************************)
EXTENDS Naturals, FiniteSets

CONSTANTS
  Instances,   \* the configured instances
  Keys,        \* the items webhooks can name
  InstanceOf,  \* the instance of each key
  Seasons, Whole, Limit,  \* as in PendingScopes
  None,        \* no instance
  MaxSignals   \* bound on the termination signals: a third changes nothing

ASSUME InstancesAssumption == IsFiniteSet(Instances) /\ None \notin Instances
ASSUME KeysAssumption      == IsFiniteSet(Keys) /\ InstanceOf \in [Keys -> Instances]
ASSUME LimitAssumption     == Limit \in Nat \ {0}
ASSUME WholeAssumption     == Whole \notin Seasons
ASSUME SignalsAssumption   == MaxSignals \in Nat

VARIABLES
  scope, ripe, notify, handed,   \* the debounce queue
  running, pending, scanNotify,  \* the scan coordinator
  pc,        \* what the loop goroutine does next
  kind,      \* the kind of the current or the last cycle
  batch,     \* keys taken from the queue whose webhook cycle has not begun
  items,     \* the items the current cycle may write
  todo,      \* instances the current cycle has still to visit
  visiting,  \* the instance being read and evaluated, or None
  reading,   \* the keys in that evaluation's scope that some event had named
  whole,     \* the current cycle has not been cut short
  sweep,     \* the reconciliation timer
  timed,     \* the loop sleeps with a timer
  known,     \* the pending keys that timer was set for
  cache,     \* what the state cache file on disk holds
  serving,   \* the HTTP server accepts requests
  sent,      \* termination signals sent so far
  signals,   \* those delivered and not received
  watcher,   \* the shutdown handler's goroutine
  cancelled, \* the root context is cancelled
  unseen     \* keys named by an event that no evaluation has covered since

queueVars    == <<scope, ripe, notify, handed>>
scanVars     == <<running, pending, scanNotify>>
cycleVars    == <<kind, batch, items, todo, visiting, reading, whole>>
timerVars    == <<sweep, timed, known>>
shutdownVars == <<serving, sent, signals, watcher, cancelled>>
vars == <<queueVars, scanVars, pc, cycleVars, timerVars, cache, shutdownVars, unseen>>

Queue == INSTANCE PendingScopes

Kinds == {"startup", "manual", "sweep", "webhook"}
Steps == {"top", "drain", "webhook", "take", "due", "arm", "asleep",
          "begin", "cycle", "check", "save", "exited", "stopped", "killed"}

\* The process is over: it returned from runDaemon, or was made to exit.
Over == pc \in {"stopped", "killed"}

TypeOK ==
  /\ Queue!TypeOK
  /\ running \in BOOLEAN /\ pending \in BOOLEAN /\ scanNotify \in BOOLEAN
  /\ pc \in Steps /\ kind \in Kinds
  /\ batch \subseteq Keys /\ items \subseteq Keys
  /\ todo \subseteq Instances
  /\ visiting \in Instances \cup {None}
  /\ reading \subseteq Keys /\ unseen \subseteq Keys
  /\ whole \in BOOLEAN
  /\ sweep \in {"off", "unarmed", "later", "due"}
  /\ timed \in BOOLEAN /\ known \subseteq Keys
  /\ cache \in {"none", "complete", "partial"}
  /\ serving \in BOOLEAN /\ cancelled \in BOOLEAN
  /\ sent \in 0 .. MaxSignals /\ signals \in 0 .. 2
  /\ watcher \in {"first", "second", "done"}

\* runDaemon up to the startup scan: the coordinator says running before the
\* server accepts anything. poll_interval is 0 ("off") or not.
Init ==
  /\ Queue!Init
  /\ running = TRUE /\ pending = FALSE /\ scanNotify = FALSE
  /\ pc = "cycle" /\ kind = "startup"
  /\ batch = {} /\ items = Keys
  /\ todo = Instances /\ visiting = None /\ reading = {} /\ whole = TRUE
  /\ sweep \in {"off", "unarmed"}
  /\ timed = FALSE /\ known = {}
  /\ cache = "none"
  /\ serving = FALSE /\ sent = 0 /\ signals = 0 /\ watcher = "first" /\ cancelled = FALSE
  /\ unseen = {}

\* The queue is left as it is.
QueueIdle == Queue!Ripen({})

-----------------------------------------------------------------------------
(***************************************************************************)
(* The HTTP server's goroutines, and time.                                 *)
(***************************************************************************)
Serve ==
  /\ ~serving /\ pc \notin {"exited", "stopped", "killed"}
  /\ serving' = TRUE
  /\ QueueIdle
  /\ UNCHANGED <<scanVars, pc, cycleVars, timerVars, cache, sent, signals, watcher, cancelled, unseen>>

HandleWebhook(k, c) ==
  /\ serving
  /\ Queue!Claim(k, c)
  /\ unseen' = unseen \cup {k}
  /\ UNCHANGED <<scanVars, pc, cycleVars, timerVars, cache, shutdownVars>>

HandleUnreadable(k) ==
  /\ serving
  /\ Queue!Touch(k)
  /\ UNCHANGED <<scanVars, pc, cycleVars, timerVars, cache, shutdownVars, unseen>>

\* Mutant of RequestScan: the request is noted and the loop is not woken.
RequestScanSilently ==
  /\ serving /\ ~pending
  /\ pending' = TRUE
  /\ QueueIdle
  /\ UNCHANGED <<running, scanNotify, pc, cycleVars, timerVars, cache, shutdownVars, unseen>>

\* POST /api/scan. A request while one is queued changes nothing.
RequestScan ==
  /\ serving /\ ~pending
  /\ pending' = TRUE
  /\ scanNotify' = TRUE
  /\ QueueIdle
  /\ UNCHANGED <<running, pc, cycleVars, timerVars, cache, shutdownVars, unseen>>

KeyRipens(k) ==
  /\ ~Over
  /\ k \in Queue!Pending \ ripe
  /\ Queue!Ripen({k})
  /\ UNCHANGED <<scanVars, pc, cycleVars, timerVars, cache, shutdownVars, unseen>>

SweepComesDue ==
  /\ ~Over
  /\ sweep = "later"
  /\ sweep' = "due"
  /\ QueueIdle
  /\ UNCHANGED <<scanVars, pc, cycleVars, timed, known, cache, shutdownVars, unseen>>

-----------------------------------------------------------------------------
(***************************************************************************)
(* One cycle: runScanCycle between begin and end.                          *)
(***************************************************************************)
Begin ==
  /\ pc = "begin"
  /\ running' = TRUE
  /\ pc' = "cycle"
  /\ whole' = TRUE
  /\ QueueIdle
  /\ UNCHANGED <<pending, scanNotify, kind, batch, items, todo, visiting, reading, timerVars, cache,
                 shutdownVars, unseen>>

\* ctx is checked between instances.
StopBetweenInstances ==
  /\ pc = "cycle" /\ visiting = None /\ todo # {}
  /\ cancelled
  /\ todo' = {}
  /\ whole' = FALSE
  /\ QueueIdle
  /\ UNCHANGED <<scanVars, pc, kind, batch, items, visiting, reading, timerVars, cache, shutdownVars, unseen>>

\* Mutant of VisitBegin: shutdown is noticed within an evaluation only.
VisitBeginRegardless(i) ==
  /\ pc = "cycle" /\ visiting = None /\ i \in todo
  /\ visiting' = i
  /\ reading' = {k \in unseen \cap items : InstanceOf[k] = i}
  /\ unseen' = unseen \ reading'
  /\ QueueIdle
  /\ UNCHANGED <<scanVars, pc, kind, batch, items, todo, whole, timerVars, cache, shutdownVars>>

\* The instance is contacted and its library read: what it says of the items
\* named so far is covered by this evaluation, should it finish.
VisitBegin(i) ==
  /\ pc = "cycle" /\ visiting = None /\ i \in todo
  /\ ~cancelled
  /\ visiting' = i
  /\ reading' = {k \in unseen \cap items : InstanceOf[k] = i}
  /\ unseen' = unseen \ reading'
  /\ QueueIdle
  /\ UNCHANGED <<scanVars, pc, kind, batch, items, todo, whole, timerVars, cache, shutdownVars>>

Leave(i) ==
  /\ pc = "cycle" /\ visiting = i
  /\ visiting' = None
  /\ todo' = todo \ {i}
  /\ reading' = {}
  /\ QueueIdle
  /\ UNCHANGED <<scanVars, pc, kind, batch, items, timerVars, cache, shutdownVars>>

\* The evaluation of every item in scope finishes.
VisitEnd(i) ==
  /\ Leave(i)
  /\ UNCHANGED <<whole, unseen>>

\* The connectivity check or the library read fails; the cycle goes on.
Unreachable(i) ==
  /\ Leave(i)
  /\ unseen' = unseen \cup reading
  /\ UNCHANGED whole

\* The engine stops between items on shutdown.
StopBetweenItems(i) ==
  /\ cancelled
  /\ Leave(i)
  /\ unseen' = unseen \cup reading
  /\ whole' = FALSE

\* The cycle is over. A webhook cycle is followed by the next instance's, a
\* full one by the question whether shutdown cut it short.
End ==
  /\ pc = "cycle" /\ visiting = None /\ todo = {}
  /\ running' = FALSE
  /\ pc' = IF kind = "webhook" THEN "webhook" ELSE "check"
  /\ QueueIdle
  /\ UNCHANGED <<pending, scanNotify, cycleVars, timerVars, cache, shutdownVars, unseen>>

\* Mutant of Check: a cycle that shutdown cut short is saved all the same.
CheckNothing ==
  /\ pc = "check"
  /\ pc' = "save"
  /\ QueueIdle
  /\ UNCHANGED <<scanVars, cycleVars, timerVars, cache, shutdownVars, unseen>>

\* A full cycle: anything shutdown touched is abandoned and not saved.
Check ==
  /\ pc = "check"
  /\ pc' = IF cancelled THEN "top" ELSE "save"
  /\ QueueIdle
  /\ UNCHANGED <<scanVars, cycleVars, timerVars, cache, shutdownVars, unseen>>

\* Mutant of Save: the timer is armed by the startup scan and never again.
SaveWithoutRearming ==
  /\ pc = "save"
  /\ cache' = IF whole THEN "complete" ELSE "partial"
  /\ pc' = "top"
  /\ sweep' = IF sweep = "off" THEN "off" ELSE IF kind = "startup" THEN "later" ELSE "unarmed"
  /\ QueueIdle
  /\ UNCHANGED <<scanVars, cycleVars, timed, known, shutdownVars, unseen>>

\* A completed full cycle is saved; a sweep re-arms its timer, and the startup
\* scan is followed by the loop, which arms it first.
Save ==
  /\ pc = "save"
  /\ cache' = IF whole THEN "complete" ELSE "partial"
  /\ pc' = "top"
  /\ sweep' = IF kind \in {"startup", "sweep"} /\ sweep # "off" THEN "later" ELSE sweep
  /\ QueueIdle
  /\ UNCHANGED <<scanVars, cycleVars, timed, known, shutdownVars, unseen>>

-----------------------------------------------------------------------------
(***************************************************************************)
(* The loop's own steps, in the order of its body.                         *)
(***************************************************************************)
LoopStep(at) == pc = at /\ UNCHANGED <<cache, shutdownVars, unseen>>

\* Top: the loop returns once the context is cancelled.
Top ==
  /\ LoopStep("top")
  /\ pc' = IF cancelled THEN "exited" ELSE "drain"
  /\ QueueIdle
  /\ UNCHANGED <<scanVars, cycleVars, timerVars>>

\* Everything due is taken from the queue at once.
Drain ==
  /\ LoopStep("drain")
  /\ \/ /\ ripe # {}
        /\ Queue!Take(ripe)
        /\ batch' = ripe
        /\ pc' = "webhook"
     \/ /\ ripe = {}
        /\ QueueIdle
        /\ pc' = "take"
        /\ UNCHANGED batch
  /\ UNCHANGED <<scanVars, kind, items, todo, visiting, reading, whole, timerVars>>

\* Mutant of NextInstance: the batch is done with after its first cycle.
NextInstanceOnly ==
  /\ LoopStep("webhook")
  /\ \/ /\ cancelled \/ batch = {}
        /\ pc' = "top"
        /\ UNCHANGED <<kind, items, todo>>
     \/ /\ ~cancelled
        /\ \E i \in {InstanceOf[k] : k \in batch} :
             /\ todo' = {i}
             /\ items' = {k \in batch : InstanceOf[k] = i}
        /\ kind' = "webhook"
        /\ pc' = "begin"
  /\ batch' = {}
  /\ QueueIdle
  /\ UNCHANGED <<scanVars, visiting, reading, whole, timerVars>>

\* runWebhookCycles: the rest of the batch is dropped on shutdown.
NextInstance ==
  /\ LoopStep("webhook")
  /\ \/ /\ cancelled \/ batch = {}
        /\ batch' = {}
        /\ pc' = "top"
        /\ UNCHANGED <<kind, items, todo>>
     \/ /\ ~cancelled
        /\ \E i \in {InstanceOf[k] : k \in batch} :
             /\ todo' = {i}
             /\ items' = {k \in batch : InstanceOf[k] = i}
        /\ batch' = batch \ items'
        /\ kind' = "webhook"
        /\ pc' = "begin"
  /\ QueueIdle
  /\ UNCHANGED <<scanVars, visiting, reading, whole, timerVars>>

\* takePending: the request is taken before the cycle is marked running.
TakePending ==
  /\ LoopStep("take")
  /\ pending' = FALSE
  /\ IF pending
       THEN pc' = "begin" /\ kind' = "manual" /\ todo' = Instances /\ items' = Keys
       ELSE pc' = "due" /\ UNCHANGED <<kind, todo, items>>
  /\ QueueIdle
  /\ UNCHANGED <<running, scanNotify, batch, visiting, reading, whole, timerVars>>

SweepIfDue ==
  /\ LoopStep("due")
  /\ IF sweep = "due"
       THEN pc' = "begin" /\ kind' = "sweep" /\ todo' = Instances /\ items' = Keys
       ELSE pc' = "arm" /\ UNCHANGED <<kind, todo, items>>
  /\ QueueIdle
  /\ UNCHANGED <<scanVars, batch, visiting, reading, whole, timerVars>>

\* Mutant of Arm: tokens are drained as stale before the loop goes to sleep.
ArmDraining ==
  /\ LoopStep("arm")
  /\ known' = Queue!Pending
  /\ timed' = (Queue!Pending # {} \/ sweep # "off")
  /\ scanNotify' = FALSE
  /\ pc' = "asleep"
  /\ QueueIdle
  /\ UNCHANGED <<running, pending, cycleVars, sweep>>

\* Mutant of Arm: only the sweep gets a timer.
ArmForSweep ==
  /\ LoopStep("arm")
  /\ known' = Queue!Pending
  /\ timed' = (sweep # "off")
  /\ pc' = "asleep"
  /\ QueueIdle
  /\ UNCHANGED <<scanVars, cycleVars, sweep>>

\* nextWait: a timer for the earliest of the pending keys and the sweep, or no
\* timer when there is neither.
Arm ==
  /\ LoopStep("arm")
  /\ known' = Queue!Pending
  /\ timed' = (Queue!Pending # {} \/ sweep # "off")
  /\ pc' = "asleep"
  /\ QueueIdle
  /\ UNCHANGED <<scanVars, cycleVars, sweep>>

WakeUp(next) ==
  /\ LoopStep("asleep")
  /\ pc' = next
  /\ timed' = FALSE /\ known' = {}
  /\ UNCHANGED <<running, pending, cycleVars, sweep>>

WokenByWebhook  == WakeUp("top") /\ Queue!Wake /\ UNCHANGED scanNotify
WokenByRequest  == WakeUp("top") /\ scanNotify /\ scanNotify' = FALSE /\ QueueIdle
WokenByTimer    == WakeUp("top") /\ timed /\ QueueIdle /\ UNCHANGED scanNotify

\* Mutant of WokenByShutdown: the select does not listen to the context.
NeverWokenByShutdown == FALSE

WokenByShutdown == WakeUp("exited") /\ cancelled /\ QueueIdle /\ UNCHANGED scanNotify

-----------------------------------------------------------------------------
(***************************************************************************)
(* Shutdown.                                                               *)
(***************************************************************************)
\* A termination signal arrives; the channel holds two.
Signal ==
  /\ ~Over
  /\ sent < MaxSignals /\ signals < 2
  /\ sent' = sent + 1
  /\ signals' = signals + 1
  /\ QueueIdle
  /\ UNCHANGED <<scanVars, pc, cycleVars, timerVars, cache, serving, watcher, cancelled, unseen>>

\* Mutant of FirstSignal: the handler does not wait for the signal.
FirstSignalUnprompted ==
  /\ ~Over
  /\ watcher = "first"
  /\ signals' = signals - 1
  /\ cancelled' = TRUE
  /\ watcher' = "second"
  /\ QueueIdle
  /\ UNCHANGED <<scanVars, pc, cycleVars, timerVars, cache, serving, sent, unseen>>

FirstSignal ==
  /\ ~Over
  /\ watcher = "first" /\ signals > 0
  /\ signals' = signals - 1
  /\ cancelled' = TRUE
  /\ watcher' = "second"
  /\ QueueIdle
  /\ UNCHANGED <<scanVars, pc, cycleVars, timerVars, cache, serving, sent, unseen>>

\* A second one makes the process exit where it stands.
ForceExit ==
  /\ ~Over
  /\ watcher = "second" /\ signals > 0
  /\ signals' = signals - 1
  /\ pc' = "killed"
  /\ serving' = FALSE
  /\ QueueIdle
  /\ UNCHANGED <<scanVars, cycleVars, timerVars, cache, sent, watcher, cancelled, unseen>>

\* The loop has returned: the handler stops watching.
WatcherDone ==
  /\ pc = "exited"
  /\ watcher # "done"
  /\ watcher' = "done"
  /\ QueueIdle
  /\ UNCHANGED <<scanVars, pc, cycleVars, timerVars, cache, serving, sent, signals, cancelled, unseen>>

\* The server is shut down and runDaemon returns.
Stop ==
  /\ pc = "exited"
  /\ pc' = "stopped"
  /\ serving' = FALSE
  /\ QueueIdle
  /\ UNCHANGED <<scanVars, cycleVars, timerVars, cache, sent, signals, watcher, cancelled, unseen>>

-----------------------------------------------------------------------------
LoopNext ==
  \/ Begin \/ StopBetweenInstances \/ End \/ Check \/ Save
  \/ \E i \in Instances : VisitBegin(i) \/ VisitEnd(i) \/ Unreachable(i) \/ StopBetweenItems(i)
  \/ Top \/ Drain \/ NextInstance \/ TakePending \/ SweepIfDue \/ Arm
  \/ WokenByWebhook \/ WokenByRequest \/ WokenByTimer \/ WokenByShutdown
  \/ Stop

\* The process is over and nothing more happens.
Finished == Over /\ UNCHANGED vars

EventArrives ==
  \/ \E k \in Keys, c \in Queue!Claims \ {{}} : HandleWebhook(k, c)
  \/ \E k \in Keys : HandleUnreadable(k)

Next ==
  \/ LoopNext
  \/ Serve \/ EventArrives \/ RequestScan
  \/ \E k \in Keys : KeyRipens(k)
  \/ SweepComesDue
  \/ Signal \/ FirstSignal \/ ForceExit \/ WatcherDone \/ Finished

(***************************************************************************)
(* The loop is never blocked for good outside its select: every request it *)
(* makes has a timeout.  Time passes.  An instance that is contacted again *)
(* and again is not unreachable every time.                                *)
(***************************************************************************)
Fairness ==
  /\ WF_vars(LoopNext)
  /\ WF_vars(WokenByTimer)
  /\ WF_vars(FirstSignal)
  /\ WF_vars(SweepComesDue)
  /\ \A k \in Keys : WF_vars(KeyRipens(k))
  /\ \A i \in Instances : SF_vars(VisitEnd(i))

Safety == Init /\ [][Next]_vars

Spec == Safety /\ Fairness

-----------------------------------------------------------------------------
(***************************************************************************)
(* Properties.                                                             *)
(***************************************************************************)

\* While the loop sleeps, nothing waits for it that it does not know of: a key
\* added since it set its timer has left a token, so has a queued scan, and
\* with a sweep to come it does not sleep without a timer.
NoLostWakeup ==
  pc = "asleep" =>
    /\ Queue!Pending \subseteq known \/ notify
    /\ known # {} \/ sweep # "off" => timed
    /\ pending => scanNotify

\* What is saved for the next start is a cycle that covered every instance it
\* could reach, never one that shutdown cut short.
SavedOnlyComplete == cache # "partial"

\* Somebody will come to k: it is in the queue, in the batch taken from it, or in
\* a cycle that has still to read its instance.
InHand(k) ==
  \/ k \in Queue!Pending \cup batch
  \/ /\ pc \in {"begin", "cycle"}
     /\ k \in items /\ InstanceOf[k] \in todo /\ visiting # InstanceOf[k]

Waits(k) == k \in unseen /\ InHand(k)

\* A new item takes the place of k in a full queue.
Evicts(k) ==
  /\ \E x \in Keys \ Queue!Pending, c \in Queue!Claims : HandleWebhook(x, c)
  /\ Cardinality(Queue!Pending) >= Limit
  /\ k \in Queue!Pending

\* From the event that names an item until an evaluation reads its library, the
\* item is in one hand or the next: queue, batch, cycle. Only an eviction or
\* shutdown drops it on the way.
NoneDropped ==
  [][\A k \in Keys : Waits(k) =>
       \/ Waits(k)'
       \/ VisitBegin(InstanceOf[k]) /\ k \in reading'
       \/ Evicts(k) \/ cancelled]_vars

\* The steps of its own that the loop may still take once the context is cancelled.
StepsLeft ==
  CASE Over -> 0
    [] pc = "exited" -> 1
    [] pc = "top" -> 2
    [] pc \in {"asleep", "webhook", "check", "save"} -> 3
    [] pc = "arm" -> 4
    [] pc = "cycle" -> IF visiting # None THEN 6 ELSE IF todo # {} THEN 5 ELSE 4
    [] pc = "begin" -> 6
    [] pc = "due" -> 7
    [] pc = "take" -> 8
    [] pc = "drain" -> 9

\* Wherever the first signal finds the loop, it comes closer to its end with every
\* step, whatever the handlers do meanwhile: it begins no evaluation and takes no
\* second turn.
ShutdownIsShort ==
  [][cancelled =>
       IF LoopNext THEN StepsLeft' < StepsLeft ELSE StepsLeft' <= StepsLeft]_vars

\* Events stop arriving.
EventsCease == <>[][~EventArrives]_vars

\* A queued scan runs: however the request raced with the loop, unless events
\* keep coming or the daemon is stopped, a manual cycle begins after it.
RequestIsServed ==
  EventsCease => (pending ~> (~pending \/ cancelled))

\* With no poll_interval, too, a pending item is taken from the queue once
\* events cease.
PendingIsTaken ==
  EventsCease => \A k \in Keys : (scope[k] # {}) ~> (scope[k] = {} \/ cancelled)

\* An event has named k and no evaluation that read the library after it has
\* finished: none has begun, or the one under way may still fail.
Uncovered(k) == k \in unseen \cup reading

\* With a poll_interval, for whatever an event named an evaluation that begins
\* after the event finishes, also if the key was evicted or its instance could not
\* be reached when its turn came: a sweep covers it.
EventIsCovered ==
  EventsCease => \A k \in Keys : (Uncovered(k) /\ sweep # "off") ~> (~Uncovered(k) \/ cancelled)

\* The first signal ends the daemon, from wherever the loop is.
ShutdownEnds == cancelled ~> Over
=============================================================================
