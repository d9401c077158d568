-------------------------- MODULE DaemonLoopProofs --------------------------
(***************************************************************************)
(* Theorems about DaemonLoop: it never sleeps through work, drops no item  *)
(* on its way to an evaluation, never saves a cycle that shutdown cut      *)
(* short, and ends soon after the first signal, for any instances and      *)
(* items, any queue limit and any number of signals.                       *)
(***************************************************************************)
EXTENDS DaemonLoop, TLAPS

\* A cycle is cut short by shutdown alone, and one that is has not come to the
\* step that saves it.
Saves ==
  /\ whole \/ cancelled
  /\ pc = "save" => whole
  /\ SavedOnlyComplete

\* From the moment the loop has found no request until it wakes again, one that
\* arrives has left its token.
Wakes ==
  /\ pc \in {"due", "arm", "asleep"} => (pending => scanNotify)
  /\ NoLostWakeup

IInv == TypeOK /\ Saves /\ Wakes

\* The type invariant in two parts: the Boolean variables and the others.
FlagsOK ==
  /\ running \in BOOLEAN /\ pending \in BOOLEAN /\ scanNotify \in BOOLEAN
  /\ whole \in BOOLEAN /\ timed \in BOOLEAN
  /\ serving \in BOOLEAN /\ cancelled \in BOOLEAN

PlacesOK ==
  /\ pc \in Steps /\ kind \in Kinds
  /\ batch \subseteq Keys /\ items \subseteq Keys
  /\ todo \subseteq Instances
  /\ visiting \in Instances \cup {None}
  /\ reading \subseteq Keys /\ unseen \subseteq Keys
  /\ sweep \in {"off", "unarmed", "later", "due"}
  /\ known \subseteq Keys
  /\ cache \in {"none", "complete", "partial"}
  /\ sent \in 0 .. MaxSignals /\ signals \in 0 .. 2
  /\ watcher \in {"first", "second", "done"}

\* The parts make up the type invariant.
LEMMA TypeParts == TypeOK <=> Queue!TypeOK /\ FlagsOK /\ PlacesOK
  BY DEF TypeOK, FlagsOK, PlacesOK

USE KeysAssumption, WholeAssumption, SignalsAssumption, InstancesAssumption

-----------------------------------------------------------------------------
(***************************************************************************)
(* The abstract queue's type, step by step.                                *)
(***************************************************************************)

\* Two claims joined are a claim.
LEMMA JoinClaims ==
  ASSUME NEW a \in Queue!Claims, NEW b \in Queue!Claims \ {{}}
  PROVE  Queue!Join(a, b) \in Queue!Claims \ {{}}
  BY DEF Queue!Join, Queue!Claims

\* A step that hands nothing over leaves handed well typed.
LEMMA NoBatchTyped ==
  ASSUME handed' = Queue!NoBatch
  PROVE  DOMAIN handed' \subseteq Keys /\ handed' \in [DOMAIN handed' -> Queue!Claims \ {{}}]
  BY DEF Queue!NoBatch

\* An event's claim, with the eviction it may cost.
LEMMA ClaimTyped ==
  ASSUME Queue!TypeOK, NEW k \in Keys, NEW c \in Queue!Claims \ {{}}, Queue!Claim(k, c)
  PROVE  Queue!TypeOK'
<1>1. PICK evicted \in SUBSET (Queue!Pending \ {k}) :
        /\ scope' = [x \in Keys |-> IF x = k THEN Queue!Join(scope[k], c)
                                    ELSE IF x \in evicted THEN {} ELSE scope[x]]
        /\ ripe' \in {(ripe \ evicted) \ {k}, (ripe \ evicted) \cup {k}}
        /\ notify' = TRUE
        /\ handed' = Queue!NoBatch
  BY DEF Queue!Claim
<1>2. scope \in [Keys -> Queue!Claims] /\ ripe \subseteq Queue!Pending
  BY DEF Queue!TypeOK
<1>3. Queue!Join(scope[k], c) \in Queue!Claims \ {{}}
  BY <1>2, JoinClaims
<1>4. {} \in Queue!Claims
  BY DEF Queue!Claims
<1>5. scope' \in [Keys -> Queue!Claims]
  BY <1>1, <1>2, <1>3, <1>4
<1>6. \A x \in ripe' : x \in Keys /\ scope'[x] # {}
  BY <1>1, <1>2, <1>3 DEF Queue!Pending
<1>7. ripe' \subseteq Queue!Pending'
  BY <1>6 DEF Queue!Pending
<1> QED BY <1>1, <1>5, <1>7, NoBatchTyped DEF Queue!TypeOK

\* An unreadable event.
LEMMA TouchTyped ==
  ASSUME Queue!TypeOK, NEW k \in Keys, Queue!Touch(k) PROVE Queue!TypeOK'
  BY NoBatchTyped DEF Queue!TypeOK, Queue!Touch, Queue!Pending

\* Timers that come due are those of pending keys.
LEMMA RipenTyped ==
  ASSUME Queue!TypeOK, NEW K \in SUBSET Queue!Pending, Queue!Ripen(K) PROVE Queue!TypeOK'
  BY NoBatchTyped DEF Queue!TypeOK, Queue!Ripen, Queue!Pending

\* A step that leaves the queue alone.
LEMMA IdleTyped == ASSUME Queue!TypeOK, QueueIdle PROVE Queue!TypeOK'
  BY RipenTyped DEF QueueIdle

\* The loop receives the token.
LEMMA WakeTyped == ASSUME Queue!TypeOK, Queue!Wake PROVE Queue!TypeOK'
  BY NoBatchTyped DEF Queue!TypeOK, Queue!Wake, Queue!Pending

\* What the loop is handed are items with a scope that is not empty.
LEMMA TakeTyped == ASSUME Queue!TypeOK, Queue!Take(ripe) PROVE Queue!TypeOK'
<1>1. scope \in [Keys -> Queue!Claims] /\ ripe \subseteq Queue!Pending /\ notify \in BOOLEAN
  BY DEF Queue!TypeOK
<1>2. {} \in Queue!Claims
  BY DEF Queue!Claims
<1>3. scope' \in [Keys -> Queue!Claims] /\ ripe' = {} /\ notify' \in BOOLEAN
  BY <1>1, <1>2 DEF Queue!Take
<1>4. handed' = [k \in ripe |-> scope[k]]
  BY DEF Queue!Take
<1>5. \A k \in ripe : k \in Keys /\ scope[k] \in Queue!Claims \ {{}}
  BY <1>1 DEF Queue!Pending
<1>6. DOMAIN handed' \subseteq Keys /\ handed' \in [DOMAIN handed' -> Queue!Claims \ {{}}]
  BY <1>4, <1>5
<1> QED BY <1>3, <1>6 DEF Queue!TypeOK

\* A step that leaves the queue as it is leaves what is pending as it is.
LEMMA IdleKeeps ==
  ASSUME QueueIdle PROVE UNCHANGED <<scope, notify>> /\ Queue!Pending' = Queue!Pending
  BY DEF QueueIdle, Queue!Ripen, Queue!Pending

\* So does a key that ripens.
LEMMA RipenKeeps ==
  ASSUME NEW K, Queue!Ripen(K) PROVE UNCHANGED <<scope, notify>> /\ Queue!Pending' = Queue!Pending
  BY DEF Queue!Ripen, Queue!Pending

\* A stuttering step leaves the queue as it is.
LEMMA StutterKeeps ==
  ASSUME UNCHANGED vars PROVE UNCHANGED notify /\ Queue!Pending' = Queue!Pending
  BY DEF vars, queueVars, Queue!Pending

\* An event that reaches the queue leaves a token, and the loop where it is.
LEMMA EventLeavesToken ==
  ASSUME EventArrives
  PROVE  notify' /\ UNCHANGED <<scanVars, pc, cycleVars, timerVars>>
<1>1. notify' = TRUE
  BY DEF EventArrives, HandleWebhook, HandleUnreadable, Queue!Claim, Queue!Touch
<1>2. UNCHANGED <<scanVars, pc, cycleVars, timerVars>>
  BY DEF EventArrives, HandleWebhook, HandleUnreadable
<1> QED BY <1>1, <1>2

\* Only items are pending, and only pending ones are ripe.
LEMMA PendingKeys == ASSUME IInv PROVE ripe \subseteq Keys /\ Queue!Pending \subseteq Keys
  BY DEF IInv, TypeOK, Queue!TypeOK, Queue!Pending

-----------------------------------------------------------------------------
(***************************************************************************)
(* The invariant, part by part and action by action.                       *)
(***************************************************************************)

\* The daemon starts in the invariant.
LEMMA InvInit == Init => IInv
<1> SUFFICES ASSUME Init PROVE IInv
  OBVIOUS
<1>1. Queue!TypeOK
  BY DEF Init, Queue!Init, Queue!TypeOK, Queue!Claims, Queue!Pending, Queue!NoBatch
<1>2. FlagsOK
  BY Zenon DEF Init, FlagsOK
<1>3. PlacesOK
  BY DEF Init, PlacesOK, Kinds, Steps
<1>4. Saves /\ Wakes
  BY DEF Init, Saves, Wakes, SavedOnlyComplete, NoLostWakeup
<1> QED BY <1>1, <1>2, <1>3, <1>4, TypeParts DEF IInv

\* The queue's type: every step of the loop takes one of the queue's.
LEMMA QueueStep == ASSUME IInv, [Next]_vars PROVE Queue!TypeOK'
<1>0. Queue!TypeOK
  BY DEF IInv, TypeOK
<1>1. CASE LoopNext
  BY <1>1, <1>0, IdleTyped, TakeTyped, WakeTyped
     DEF LoopNext, Begin, StopBetweenInstances, End, Check, Save, VisitBegin, VisitEnd, Unreachable,
         StopBetweenItems, Leave, Top, Drain, NextInstance, TakePending, SweepIfDue, Arm,
         WokenByWebhook, WokenByRequest, WokenByTimer, WokenByShutdown, Stop
<1>2. CASE EventArrives
  BY <1>2, <1>0, ClaimTyped, TouchTyped
     DEF EventArrives, HandleWebhook, HandleUnreadable
<1>3. CASE \E k \in Keys : KeyRipens(k)
  BY <1>3, <1>0, RipenTyped
     DEF KeyRipens
<1>4. CASE Serve \/ RequestScan \/ SweepComesDue \/ Signal \/ FirstSignal \/ ForceExit \/ WatcherDone
  BY <1>4, <1>0, IdleTyped
     DEF Serve, RequestScan, SweepComesDue, Signal, FirstSignal, ForceExit, WatcherDone
<1>5. CASE Finished \/ UNCHANGED vars
  BY <1>5, <1>0
     DEF Finished, vars, queueVars, Queue!TypeOK, Queue!Pending
<1> QED BY <1>1, <1>2, <1>3, <1>4, <1>5 DEF Next

\* The Boolean variables stay Boolean.
LEMMA FlagsStep == ASSUME IInv, [Next]_vars PROVE FlagsOK'
<1> USE DEF IInv, TypeOK, FlagsOK, scanVars, cycleVars, timerVars, shutdownVars
<1>1. CASE Begin
  BY <1>1, Zenon DEF Begin
<1>2. CASE StopBetweenInstances
  BY <1>2, Zenon DEF StopBetweenInstances
<1>3. CASE End
  BY <1>3, Zenon DEF End
<1>4. CASE Check
  BY <1>4, Zenon DEF Check
<1>5. CASE Save
  BY <1>5, Zenon DEF Save
<1>6. CASE \E i \in Instances : VisitBegin(i)
  BY <1>6, Zenon DEF VisitBegin
<1>7. CASE \E i \in Instances : VisitEnd(i) \/ Unreachable(i) \/ StopBetweenItems(i)
  BY <1>7, Zenon DEF VisitEnd, Unreachable, StopBetweenItems, Leave
<1>8. CASE Top
  BY <1>8, Zenon DEF Top, LoopStep
<1>9. CASE Drain
  BY <1>9, Zenon DEF Drain, LoopStep
<1>10. CASE NextInstance
  BY <1>10, Zenon DEF NextInstance, LoopStep
<1>11. CASE TakePending
  BY <1>11, Zenon DEF TakePending, LoopStep
<1>12. CASE SweepIfDue
  BY <1>12, Zenon DEF SweepIfDue, LoopStep
<1>13. CASE Arm
  BY <1>13, Zenon DEF Arm, LoopStep
<1>14. CASE WokenByWebhook \/ WokenByRequest \/ WokenByTimer \/ WokenByShutdown
  BY <1>14, Zenon DEF WokenByWebhook, WokenByRequest, WokenByTimer, WokenByShutdown, WakeUp, LoopStep
<1>15. CASE Stop
  BY <1>15, Zenon DEF Stop
<1>16. CASE Serve
  BY <1>16, Zenon DEF Serve
<1>17. CASE EventArrives
  BY <1>17, Zenon DEF EventArrives, HandleWebhook, HandleUnreadable
<1>18. CASE RequestScan
  BY <1>18, Zenon DEF RequestScan
<1>19. CASE \E k \in Keys : KeyRipens(k)
  BY <1>19, Zenon DEF KeyRipens
<1>20. CASE SweepComesDue
  BY <1>20, Zenon DEF SweepComesDue
<1>21. CASE Signal
  BY <1>21, Zenon DEF Signal
<1>22. CASE FirstSignal
  BY <1>22, Zenon DEF FirstSignal
<1>23. CASE ForceExit
  BY <1>23, Zenon DEF ForceExit
<1>24. CASE WatcherDone
  BY <1>24, Zenon DEF WatcherDone
<1>25. CASE Finished \/ UNCHANGED vars
  BY <1>25, Zenon DEF Finished, vars, queueVars
<1> QED
  BY <1>1, <1>2, <1>3, <1>4, <1>5, <1>6, <1>7, <1>8, <1>9, <1>10, <1>11, <1>12, <1>13,
     <1>14, <1>15, <1>16, <1>17, <1>18, <1>19, <1>20, <1>21, <1>22, <1>23, <1>24, <1>25
     DEF Next, LoopNext

\* Every other variable keeps its type: what is taken from the queue is an item.
LEMMA PlacesStep == ASSUME IInv, [Next]_vars PROVE PlacesOK'
<1> USE DEF IInv, TypeOK, PlacesOK, Kinds, Steps, scanVars, cycleVars, timerVars, shutdownVars
<1>1. CASE Begin
  BY <1>1 DEF Begin
<1>2. CASE StopBetweenInstances
  BY <1>2 DEF StopBetweenInstances
<1>3. CASE End
  BY <1>3 DEF End
<1>4. CASE Check
  BY <1>4 DEF Check
<1>5. CASE Save
  BY <1>5 DEF Save
<1>6. CASE \E i \in Instances : VisitBegin(i)
  BY <1>6 DEF VisitBegin
<1>7. CASE \E i \in Instances : VisitEnd(i) \/ Unreachable(i) \/ StopBetweenItems(i)
  BY <1>7 DEF VisitEnd, Unreachable, StopBetweenItems, Leave
<1>8. CASE Top
  BY <1>8 DEF Top, LoopStep
<1>9. CASE Drain
  BY <1>9, PendingKeys DEF Drain, LoopStep
<1>10. CASE NextInstance
  BY <1>10 DEF NextInstance, LoopStep
<1>11. CASE TakePending
  BY <1>11 DEF TakePending, LoopStep
<1>12. CASE SweepIfDue
  BY <1>12 DEF SweepIfDue, LoopStep
<1>13. CASE Arm
  BY <1>13, PendingKeys DEF Arm, LoopStep
<1>14. CASE WokenByWebhook \/ WokenByRequest \/ WokenByTimer \/ WokenByShutdown
  BY <1>14 DEF WokenByWebhook, WokenByRequest, WokenByTimer, WokenByShutdown, WakeUp, LoopStep
<1>15. CASE Stop
  BY <1>15 DEF Stop
<1>16. CASE Serve
  BY <1>16 DEF Serve
<1>17. CASE EventArrives
  BY <1>17 DEF EventArrives, HandleWebhook, HandleUnreadable
<1>18. CASE RequestScan
  BY <1>18 DEF RequestScan
<1>19. CASE \E k \in Keys : KeyRipens(k)
  BY <1>19 DEF KeyRipens
<1>20. CASE SweepComesDue
  BY <1>20 DEF SweepComesDue
<1>21. CASE Signal
  BY <1>21 DEF Signal
<1>22. CASE FirstSignal
  BY <1>22 DEF FirstSignal
<1>23. CASE ForceExit
  BY <1>23 DEF ForceExit
<1>24. CASE WatcherDone
  BY <1>24 DEF WatcherDone
<1>25. CASE Finished \/ UNCHANGED vars
  BY <1>25 DEF Finished, vars, queueVars
<1> QED
  BY <1>1, <1>2, <1>3, <1>4, <1>5, <1>6, <1>7, <1>8, <1>9, <1>10, <1>11, <1>12, <1>13,
     <1>14, <1>15, <1>16, <1>17, <1>18, <1>19, <1>20, <1>21, <1>22, <1>23, <1>24, <1>25
     DEF Next, LoopNext

\* Only shutdown makes whole false, and Check lets no cycle it has touched pass.
LEMMA SavesStep == ASSUME IInv, [Next]_vars PROVE Saves'
<1> USE DEF IInv, TypeOK, Saves, SavedOnlyComplete, scanVars, cycleVars, timerVars, shutdownVars
<1>1. CASE Begin
  BY <1>1 DEF Begin
<1>2. CASE StopBetweenInstances
  BY <1>2 DEF StopBetweenInstances
<1>3. CASE End
  BY <1>3 DEF End
<1>4. CASE Check
  BY <1>4 DEF Check
<1>5. CASE Save
  BY <1>5 DEF Save
<1>6. CASE \E i \in Instances : VisitBegin(i)
  BY <1>6 DEF VisitBegin
<1>7. CASE \E i \in Instances : VisitEnd(i) \/ Unreachable(i) \/ StopBetweenItems(i)
  BY <1>7 DEF VisitEnd, Unreachable, StopBetweenItems, Leave
<1>8. CASE Top
  BY <1>8 DEF Top, LoopStep
<1>9. CASE Drain
  BY <1>9 DEF Drain, LoopStep
<1>10. CASE NextInstance
  BY <1>10 DEF NextInstance, LoopStep
<1>11. CASE TakePending
  BY <1>11 DEF TakePending, LoopStep
<1>12. CASE SweepIfDue
  BY <1>12 DEF SweepIfDue, LoopStep
<1>13. CASE Arm
  BY <1>13 DEF Arm, LoopStep
<1>14. CASE WokenByWebhook \/ WokenByRequest \/ WokenByTimer \/ WokenByShutdown
  BY <1>14 DEF WokenByWebhook, WokenByRequest, WokenByTimer, WokenByShutdown, WakeUp, LoopStep
<1>15. CASE Stop
  BY <1>15 DEF Stop
<1>16. CASE Serve
  BY <1>16 DEF Serve
<1>17. CASE EventArrives
  BY <1>17 DEF EventArrives, HandleWebhook, HandleUnreadable
<1>18. CASE RequestScan
  BY <1>18 DEF RequestScan
<1>19. CASE \E k \in Keys : KeyRipens(k)
  BY <1>19 DEF KeyRipens
<1>20. CASE SweepComesDue
  BY <1>20 DEF SweepComesDue
<1>21. CASE Signal
  BY <1>21 DEF Signal
<1>22. CASE FirstSignal
  BY <1>22 DEF FirstSignal
<1>23. CASE ForceExit
  BY <1>23 DEF ForceExit
<1>24. CASE WatcherDone
  BY <1>24 DEF WatcherDone
<1>25. CASE Finished \/ UNCHANGED vars
  BY <1>25 DEF Finished, vars, queueVars
<1> QED
  BY <1>1, <1>2, <1>3, <1>4, <1>5, <1>6, <1>7, <1>8, <1>9, <1>10, <1>11, <1>12, <1>13,
     <1>14, <1>15, <1>16, <1>17, <1>18, <1>19, <1>20, <1>21, <1>22, <1>23, <1>24, <1>25
     DEF Next, LoopNext

\* What arrives after TakePending or Arm leaves its token, which only waking takes.
LEMMA WakesStep == ASSUME IInv, [Next]_vars PROVE Wakes'
<1> USE DEF IInv, TypeOK, Wakes, NoLostWakeup, scanVars, cycleVars, timerVars, shutdownVars
<1>1. CASE Begin
  BY <1>1, IdleKeeps DEF Begin
<1>2. CASE StopBetweenInstances
  BY <1>2, IdleKeeps DEF StopBetweenInstances
<1>3. CASE End
  BY <1>3, IdleKeeps DEF End
<1>4. CASE Check
  BY <1>4, IdleKeeps DEF Check
<1>5. CASE Save
  BY <1>5, IdleKeeps DEF Save
<1>6. CASE \E i \in Instances : VisitBegin(i)
  BY <1>6, IdleKeeps DEF VisitBegin
<1>7. CASE \E i \in Instances : VisitEnd(i) \/ Unreachable(i) \/ StopBetweenItems(i)
  BY <1>7, IdleKeeps DEF VisitEnd, Unreachable, StopBetweenItems, Leave
<1>8. CASE Top
  BY <1>8, IdleKeeps DEF Top, LoopStep
<1>9. CASE Drain
  BY <1>9 DEF Drain, LoopStep
<1>10. CASE NextInstance
  BY <1>10, IdleKeeps DEF NextInstance, LoopStep
<1>11. CASE TakePending
  BY <1>11, IdleKeeps DEF TakePending, LoopStep
<1>12. CASE SweepIfDue
  BY <1>12, IdleKeeps DEF SweepIfDue, LoopStep
<1>13. CASE Arm
  BY <1>13, IdleKeeps DEF Arm, LoopStep
<1>14. CASE WokenByWebhook \/ WokenByRequest \/ WokenByTimer \/ WokenByShutdown
  BY <1>14, IdleKeeps DEF WokenByWebhook, WokenByRequest, WokenByTimer, WokenByShutdown, WakeUp, LoopStep
<1>15. CASE Stop
  BY <1>15, IdleKeeps DEF Stop
<1>16. CASE Serve
  BY <1>16, IdleKeeps DEF Serve
<1>17. CASE EventArrives
  BY <1>17, EventLeavesToken DEF EventArrives, HandleWebhook, HandleUnreadable
<1>18. CASE RequestScan
  BY <1>18, IdleKeeps DEF RequestScan
<1>19. CASE \E k \in Keys : KeyRipens(k)
  BY <1>19, RipenKeeps DEF KeyRipens
<1>20. CASE SweepComesDue
  BY <1>20, IdleKeeps DEF SweepComesDue
<1>21. CASE Signal
  BY <1>21, IdleKeeps DEF Signal
<1>22. CASE FirstSignal
  BY <1>22, IdleKeeps DEF FirstSignal
<1>23. CASE ForceExit
  BY <1>23, IdleKeeps DEF ForceExit
<1>24. CASE WatcherDone
  BY <1>24, IdleKeeps DEF WatcherDone
<1>25. CASE Finished \/ UNCHANGED vars
  BY <1>25, StutterKeeps DEF Finished, vars, queueVars
<1> QED
  BY <1>1, <1>2, <1>3, <1>4, <1>5, <1>6, <1>7, <1>8, <1>9, <1>10, <1>11, <1>12, <1>13,
     <1>14, <1>15, <1>16, <1>17, <1>18, <1>19, <1>20, <1>21, <1>22, <1>23, <1>24, <1>25
     DEF Next, LoopNext

-----------------------------------------------------------------------------
(***************************************************************************)
(* The theorems.                                                           *)
(***************************************************************************)

\* The invariant holds in every state of the daemon.
THEOREM Invariance == Spec => []IInv
<1>1. IInv /\ [Next]_vars => IInv'
  <2> SUFFICES ASSUME IInv, [Next]_vars PROVE IInv'
    OBVIOUS
  <2>1. Queue!TypeOK' /\ FlagsOK' /\ PlacesOK'
    BY QueueStep, FlagsStep, PlacesStep
  <2>2. TypeOK'
    BY <2>1 DEF TypeOK, FlagsOK, PlacesOK
  <2> QED BY <2>2, SavesStep, WakesStep DEF IInv
<1> QED BY <1>1, InvInit, PTL DEF Spec, Safety

\* Every variable of the daemon keeps its type, the queue's included.
THEOREM TypeCorrect == Spec => []TypeOK
<1>1. IInv => TypeOK
  BY DEF IInv
<1> QED BY <1>1, Invariance, PTL

\* The loop never sleeps through an item or a request that has come in since it
\* computed its wait, nor without a timer when there is one to wait for.
THEOREM NoSleepThroughWork == Spec => []NoLostWakeup
<1>1. IInv => NoLostWakeup
  BY DEF IInv, Wakes
<1> QED BY <1>1, Invariance, PTL

\* What a restart will show was never saved from a cycle that shutdown cut
\* short, wherever in the cycle the signal arrived.
THEOREM NoPartialCache == Spec => []SavedOnlyComplete
<1>1. IInv => SavedOnlyComplete
  BY DEF IInv, Saves
<1> QED BY <1>1, Invariance, PTL

-----------------------------------------------------------------------------
(***************************************************************************)
(* What an event has named, from one hand to the next.                     *)
(***************************************************************************)

\* A batch is what is left for further webhook cycles; only a cycle visits; and
\* the handler that would force the exit has cancelled the context.
Hands ==
  /\ batch # {} => pc \in {"webhook", "begin", "cycle", "killed"}
  /\ batch # {} /\ pc \in {"begin", "cycle"} => kind = "webhook"
  /\ visiting # None => pc \in {"cycle", "killed"}
  /\ watcher = "second" => cancelled

LEMMA HandsInit == Init => Hands
BY DEF Init, Hands

\* Steps of the loop outside a cycle.
LEMMA HandsLoop ==
  ASSUME TypeOK, Hands,
         \/ Top \/ Drain \/ NextInstance \/ TakePending \/ SweepIfDue \/ Arm
         \/ WokenByWebhook \/ WokenByRequest \/ WokenByTimer \/ WokenByShutdown
  PROVE  Hands'
<1> USE DEF Hands, LoopStep, cycleVars, shutdownVars
<1>1. CASE Top
  BY <1>1 DEF Top
<1>2. CASE Drain
  BY <1>2 DEF Drain
<1>3. CASE NextInstance
  BY <1>3 DEF NextInstance
<1>4. CASE TakePending
  BY <1>4 DEF TakePending
<1>5. CASE SweepIfDue
  BY <1>5 DEF SweepIfDue
<1>6. CASE Arm
  BY <1>6 DEF Arm
<1>7. CASE WokenByWebhook \/ WokenByRequest \/ WokenByTimer \/ WokenByShutdown
  BY <1>7 DEF WokenByWebhook, WokenByRequest, WokenByTimer, WokenByShutdown, WakeUp
<1> QED BY <1>1, <1>2, <1>3, <1>4, <1>5, <1>6, <1>7

\* Steps of a cycle, and the loop's last.
LEMMA HandsCycle ==
  ASSUME TypeOK, Hands,
         \/ Begin \/ StopBetweenInstances \/ End \/ Check \/ Save \/ Stop
         \/ \E i \in Instances : VisitBegin(i) \/ VisitEnd(i) \/ Unreachable(i) \/ StopBetweenItems(i)
  PROVE  Hands'
<1> USE DEF Hands, cycleVars, shutdownVars
<1>1. CASE Begin
  BY <1>1 DEF Begin
<1>2. CASE StopBetweenInstances
  BY <1>2 DEF StopBetweenInstances
<1>3. CASE End
  BY <1>3 DEF End
<1>4. CASE Check \/ Save \/ Stop
  BY <1>4 DEF Check, Save, Stop
<1>5. CASE \E i \in Instances : VisitBegin(i)
  BY <1>5 DEF VisitBegin
<1>6. CASE \E i \in Instances : VisitEnd(i) \/ Unreachable(i) \/ StopBetweenItems(i)
  BY <1>6 DEF VisitEnd, Unreachable, StopBetweenItems, Leave
<1> QED BY <1>1, <1>2, <1>3, <1>4, <1>5, <1>6

LEMMA HandsStep == ASSUME TypeOK, Hands, [Next]_vars PROVE Hands'
<1> USE DEF Hands, cycleVars, shutdownVars
<1>1. CASE LoopNext
  BY <1>1, HandsLoop, HandsCycle DEF LoopNext
<1>2. CASE EventArrives
  BY <1>2 DEF EventArrives, HandleWebhook, HandleUnreadable
<1>3. CASE Serve \/ RequestScan \/ SweepComesDue \/ Signal \/ \E k \in Keys : KeyRipens(k)
  BY <1>3 DEF Serve, RequestScan, SweepComesDue, Signal, KeyRipens
<1>4. CASE FirstSignal
  BY <1>4 DEF FirstSignal
<1>5. CASE ForceExit
  BY <1>5 DEF ForceExit
<1>6. CASE WatcherDone
  BY <1>6 DEF WatcherDone
<1>7. CASE Finished \/ UNCHANGED vars
  BY <1>7 DEF Finished, vars
<1> QED BY <1>1, <1>2, <1>3, <1>4, <1>5, <1>6, <1>7 DEF Next

LEMMA HandsAlways == Spec => [](TypeOK /\ Hands)
<1>1. TypeOK /\ Hands /\ [Next]_vars => Hands'
  BY HandsStep
<1> QED BY <1>1, HandsInit, TypeCorrect, PTL DEF Spec, Safety

\* The abstract queue counts as the standard module does.
LEMMA SameCount == \A S : Queue!Cardinality(S) = Cardinality(S)
  BY Zenon DEF Queue!Cardinality, Cardinality

\* An event keeps everything claimed, but for the item it may evict.
LEMMA EventKeeps ==
  ASSUME TypeOK, EventArrives, NEW k \in Keys, Waits(k)
  PROVE  Waits(k)' \/ Evicts(k)
<1>1. UNCHANGED <<pc, batch, items, todo, visiting>> /\ k \in unseen'
  BY DEF EventArrives, HandleWebhook, HandleUnreadable, cycleVars, Waits
<1>2. ASSUME k \in Queue!Pending PROVE k \in Queue!Pending' \/ Evicts(k)
  <2>1. CASE \E x \in Keys : HandleUnreadable(x)
    BY <1>2, <2>1 DEF HandleUnreadable, Queue!Touch, Queue!Pending
  <2>2. CASE \E x \in Keys, c \in Queue!Claims \ {{}} : HandleWebhook(x, c)
    <3>1. PICK x \in Keys, c \in Queue!Claims \ {{}} : HandleWebhook(x, c)
      BY <2>2
    <3>2. PICK evicted \in SUBSET (Queue!Pending \ {x}) :
            /\ IF x \notin Queue!Pending /\ Cardinality(Queue!Pending) >= Limit
                 THEN Cardinality(evicted) = 1
                 ELSE evicted = {}
            /\ scope' = [y \in Keys |-> IF y = x THEN Queue!Join(scope[x], c)
                                        ELSE IF y \in evicted THEN {} ELSE scope[y]]
      <4>1. Queue!Claim(x, c)
        BY <3>1 DEF HandleWebhook
      <4> QED BY <4>1, SameCount DEF Queue!Claim
    <3>3. CASE k = x
      <4>1. Queue!Join(scope[x], c) # {}
        BY DEF Queue!Join
      <4> QED BY <3>2, <3>3, <4>1 DEF Queue!Pending
    <3>4. CASE k # x /\ k \notin evicted
      BY <1>2, <3>2, <3>4 DEF Queue!Pending
    <3>5. CASE k \in evicted
      <4>1. x \notin Queue!Pending /\ Cardinality(Queue!Pending) >= Limit
        BY <3>2, <3>5
      <4> QED BY <1>2, <3>1, <4>1 DEF Evicts
    <3> QED BY <3>3, <3>4, <3>5
  <2> QED BY <2>1, <2>2 DEF EventArrives
<1> QED BY <1>1, <1>2 DEF Waits, InHand

\* The loop passes on what it takes: from the queue to the batch, from the batch
\* to a cycle, and from the cycle to an evaluation.
LEMMA LoopKeeps ==
  ASSUME TypeOK, Hands, LoopNext, NEW k \in Keys, Waits(k), ~cancelled
  PROVE  \/ Waits(k)'
         \/ VisitBegin(InstanceOf[k]) /\ k \in reading'
<1> USE DEF Hands, Waits, InHand, cycleVars
<1>0. InstanceOf[k] \in Instances /\ InstanceOf[k] # None
  OBVIOUS
<1>1. CASE Begin
  BY <1>1, IdleKeeps DEF Begin
<1>2. CASE End
  BY <1>2, IdleKeeps DEF End
<1>3. CASE Check \/ Save \/ Stop
  BY <1>3, IdleKeeps DEF Check, Save, Stop
<1>4. CASE \E i \in Instances : VisitBegin(i)
  <2>1. PICK i \in Instances : VisitBegin(i)
    BY <1>4
  <2>2. CASE i = InstanceOf[k] /\ k \in items
    BY <2>1, <2>2 DEF VisitBegin
  <2>3. CASE i # InstanceOf[k] \/ k \notin items
    <3>1. k \in unseen'
      BY <2>1, <2>3 DEF VisitBegin
    <3> QED BY <2>1, <2>3, <3>1, IdleKeeps DEF VisitBegin
  <2> QED BY <2>2, <2>3
<1>5. CASE \E i \in Instances : VisitEnd(i) \/ Unreachable(i)
  <2>1. PICK i \in Instances : VisitEnd(i) \/ Unreachable(i)
    BY <1>5
  <2>2. Leave(i) /\ k \in unseen'
    BY <2>1 DEF VisitEnd, Unreachable
  <2> QED BY <1>0, <2>2, IdleKeeps DEF Leave
<1>6. CASE Top
  BY <1>6, IdleKeeps DEF Top, LoopStep
<1>7. CASE Drain
  <2>1. pc = "drain" /\ batch = {} /\ k \in unseen' /\ k \in Queue!Pending
    BY <1>7 DEF Drain, LoopStep
  <2>2. CASE QueueIdle
    BY <1>7, <2>1, <2>2, IdleKeeps DEF Drain
  <2>3. CASE Queue!Take(ripe) /\ batch' = ripe
    <3>1. k \notin ripe => k \in Queue!Pending'
      BY <2>1, <2>3 DEF Queue!Take, Queue!Pending
    <3> QED BY <2>1, <2>3, <3>1
  <2> QED BY <1>7, <2>2, <2>3 DEF Drain
<1>8. CASE NextInstance
  BY <1>0, <1>8, IdleKeeps DEF NextInstance, LoopStep
<1>9. CASE TakePending \/ SweepIfDue \/ Arm
  BY <1>9, IdleKeeps DEF TakePending, SweepIfDue, Arm, LoopStep
<1>10. CASE WokenByRequest \/ WokenByTimer
  BY <1>10, IdleKeeps DEF WokenByRequest, WokenByTimer, WakeUp, LoopStep
<1>11. CASE WokenByWebhook
  BY <1>11 DEF WokenByWebhook, WakeUp, LoopStep, Queue!Wake, Queue!Pending
<1>12. CASE StopBetweenInstances \/ WokenByShutdown \/ \E i \in Instances : StopBetweenItems(i)
  BY <1>12 DEF StopBetweenInstances, WokenByShutdown, StopBetweenItems
<1> QED BY <1>1, <1>2, <1>3, <1>4, <1>5, <1>6, <1>7, <1>8, <1>9, <1>10, <1>11, <1>12 DEF LoopNext

\* Nothing but an eviction or shutdown drops what an event has named before an
\* evaluation reads it, for any items, instances and queue limit.
THEOREM HandedOn == Spec => NoneDropped
<1>1. TypeOK /\ Hands /\ [Next]_vars =>
        [\A k \in Keys : Waits(k) =>
           \/ Waits(k)'
           \/ VisitBegin(InstanceOf[k]) /\ k \in reading'
           \/ Evicts(k) \/ cancelled]_vars
  <2> SUFFICES ASSUME TypeOK, Hands, [Next]_vars, NEW k \in Keys, Waits(k), ~cancelled
               PROVE  \/ Waits(k)'
                      \/ VisitBegin(InstanceOf[k]) /\ k \in reading'
                      \/ Evicts(k)
    OBVIOUS
  <2> USE DEF Waits, InHand, cycleVars
  <2>1. CASE LoopNext
    BY <2>1, LoopKeeps
  <2>2. CASE EventArrives
    BY <2>2, EventKeeps
  <2>3. CASE Serve \/ RequestScan \/ SweepComesDue \/ Signal \/ FirstSignal \/ WatcherDone
    BY <2>3, IdleKeeps DEF Serve, RequestScan, SweepComesDue, Signal, FirstSignal, WatcherDone
  <2>4. CASE \E x \in Keys : KeyRipens(x)
    BY <2>4, RipenKeeps DEF KeyRipens
  <2>5. CASE ForceExit
    BY <2>5 DEF ForceExit, Hands
  <2>6. CASE Finished \/ UNCHANGED vars
    BY <2>6, StutterKeeps DEF Finished, vars
  <2> QED BY <2>1, <2>2, <2>3, <2>4, <2>5, <2>6 DEF Next
<1> QED BY <1>1, HandsAlways, PTL DEF Spec, Safety, NoneDropped

-----------------------------------------------------------------------------
(***************************************************************************)
(* Shutdown.                                                               *)
(***************************************************************************)
LEMMA StepsLeftAt ==
  ASSUME pc \in Steps
  PROVE  /\ pc \in {"stopped", "killed"} => StepsLeft = 0
         /\ pc = "exited" => StepsLeft = 1
         /\ pc = "top" => StepsLeft = 2
         /\ pc \in {"asleep", "webhook", "check", "save"} => StepsLeft = 3
         /\ pc = "arm" => StepsLeft = 4
         /\ pc = "cycle" => StepsLeft = IF visiting # None THEN 6 ELSE IF todo # {} THEN 5 ELSE 4
         /\ pc = "begin" => StepsLeft = 6
         /\ pc = "due" => StepsLeft = 7
         /\ pc = "take" => StepsLeft = 8
         /\ pc = "drain" => StepsLeft = 9
BY DEF StepsLeft, Over, Steps

LEMMA StepsLeftNat == ASSUME pc \in Steps PROVE StepsLeft \in 0 .. 9
BY StepsLeftAt DEF Steps

\* A step that leaves the loop where it is.
LEMMA StepsLeftKept ==
  ASSUME UNCHANGED <<pc, visiting, todo>>, pc \in Steps PROVE StepsLeft' <= StepsLeft
<1>1. StepsLeft' = StepsLeft
  BY Zenon DEF StepsLeft, Over
<1> QED BY <1>1, StepsLeftNat

\* Once the context is cancelled, every step of the loop is one of those left.
LEMMA LoopEnds ==
  ASSUME TypeOK, TypeOK', Hands, cancelled, LoopNext PROVE StepsLeft' < StepsLeft
<1>0. pc \in Steps /\ pc' \in Steps
  BY DEF TypeOK
<1>1. /\ pc' \in {"stopped", "killed"} => StepsLeft' = 0
      /\ pc' = "exited" => StepsLeft' = 1
      /\ pc' = "top" => StepsLeft' = 2
      /\ pc' \in {"asleep", "webhook", "check", "save"} => StepsLeft' = 3
      /\ pc' = "arm" => StepsLeft' = 4
      /\ pc' = "cycle" => StepsLeft' = IF visiting' # None THEN 6 ELSE IF todo' # {} THEN 5 ELSE 4
      /\ pc' = "begin" => StepsLeft' = 6
      /\ pc' = "due" => StepsLeft' = 7
      /\ pc' = "take" => StepsLeft' = 8
      /\ pc' = "drain" => StepsLeft' = 9
  BY <1>0, Zenon DEF StepsLeft, Over, Steps
<1>2. CASE Begin \/ StopBetweenInstances \/ End \/ Check \/ Save \/ Stop
  <2>1. CASE Begin
    <3>1. visiting' = None
      BY <2>1 DEF Begin, Hands
    <3> QED BY <1>0, <1>1, <2>1, <3>1, StepsLeftAt DEF Begin
  <2>2. CASE StopBetweenInstances
    BY <1>0, <1>1, <2>2, StepsLeftAt DEF StopBetweenInstances
  <2>3. CASE End
    BY <1>0, <1>1, <2>3, StepsLeftAt DEF End
  <2>4. CASE Check \/ Save \/ Stop
    <3>1. \/ pc \in {"check", "save"} /\ pc' = "top"
          \/ pc = "exited" /\ pc' = "stopped"
      BY <2>4, Zenon DEF Check, Save, Stop
    <3> QED BY <1>0, <1>1, <3>1, StepsLeftAt
  <2> QED BY <1>2, <2>1, <2>2, <2>3, <2>4
<1>3. CASE \E i \in Instances : VisitBegin(i)
  BY <1>3 DEF VisitBegin
<1>4. CASE \E i \in Instances : VisitEnd(i) \/ Unreachable(i) \/ StopBetweenItems(i)
  <2>1. pc = "cycle" /\ pc' = "cycle" /\ visiting # None /\ visiting' = None
    BY <1>4, InstancesAssumption DEF VisitEnd, Unreachable, StopBetweenItems, Leave
  <2> QED BY <1>0, <1>1, <2>1, StepsLeftAt
<1>5. CASE Top \/ Drain \/ NextInstance \/ TakePending \/ SweepIfDue \/ Arm
  BY <1>0, <1>1, <1>5, StepsLeftAt
     DEF Top, Drain, NextInstance, TakePending, SweepIfDue, Arm, LoopStep
<1>6. CASE WokenByWebhook \/ WokenByRequest \/ WokenByTimer \/ WokenByShutdown
  BY <1>0, <1>1, <1>6, StepsLeftAt
     DEF WokenByWebhook, WokenByRequest, WokenByTimer, WokenByShutdown, WakeUp, LoopStep
<1> QED BY <1>2, <1>3, <1>4, <1>5, <1>6 DEF LoopNext

\* From the first signal on, the loop has at most nine steps to its end and every
\* one it takes is one less, wherever the signal found it and whatever arrives.
THEOREM ShutdownBounded == Spec => ShutdownIsShort
<1>1. TypeOK /\ Hands /\ TypeOK' /\ [Next]_vars =>
        [cancelled =>
           IF LoopNext THEN StepsLeft' < StepsLeft ELSE StepsLeft' <= StepsLeft]_vars
  <2> SUFFICES ASSUME TypeOK, Hands, TypeOK', [Next]_vars, cancelled, ~LoopNext
               PROVE  StepsLeft' <= StepsLeft
    BY LoopEnds
  <2>0. pc \in Steps
    BY DEF TypeOK
  <2>1. CASE \/ Serve \/ EventArrives \/ RequestScan \/ SweepComesDue \/ Signal \/ FirstSignal
             \/ WatcherDone \/ Finished \/ UNCHANGED vars \/ \E k \in Keys : KeyRipens(k)
    <3>1. UNCHANGED <<pc, visiting, todo>>
      BY <2>1 DEF Serve, EventArrives, HandleWebhook, HandleUnreadable, RequestScan, SweepComesDue,
                  Signal, FirstSignal, WatcherDone, Finished, vars, KeyRipens, cycleVars
    <3> QED BY <2>0, <3>1, StepsLeftKept
  <2>2. CASE ForceExit
    <3>1. pc' = "killed"
      BY <2>2 DEF ForceExit
    <3>2. StepsLeft' = 0
      BY <3>1 DEF StepsLeft, Over
    <3> QED BY <2>0, <3>2, StepsLeftNat
  <2> QED BY <2>1, <2>2 DEF Next
<1> QED BY <1>1, HandsAlways, PTL DEF Spec, Safety, ShutdownIsShort
=============================================================================
