---------------------------- MODULE DebounceQueue ----------------------------
(***************************************************************************)
(* The webhook half of the daemon up to the point where an evaluation      *)
(* starts (webhook.go, scope.go): the HTTP handlers that turn a payload    *)
(* into a claim, the debounce queue they share with the daemon loop, and   *)
(* the loop's side of it, which takes the keys whose timers have come due. *)
(*                                                                         *)
(* A handler reads the clock before it takes the queue's lock, so two      *)
(* handlers can enter the queue in the opposite order of their readings;   *)
(* the loop, too, reads the clock before it asks what has expired.  Each   *)
(* of these is two steps here.                                             *)
(***************************************************************************)
EXTENDS Integers, FiniteSets

CONSTANTS
  Keys,      \* the items events can name: <<instance, kind, id>>
  Movies,    \* the keys of Radarr instances; the others are Sonarr series
  Seasons,   \* the season numbers events can name
  Whole,     \* the claim on the entire item, in the abstract specification
  Limit,     \* webhookQueueLimit
  Debounce,  \* webhook_debounce, in ticks
  Handlers,  \* HTTP handler goroutines
  MaxTime    \* bound on the clock

ASSUME WholeAssumption    == Whole \notin Seasons
ASSUME LimitAssumption    == Limit \in Nat \ {0}
ASSUME KeysAssumption     == IsFiniteSet(Keys) /\ Movies \subseteq Keys
ASSUME DebounceAssumption == Debounce \in Nat
ASSUME MaxTimeAssumption  == MaxTime \in Nat

VARIABLES
  now,        \* the wall clock
  handler,    \* per handler: Idle, or the event it is about to add
  deadline,   \* pending keys -> when their timer fires
  seasons,    \* keys with named seasons -> those seasons
  wholeItem,  \* keys some event claimed whole
  notify,     \* the one-slot wake-up channel holds a token
  loopNow,    \* the loop's last reading of the clock
  handed      \* what expired returns in this step: due keys, seasons of some

queueVars == <<deadline, seasons, wholeItem, notify>>
vars == <<now, handler, queueVars, loopNow, handed>>

Idle == [busy |-> FALSE]
\* f is a map from some of the keys into S, as a Go map is.
MapInto(f, S) == DOMAIN f \subseteq Keys /\ f \in [DOMAIN f -> S]

-----------------------------------------------------------------------------
(***************************************************************************)
(* Payloads.  shape is what the episodes key of a Sonarr payload holds;    *)
(* named are the season numbers its records give and unreadable says that  *)
(* some record gives none.                                                 *)
(***************************************************************************)
Payloads ==
  {[shape |-> s, named |-> {}, unreadable |-> FALSE] :
     s \in {"absent", "null", "notRecords"}}
  \cup [shape : {"records"}, named : SUBSET Seasons, unreadable : BOOLEAN]

\* What a Sonarr payload claims: absent, null and empty mean the whole series;
\* a value with no readable season in it claims nothing.
AffectedSeasons(p) ==
  IF \/ p.shape \in {"absent", "null"}
     \/ p.shape = "records" /\ p.named = {} /\ ~p.unreadable
    THEN [claim |-> "whole", seasons |-> {}]
  ELSE IF p.shape = "notRecords" \/ p.named = {}
    THEN [claim |-> "nothing", seasons |-> {}]
  ELSE [claim |-> "seasons", seasons |-> p.named]

\* A movie has no seasons: its payload claims it whole, whatever else it says.
ClaimOf(k, p) ==
  IF k \in Movies THEN [claim |-> "whole", seasons |-> {}] ELSE AffectedSeasons(p)

Events ==
  [busy : {TRUE}, key : Keys, claim : {"whole", "nothing", "seasons"},
   seasons : SUBSET Seasons, at : Nat]

-----------------------------------------------------------------------------
TypeOK ==
  /\ now \in Nat
  /\ loopNow \in 0 .. now
  /\ handler \in [Handlers -> {Idle} \cup Events]
  /\ MapInto(deadline, Nat)
  /\ MapInto(seasons, SUBSET Seasons)
  /\ wholeItem \subseteq Keys
  /\ notify \in BOOLEAN
  /\ handed.due \subseteq Keys
  /\ MapInto(handed.seasons, SUBSET Seasons)

\* Every step but expired hands the loop nothing.
NoBatch == [due |-> {}, seasons |-> [k \in {} |-> {}]]

Init ==
  /\ now = 0
  /\ handler = [h \in Handlers |-> Idle]
  /\ deadline = [k \in {} |-> 0]
  /\ seasons = [k \in {} |-> {}]
  /\ wholeItem = {}
  /\ notify = FALSE
  /\ loopNow = 0
  /\ handed = NoBatch

Tick ==
  /\ now < MaxTime
  /\ now' = now + 1
  /\ handed' = NoBatch
  /\ UNCHANGED <<handler, queueVars, loopNow>>

\* A well-formed Download event arrives and its handler reads the clock. Every
\* other request is answered and forgotten without touching the queue.
HandleWebhook(h, k, p) ==
  /\ handler[h] = Idle
  /\ handler' = [handler EXCEPT ![h] =
       [busy |-> TRUE, key |-> k, claim |-> ClaimOf(k, p).claim,
        seasons |-> ClaimOf(k, p).seasons, at |-> now]]
  /\ handed' = NoBatch
  /\ UNCHANGED <<now, queueVars, loopNow>>

\* Mutant of Oldest: evicts the key whose evaluation is furthest away.
Newest == {k \in DOMAIN deadline : \A x \in DOMAIN deadline : deadline[k] >= deadline[x]}

\* The keys a new key may push out of a full queue: the earliest deadlines.
Oldest == {k \in DOMAIN deadline : \A x \in DOMAIN deadline : deadline[k] <= deadline[x]}

\* f without the keys of K.
Without(f, K) == [x \in DOMAIN f \ K |-> f[x]]

\* f with f[k] = v.
With(f, k, v) == [x \in DOMAIN f \cup {k} |-> IF x = k THEN v ELSE f[x]]

\* Mutant of Evictions: lets the queue outgrow its limit by one.
EvictionsLate(k) ==
  IF k \notin DOMAIN deadline /\ Cardinality(DOMAIN deadline) > Limit
    THEN {{v} : v \in Oldest}
    ELSE {{}}

\* The keys add evicts before it sets k's timer.
Evictions(k) ==
  IF k \notin DOMAIN deadline /\ Cardinality(DOMAIN deadline) >= Limit
    THEN {{v} : v \in Oldest}
    ELSE {{}}

\* The effect of each claim on the accumulated scope, once E is evicted.
ClaimWholeItem(k, E) ==
  /\ wholeItem' = (wholeItem \ E) \cup {k}
  /\ seasons' = Without(seasons, E \cup {k})

\* Mutant of ClaimSeasons: later named seasons narrow a whole claim.
ClaimSeasonsNarrowing(k, E, named) ==
  /\ wholeItem' = wholeItem \ (E \cup {k})
  /\ seasons' = With(Without(seasons, E), k,
                     IF k \in DOMAIN seasons THEN seasons[k] \cup named ELSE named)

ClaimSeasons(k, E, named) ==
  /\ wholeItem' = wholeItem \ E
  /\ seasons' =
       IF k \in wholeItem \ E THEN Without(seasons, E)
       ELSE With(Without(seasons, E), k,
                 IF k \in DOMAIN seasons THEN seasons[k] \cup named ELSE named)

ClaimNothing(k, E) ==
  /\ wholeItem' = wholeItem \ E
  /\ seasons' = Without(seasons, E)

\* Mutant of Refused: an unreadable payload creates a key with no scope.
NeverRefused(e) == FALSE

\* add refuses an unreadable claim on a key with nothing pending.
Refused(e) == e.claim = "nothing" /\ e.key \notin DOMAIN deadline

\* The handler enters the queue: debounceQueue.add.
Add(h) ==
  LET e == handler[h] IN
  /\ e # Idle
  /\ handler' = [handler EXCEPT ![h] = Idle]
  /\ IF Refused(e) THEN UNCHANGED queueVars
     ELSE \E E \in Evictions(e.key) :
            /\ deadline' = With(Without(deadline, E), e.key, e.at + Debounce)
            /\ notify' = TRUE
            /\ \/ e.claim = "whole"   /\ ClaimWholeItem(e.key, E)
               \/ e.claim = "seasons" /\ ClaimSeasons(e.key, E, e.seasons)
               \/ e.claim = "nothing" /\ ClaimNothing(e.key, E)
  /\ handed' = NoBatch
  /\ UNCHANGED <<now, loopNow>>

\* Mutant of ReadClock: the loop runs ahead by one debounce.
ReadClockEarly ==
  /\ loopNow # now + Debounce
  /\ loopNow' = now + Debounce
  /\ handed' = NoBatch
  /\ UNCHANGED <<now, handler, queueVars>>

\* The loop reads the clock at the top of an iteration.
ReadClock ==
  /\ loopNow # now
  /\ loopNow' = now
  /\ handed' = NoBatch
  /\ UNCHANGED <<now, handler, queueVars>>

Due(t) == {k \in DOMAIN deadline : deadline[k] <= t}

\* The seasons expired reports: an entry only where some were accumulated and
\* the key was not claimed whole.
DueSeasons(K) ==
  [k \in {x \in K \cap DOMAIN seasons : seasons[x] # {} /\ x \notin wholeItem} |-> seasons[k]]

\* debounceQueue.expired at the loop's own reading of the clock.
Expired ==
  LET K == Due(loopNow) IN
  /\ K # {}
  /\ handed' = [due |-> K, seasons |-> DueSeasons(K)]
  /\ deadline' = Without(deadline, K)
  /\ seasons' = Without(seasons, K)
  /\ wholeItem' = wholeItem \ K
  /\ UNCHANGED <<now, handler, notify, loopNow>>

\* The loop's select receives from the queue's notify channel.
Wake ==
  /\ notify
  /\ notify' = FALSE
  /\ handed' = NoBatch
  /\ UNCHANGED <<now, handler, deadline, seasons, wholeItem, loopNow>>

Next ==
  \/ Tick
  \/ \E h \in Handlers, k \in Keys, p \in Payloads : HandleWebhook(h, k, p)
  \/ \E h \in Handlers : Add(h)
  \/ ReadClock
  \/ Expired
  \/ Wake

Spec == Init /\ [][Next]_vars

-----------------------------------------------------------------------------
(***************************************************************************)
(* What a webhook cycle makes of the batch it is handed: its scope holds   *)
(* the seasons listed for an item, and a listing that is missing or empty  *)
(* means every season of it (webhookScope, containsSeason).                *)
(***************************************************************************)
HandedScope(k) ==
  IF k \in DOMAIN handed.seasons /\ handed.seasons[k] # {}
    THEN handed.seasons[k]
    ELSE {Whole}

ScopeOf(k) ==
  IF k \notin DOMAIN deadline THEN {}
  ELSE IF k \in wholeItem THEN {Whole}
  ELSE IF k \in DOMAIN seasons THEN seasons[k] ELSE {}

Promise == INSTANCE PendingScopes WITH
  scope  <- [k \in Keys |-> ScopeOf(k)],
  ripe   <- Due(now),
  handed <- [k \in handed.due |-> HandedScope(k)]

-----------------------------------------------------------------------------
(***************************************************************************)
(* Properties.                                                             *)
(***************************************************************************)

\* A pending key is claimed whole or has named seasons, never both and never
\* neither: an empty scope would be evaluated, and written, as every season.
PendingHasOneScope ==
  /\ wholeItem \cup DOMAIN seasons \subseteq DOMAIN deadline
  /\ wholeItem \cap DOMAIN seasons = {}
  /\ \A k \in DOMAIN deadline : k \in wholeItem \/ (k \in DOMAIN seasons /\ seasons[k] # {})

\* However many events arrive, and whatever the handlers' order, add never
\* grows the queue past its limit.
Bounded == Cardinality(DOMAIN deadline) <= Limit

\* A pending item is forgotten only in two ways: its timer has come due and
\* the loop is handed it, or a new item takes the place of the one closest to
\* its evaluation in a full queue.
NeverForgotten ==
  [][\A k \in DOMAIN deadline \ DOMAIN deadline' :
       \/ deadline[k] <= now /\ k \in handed'.due
       \/ /\ Cardinality(DOMAIN deadline) = Limit
          /\ DOMAIN deadline' \ DOMAIN deadline # {}
          /\ \A x \in DOMAIN deadline : deadline[k] <= deadline[x]]_vars

\* The queue keeps its promise: what an evaluation is handed for a key is
\* exactly what the readable events since the last one claimed of it. A whole
\* claim is never narrowed by seasons named before or after it, an unreadable
\* payload widens nothing, and eviction takes the claims with the key.
KeepsPromise == Promise!Spec
=============================================================================
