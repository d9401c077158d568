------------------------- MODULE DebounceQueueProofs -------------------------
(***************************************************************************)
(* DebounceQueue is type correct, keeps its scopes well formed and its     *)
(* size bounded, forgets nothing silently, and implements PendingScopes,   *)
(* for every set of items, seasons and handlers and every limit.           *)
(***************************************************************************)
EXTENDS DebounceQueue, FiniteSetTheorems, TLAPS

\* A handler that claims seasons in fact names some: what keeps ClaimSeasons
\* from recording an empty set.
ClaimsNameSeasons ==
  \A h \in Handlers : handler[h] # Idle /\ handler[h].claim = "seasons"
                        => handler[h].seasons # {}

USE KeysAssumption, LimitAssumption, DebounceAssumption, WholeAssumption

-----------------------------------------------------------------------------
(***************************************************************************)
(* Lemmas about the map operators and the claims.                          *)
(***************************************************************************)

\* Removing keys from a map leaves a map on the others.
LEMMA WithoutMap ==
  ASSUME NEW S, NEW f, MapInto(f, S), NEW E
  PROVE  /\ MapInto(Without(f, E), S)
         /\ DOMAIN Without(f, E) = DOMAIN f \ E
         /\ \A k \in DOMAIN f \ E : Without(f, E)[k] = f[k]
  BY DEF MapInto, Without

\* Setting a key of a map leaves a map with that key.
LEMMA WithMap ==
  ASSUME NEW S, NEW f, MapInto(f, S), NEW k \in Keys, NEW v \in S
  PROVE  /\ MapInto(With(f, k, v), S)
         /\ DOMAIN With(f, k, v) = DOMAIN f \cup {k}
         /\ \A x \in DOMAIN f \cup {k} : With(f, k, v)[x] = IF x = k THEN v ELSE f[x]
  BY DEF MapInto, With

\* A payload claims seasons only if it names some, and names only seasons.
LEMMA ClaimsReadable ==
  ASSUME NEW k \in Keys, NEW p \in Payloads
  PROVE  /\ ClaimOf(k, p).claim \in {"whole", "nothing", "seasons"}
         /\ ClaimOf(k, p).seasons \subseteq Seasons
         /\ ClaimOf(k, p).claim = "seasons" => ClaimOf(k, p).seasons # {}
  BY DEF ClaimOf, AffectedSeasons, Payloads

\* What add evicts is pending, at most one key, and never the key it adds.
LEMMA EvictionsPending ==
  ASSUME NEW k \in Keys, NEW E \in Evictions(k)
  PROVE  E \subseteq DOMAIN deadline /\ k \notin E
  BY DEF Evictions, Oldest

-----------------------------------------------------------------------------
(***************************************************************************)
(* The inductive invariant, one part per actor: the queue, the handlers    *)
(* (with their clock), and what the loop holds.                            *)
(***************************************************************************)
QueueOK ==
  /\ MapInto(deadline, Nat)
  /\ MapInto(seasons, SUBSET Seasons)
  /\ wholeItem \subseteq Keys
  /\ notify \in BOOLEAN
  /\ PendingHasOneScope

HandlersOK ==
  /\ now \in Nat
  /\ handler \in [Handlers -> {Idle} \cup Events]
  /\ ClaimsNameSeasons

LoopOK ==
  /\ loopNow \in Nat /\ loopNow <= now
  /\ handed.due \subseteq Keys
  /\ MapInto(handed.seasons, SUBSET Seasons)

IInv == QueueOK /\ HandlersOK /\ LoopOK

\* The inductive invariant contains the type invariant.
LEMMA InvTypes == IInv => TypeOK
<1> SUFFICES ASSUME IInv PROVE TypeOK
  OBVIOUS
<1>1. loopNow \in 0 .. now
  BY DEF IInv, HandlersOK, LoopOK
<1> QED BY <1>1 DEF IInv, QueueOK, HandlersOK, LoopOK, TypeOK

\* Nothing handed over is a well-formed batch.
LEMMA NoBatchOK ==
  ASSUME handed' = NoBatch
  PROVE  handed'.due \subseteq Keys /\ MapInto(handed'.seasons, SUBSET Seasons)
  BY DEF NoBatch, MapInto

LEMMA InvInit == Init => IInv
<1> SUFFICES ASSUME Init PROVE IInv
  OBVIOUS
<1>1. MapInto(deadline, Nat) /\ DOMAIN deadline = {}
  BY DEF Init, MapInto
<1>2. MapInto(seasons, SUBSET Seasons) /\ DOMAIN seasons = {}
  BY DEF Init, MapInto
<1>3. handed.due \subseteq Keys /\ MapInto(handed.seasons, SUBSET Seasons)
  BY DEF Init, MapInto, NoBatch
<1>4. QueueOK
  BY <1>1, <1>2 DEF Init, QueueOK, PendingHasOneScope
<1>5. HandlersOK
  BY DEF Init, HandlersOK, ClaimsNameSeasons
<1>6. loopNow \in Nat /\ loopNow <= now
  BY DEF Init
<1> QED BY <1>3, <1>4, <1>5, <1>6 DEF IInv, LoopOK

-----------------------------------------------------------------------------
(***************************************************************************)
(* Recording one claim keeps the queue well formed, whoever is evicted.    *)
(***************************************************************************)

\* What recording a claim of k does to the timers.
LEMMA DeadlineSet ==
  ASSUME QueueOK, NEW k \in Keys, NEW E, NEW d \in Nat,
         deadline' = With(Without(deadline, E), k, d)
  PROVE  /\ MapInto(deadline', Nat)
         /\ DOMAIN deadline' = (DOMAIN deadline \ E) \cup {k}
<1> DEFINE f == Without(deadline, E)
<1>1. MapInto(f, Nat) /\ DOMAIN f = DOMAIN deadline \ E
  BY WithoutMap DEF QueueOK
<1> HIDE DEF f
<1>2. MapInto(With(f, k, d), Nat) /\ DOMAIN With(f, k, d) = DOMAIN f \cup {k}
  BY <1>1 DEF MapInto, With
<1> QED BY <1>1, <1>2 DEF f

LEMMA WholeKeepsQueue ==
  ASSUME QueueOK, NEW k \in Keys, NEW E, k \notin E, NEW d \in Nat,
         deadline' = With(Without(deadline, E), k, d), notify' = TRUE,
         ClaimWholeItem(k, E)
  PROVE  QueueOK'
<1> DEFINE g == Without(seasons, E \cup {k})
<1>1. /\ MapInto(deadline', Nat)
      /\ DOMAIN deadline' = (DOMAIN deadline \ E) \cup {k}
  BY DeadlineSet
<1>2. /\ MapInto(g, SUBSET Seasons)
      /\ DOMAIN g = DOMAIN seasons \ (E \cup {k})
      /\ \A x \in DOMAIN seasons \ (E \cup {k}) : g[x] = seasons[x]
  BY WithoutMap DEF QueueOK
<1>3. seasons' = g /\ wholeItem' = (wholeItem \ E) \cup {k}
  BY DEF ClaimWholeItem
<1> HIDE DEF g
<1>4. PendingHasOneScope'
  BY <1>1, <1>2, <1>3 DEF QueueOK, PendingHasOneScope
<1> QED BY <1>1, <1>2, <1>3, <1>4 DEF QueueOK

LEMMA SeasonsKeepQueue ==
  ASSUME QueueOK, NEW k \in Keys, NEW E, k \notin E, NEW d \in Nat,
         deadline' = With(Without(deadline, E), k, d), notify' = TRUE,
         NEW named \in SUBSET Seasons, named # {}, ClaimSeasons(k, E, named)
  PROVE  QueueOK'
<1> DEFINE g == Without(seasons, E)
           v == IF k \in DOMAIN seasons THEN seasons[k] \cup named ELSE named
<1>1. /\ MapInto(deadline', Nat)
      /\ DOMAIN deadline' = (DOMAIN deadline \ E) \cup {k}
  BY DeadlineSet
<1>2. /\ MapInto(g, SUBSET Seasons)
      /\ DOMAIN g = DOMAIN seasons \ E
      /\ \A x \in DOMAIN seasons \ E : g[x] = seasons[x]
  BY WithoutMap DEF QueueOK
<1>3. v \in SUBSET Seasons /\ v # {}
  BY DEF QueueOK, MapInto
<1>4. wholeItem' = wholeItem \ E /\ seasons' = IF k \in wholeItem THEN g ELSE With(g, k, v)
  BY DEF ClaimSeasons
<1> HIDE DEF g, v
<1>5. CASE k \in wholeItem
  <2>1. PendingHasOneScope'
    BY <1>1, <1>2, <1>4, <1>5 DEF QueueOK, PendingHasOneScope
  <2> QED BY <1>1, <1>2, <1>4, <1>5, <2>1 DEF QueueOK
<1>6. CASE k \notin wholeItem
  <2>1. /\ MapInto(With(g, k, v), SUBSET Seasons)
        /\ DOMAIN With(g, k, v) = DOMAIN g \cup {k}
        /\ \A x \in DOMAIN g \cup {k} : With(g, k, v)[x] = IF x = k THEN v ELSE g[x]
    BY <1>2, <1>3, WithMap
  <2>2. PendingHasOneScope'
    BY <1>1, <1>2, <1>3, <1>4, <1>6, <2>1 DEF QueueOK, PendingHasOneScope
  <2> QED BY <1>1, <1>4, <1>6, <2>1, <2>2 DEF QueueOK
<1> QED BY <1>5, <1>6

LEMMA NothingKeepsQueue ==
  ASSUME QueueOK, NEW k \in Keys, NEW E, k \notin E, NEW d \in Nat,
         deadline' = With(Without(deadline, E), k, d), notify' = TRUE,
         k \in DOMAIN deadline, ClaimNothing(k, E)
  PROVE  QueueOK'
<1> DEFINE g == Without(seasons, E)
<1>1. /\ MapInto(deadline', Nat)
      /\ DOMAIN deadline' = (DOMAIN deadline \ E) \cup {k}
  BY DeadlineSet
<1>2. /\ MapInto(g, SUBSET Seasons)
      /\ DOMAIN g = DOMAIN seasons \ E
      /\ \A x \in DOMAIN seasons \ E : g[x] = seasons[x]
  BY WithoutMap DEF QueueOK
<1>3. seasons' = g /\ wholeItem' = wholeItem \ E
  BY DEF ClaimNothing
<1> HIDE DEF g
<1>4. PendingHasOneScope'
  BY <1>1, <1>2, <1>3 DEF QueueOK, PendingHasOneScope
<1> QED BY <1>1, <1>2, <1>3, <1>4 DEF QueueOK

\* The event a busy handler holds is well formed.
LEMMA HeldEvent ==
  ASSUME IInv, NEW h \in Handlers, handler[h] # Idle
  PROVE  /\ handler[h] \in Events
         /\ handler[h].key \in Keys
         /\ handler[h].seasons \in SUBSET Seasons
         /\ handler[h].at + Debounce \in Nat
         /\ handler[h].claim = "seasons" => handler[h].seasons # {}
<1>1. handler[h] \in Events
  BY DEF IInv, HandlersOK
<1>2. handler[h].at \in Nat /\ handler[h].key \in Keys /\ handler[h].seasons \in SUBSET Seasons
  BY <1>1 DEF Events
<1> QED BY <1>1, <1>2 DEF IInv, HandlersOK, ClaimsNameSeasons

\* add keeps the queue well formed.
LEMMA AddKeepsQueue ==
  ASSUME IInv, NEW h \in Handlers, Add(h) PROVE QueueOK'
<1> DEFINE e == handler[h]
<1>1. /\ e.key \in Keys /\ e.seasons \in SUBSET Seasons /\ e.at + Debounce \in Nat
      /\ e.claim = "seasons" => e.seasons # {}
  BY HeldEvent DEF Add
<1>2. QueueOK
  BY DEF IInv
<1>3. CASE Refused(e)
  <2>1. UNCHANGED queueVars
    BY <1>3 DEF Add
  <2> QED BY <1>2, <2>1 DEF queueVars, QueueOK, PendingHasOneScope, MapInto
<1>4. CASE ~Refused(e)
  <2>1. PICK E \in Evictions(e.key) :
          /\ deadline' = With(Without(deadline, E), e.key, e.at + Debounce)
          /\ notify' = TRUE
          /\ \/ e.claim = "whole"   /\ ClaimWholeItem(e.key, E)
             \/ e.claim = "seasons" /\ ClaimSeasons(e.key, E, e.seasons)
             \/ e.claim = "nothing" /\ ClaimNothing(e.key, E)
    BY <1>4 DEF Add
  <2>2. e.key \notin E
    BY <1>1, EvictionsPending
  <2>3. e.claim = "nothing" => e.key \in DOMAIN deadline
    BY <1>4 DEF Refused
  <2> HIDE DEF e
  <2>4. CASE ClaimWholeItem(e.key, E)
    BY <1>1, <1>2, <2>1, <2>2, <2>4, WholeKeepsQueue
  <2>5. CASE e.claim = "seasons" /\ ClaimSeasons(e.key, E, e.seasons)
    BY <1>1, <1>2, <2>1, <2>2, <2>5, SeasonsKeepQueue
  <2>6. CASE e.claim = "nothing" /\ ClaimNothing(e.key, E)
    BY <1>1, <1>2, <2>1, <2>2, <2>3, <2>6, NothingKeepsQueue
  <2> QED BY <2>1, <2>4, <2>5, <2>6
<1> QED BY <1>3, <1>4

-----------------------------------------------------------------------------
(***************************************************************************)
(* Every action keeps the inductive invariant.                             *)
(***************************************************************************)

\* A step that leaves the queue, or the loop's reading, alone keeps its part.
LEMMA QueueUnchanged == ASSUME QueueOK, UNCHANGED queueVars PROVE QueueOK'
  BY DEF queueVars, QueueOK, PendingHasOneScope, MapInto

LEMMA LoopUnchanged ==
  ASSUME IInv, UNCHANGED loopNow, now' \in Nat, now <= now', handed' = NoBatch
  PROVE  LoopOK'
  BY NoBatchOK DEF IInv, HandlersOK, LoopOK

LEMMA TickInv == ASSUME IInv, Tick PROVE IInv'
<1>1. QueueOK'
  BY QueueUnchanged DEF IInv, Tick
<1>2. HandlersOK'
  BY DEF IInv, HandlersOK, ClaimsNameSeasons, Tick
<1>3. now' \in Nat /\ now <= now' /\ UNCHANGED loopNow /\ handed' = NoBatch
  BY DEF IInv, HandlersOK, Tick
<1>4. LoopOK'
  BY <1>3, LoopUnchanged
<1> QED BY <1>1, <1>2, <1>4 DEF IInv

LEMMA HandleWebhookInv ==
  ASSUME IInv, NEW h \in Handlers, NEW k \in Keys, NEW p \in Payloads, HandleWebhook(h, k, p)
  PROVE  IInv'
<1> DEFINE e == [busy |-> TRUE, key |-> k, claim |-> ClaimOf(k, p).claim,
                 seasons |-> ClaimOf(k, p).seasons, at |-> now]
<1>1. QueueOK'
  BY QueueUnchanged DEF IInv, HandleWebhook
<1>2. UNCHANGED now /\ now \in Nat /\ UNCHANGED loopNow /\ handed' = NoBatch
  BY DEF IInv, HandlersOK, HandleWebhook
<1>3. LoopOK'
  BY <1>2, LoopUnchanged
<1>4. e \in Events /\ (e.claim = "seasons" => e.seasons # {})
  BY <1>2, ClaimsReadable DEF Events
<1>5. handler' = [handler EXCEPT ![h] = e]
  BY DEF HandleWebhook
<1> HIDE DEF e
<1>6. HandlersOK'
  BY <1>2, <1>4, <1>5 DEF IInv, HandlersOK, ClaimsNameSeasons
<1> QED BY <1>1, <1>3, <1>6 DEF IInv

LEMMA AddInv == ASSUME IInv, NEW h \in Handlers, Add(h) PROVE IInv'
<1>1. QueueOK'
  BY AddKeepsQueue
<1>2. UNCHANGED now /\ now \in Nat /\ UNCHANGED loopNow /\ handed' = NoBatch
  BY DEF IInv, HandlersOK, Add
<1>3. LoopOK'
  BY <1>2, LoopUnchanged
<1>4. handler' = [handler EXCEPT ![h] = Idle]
  BY DEF Add
<1>5. HandlersOK'
  BY <1>2, <1>4 DEF IInv, HandlersOK, ClaimsNameSeasons
<1> QED BY <1>1, <1>3, <1>5 DEF IInv

LEMMA ReadClockInv == ASSUME IInv, ReadClock PROVE IInv'
<1>1. QueueOK'
  BY QueueUnchanged DEF IInv, ReadClock
<1>2. HandlersOK'
  BY DEF IInv, HandlersOK, ClaimsNameSeasons, ReadClock
<1>3. LoopOK'
  BY NoBatchOK DEF IInv, HandlersOK, LoopOK, ReadClock
<1> QED BY <1>1, <1>2, <1>3 DEF IInv

LEMMA ExpiredInv == ASSUME IInv, Expired PROVE IInv'
<1> DEFINE K == Due(loopNow)
           t == Without(seasons, K)
           d == Without(deadline, K)
<1>1. /\ MapInto(d, Nat)
      /\ DOMAIN d = DOMAIN deadline \ K
  BY WithoutMap DEF IInv, QueueOK
<1>2. /\ MapInto(t, SUBSET Seasons)
      /\ DOMAIN t = DOMAIN seasons \ K
      /\ \A x \in DOMAIN seasons \ K : t[x] = seasons[x]
  BY WithoutMap DEF IInv, QueueOK
<1>3. /\ deadline' = d /\ seasons' = t /\ wholeItem' = wholeItem \ K
      /\ UNCHANGED <<now, handler, notify, loopNow>>
      /\ handed' = [due |-> K, seasons |-> DueSeasons(K)]
  BY DEF Expired
<1>4. K \subseteq Keys
  BY DEF Due, IInv, QueueOK, MapInto
<1>5. MapInto(DueSeasons(K), SUBSET Seasons)
  BY <1>4 DEF IInv, QueueOK, MapInto, DueSeasons
<1> HIDE DEF K, d, t
<1>6. PendingHasOneScope'
  BY <1>1, <1>2, <1>3 DEF IInv, QueueOK, PendingHasOneScope
<1>7. QueueOK'
  BY <1>1, <1>2, <1>3, <1>6 DEF IInv, QueueOK
<1>8. HandlersOK'
  BY <1>3 DEF IInv, HandlersOK, ClaimsNameSeasons
<1>9. handed'.due = K /\ handed'.seasons = DueSeasons(K)
  BY <1>3
<1>10. LoopOK'
  BY <1>3, <1>4, <1>5, <1>9 DEF IInv, LoopOK
<1> QED BY <1>7, <1>8, <1>10 DEF IInv

LEMMA WakeInv == ASSUME IInv, Wake PROVE IInv'
<1>1. QueueOK'
  BY DEF IInv, QueueOK, PendingHasOneScope, MapInto, Wake
<1>2. HandlersOK'
  BY DEF IInv, HandlersOK, ClaimsNameSeasons, Wake
<1>3. LoopOK'
  BY NoBatchOK DEF IInv, LoopOK, Wake
<1> QED BY <1>1, <1>2, <1>3 DEF IInv

LEMMA InvNext == IInv /\ [Next]_vars => IInv'
<1> SUFFICES ASSUME IInv, [Next]_vars PROVE IInv'
  OBVIOUS
<1>1. CASE Tick
  BY <1>1, TickInv
<1>2. CASE \E h \in Handlers, k \in Keys, p \in Payloads : HandleWebhook(h, k, p)
  BY <1>2, HandleWebhookInv
<1>3. CASE \E h \in Handlers : Add(h)
  BY <1>3, AddInv
<1>4. CASE ReadClock
  BY <1>4, ReadClockInv
<1>5. CASE Expired
  BY <1>5, ExpiredInv
<1>6. CASE Wake
  BY <1>6, WakeInv
<1>7. CASE UNCHANGED vars
  BY <1>7 DEF vars, queueVars, IInv, QueueOK, HandlersOK, LoopOK, PendingHasOneScope,
              ClaimsNameSeasons, MapInto
<1> QED BY <1>1, <1>2, <1>3, <1>4, <1>5, <1>6, <1>7 DEF Next

THEOREM Invariance == Spec => []IInv
<1>1. Init => IInv
  BY InvInit
<1>2. IInv /\ [Next]_vars => IInv'
  BY InvNext
<1> QED BY <1>1, <1>2, PTL DEF Spec

\* The queue, the handlers and the batch handed to the loop stay well typed.
THEOREM TypeCorrect == Spec => []TypeOK
<1>1. IInv => TypeOK
  BY InvTypes
<1> QED BY <1>1, Invariance, PTL

\* No pending key ever has an empty or a double scope, so no evaluation is
\* widened to a whole series by accident of the map's contents.
THEOREM OneScope == Spec => []PendingHasOneScope
<1>1. IInv => PendingHasOneScope
  BY DEF IInv, QueueOK
<1> QED BY <1>1, Invariance, PTL

-----------------------------------------------------------------------------
(***************************************************************************)
(* The queue's limit.                                                      *)
(***************************************************************************)

\* The domain add leaves: whatever it evicts, and the key it records.
LEMMA AddDomain ==
  ASSUME IInv, NEW h \in Handlers, Add(h)
  PROVE  \/ deadline' = deadline
         \/ /\ handler[h].key \in Keys
            /\ \E E \in Evictions(handler[h].key) :
                 DOMAIN deadline' = (DOMAIN deadline \ E) \cup {handler[h].key}
<1> DEFINE e == handler[h]
<1>1. e.key \in Keys /\ e.at + Debounce \in Nat /\ QueueOK
  BY HeldEvent DEF Add, IInv
<1>2. CASE Refused(e)
  BY <1>2 DEF Add, queueVars
<1>3. CASE ~Refused(e)
  <2>1. PICK E \in Evictions(e.key) : deadline' = With(Without(deadline, E), e.key, e.at + Debounce)
    BY <1>3 DEF Add
  <2> HIDE DEF e
  <2>2. DOMAIN deadline' = (DOMAIN deadline \ E) \cup {e.key}
    BY <1>1, <2>1, DeadlineSet
  <2> QED BY <1>1, <2>2 DEF e
<1> QED BY <1>2, <1>3

LEMMA AddBounded == ASSUME IInv, Bounded, NEW h \in Handlers, Add(h) PROVE Bounded'
<1> DEFINE D == DOMAIN deadline
           k == handler[h].key
<1>1. IsFiniteSet(D) /\ Cardinality(D) \in Nat
  BY FS_Subset, FS_CardinalityType DEF IInv, QueueOK, MapInto
<1>2. CASE deadline' = deadline
  BY <1>2 DEF Bounded
<1>3. ASSUME NEW E \in Evictions(k), DOMAIN deadline' = (D \ E) \cup {k}
      PROVE  Bounded'
  <2>1. CASE E = {}
    <3>1. k \in D \/ Cardinality(D) < Limit
      BY <1>1, <2>1 DEF Evictions
    <3>2. Cardinality(D \cup {k}) = IF k \in D THEN Cardinality(D) ELSE Cardinality(D) + 1
      BY <1>1, FS_AddElement
    <3>3. DOMAIN deadline' = D \cup {k}
      BY <1>3, <2>1
    <3> HIDE DEF D, k
    <3> QED BY <1>1, <3>1, <3>2, <3>3 DEF Bounded, D
  <2>2. CASE E # {}
    <3>1. k \notin D
      BY <2>2 DEF Evictions
    <3>2. PICK v \in D : E = {v}
      BY <2>2 DEF Evictions, Oldest
    <3>3. IsFiniteSet(D \ {v}) /\ Cardinality(D \ {v}) = Cardinality(D) - 1
      BY <1>1, <3>2, FS_RemoveElement
    <3>4. Cardinality((D \ {v}) \cup {k}) = Cardinality(D \ {v}) + 1
      BY <3>1, <3>3, FS_AddElement
    <3>5. DOMAIN deadline' = (D \ {v}) \cup {k} /\ Cardinality(D) <= Limit
      BY <1>3, <3>2 DEF Bounded
    <3> HIDE DEF D, k
    <3> QED BY <1>1, <3>3, <3>4, <3>5 DEF Bounded
  <2> QED BY <2>1, <2>2
<1> QED BY <1>2, <1>3, AddDomain

\* However many events arrive, the queue holds at most Limit keys.
THEOREM QueueBounded == Spec => []Bounded
<1>1. Init => Bounded
  BY FS_EmptySet DEF Init, Bounded
<1>2. IInv /\ Bounded /\ [Next]_vars => Bounded'
  <2> SUFFICES ASSUME IInv, Bounded, [Next]_vars PROVE Bounded'
    OBVIOUS
  <2>1. CASE UNCHANGED deadline
    BY <2>1 DEF Bounded
  <2>2. CASE \E h \in Handlers : Add(h)
    BY <2>2, AddBounded
  <2>3. CASE Expired
    <3>1. DOMAIN deadline' \subseteq DOMAIN deadline
      BY <2>3 DEF Expired, Without
    <3>2. IsFiniteSet(DOMAIN deadline)
      BY FS_Subset DEF IInv, QueueOK, MapInto
    <3>3. Cardinality(DOMAIN deadline') <= Cardinality(DOMAIN deadline)
      BY <3>1, <3>2, FS_Subset
    <3>4. Cardinality(DOMAIN deadline) \in Nat /\ Cardinality(DOMAIN deadline') \in Nat
      BY <3>1, <3>2, FS_Subset, FS_CardinalityType
    <3> QED BY <3>3, <3>4 DEF Bounded
  <2>4. CASE Tick \/ ReadClock \/ Wake \/ \E h \in Handlers, k \in Keys, p \in Payloads : HandleWebhook(h, k, p)
    BY <2>4, <2>1 DEF Tick, ReadClock, Wake, HandleWebhook, queueVars
  <2>5. CASE UNCHANGED vars
    BY <2>5, <2>1 DEF vars, queueVars
  <2> QED BY <2>2, <2>3, <2>4, <2>5 DEF Next
<1> QED BY <1>1, <1>2, Invariance, PTL DEF Spec

-----------------------------------------------------------------------------
(***************************************************************************)
(* What it takes to be forgotten.                                          *)
(***************************************************************************)
MayForget(k) ==
  \/ deadline[k] <= now /\ k \in handed'.due
  \/ /\ Cardinality(DOMAIN deadline) = Limit
     /\ DOMAIN deadline' \ DOMAIN deadline # {}
     /\ \A x \in DOMAIN deadline : deadline[k] <= deadline[x]

LEMMA AddForgets ==
  ASSUME IInv, Bounded, NEW h \in Handlers, Add(h),
         NEW k \in DOMAIN deadline \ DOMAIN deadline'
  PROVE  MayForget(k)
<1> DEFINE D == DOMAIN deadline
           n == handler[h].key
<1>1. PICK E \in Evictions(n) : DOMAIN deadline' = (D \ E) \cup {n}
  BY AddDomain
<1>2. k \in E
  BY <1>1
<1>3. n \notin D /\ Cardinality(D) >= Limit /\ k \in Oldest
  BY <1>2 DEF Evictions
<1>4. Cardinality(D) \in Nat
  BY FS_Subset, FS_CardinalityType DEF IInv, QueueOK, MapInto
<1>5. Cardinality(D) = Limit
  BY <1>3, <1>4 DEF Bounded
<1>6. n \in DOMAIN deadline' \ D
  BY <1>1, <1>3
<1> QED BY <1>3, <1>5, <1>6 DEF MayForget, Oldest

LEMMA ExpiredForgets ==
  ASSUME IInv, Expired, NEW k \in DOMAIN deadline \ DOMAIN deadline'
  PROVE  MayForget(k)
<1>1. k \in Due(loopNow)
  BY DEF Expired, Without
<1>2. deadline[k] \in Nat /\ deadline[k] <= loopNow /\ loopNow \in Nat /\ loopNow <= now /\ now \in Nat
  BY <1>1 DEF Due, IInv, QueueOK, MapInto, LoopOK, HandlersOK
<1>3. deadline[k] <= now
  BY <1>2
<1>4. k \in handed'.due
  BY <1>1 DEF Expired
<1> QED BY <1>3, <1>4 DEF MayForget

\* A pending item leaves the queue only to be evaluated, when it is due, or as
\* the earliest of a full queue that a new item has entered.
THEOREM Forgetting == Spec => NeverForgotten
<1>1. IInv /\ Bounded /\ [Next]_vars
        => [\A k \in DOMAIN deadline \ DOMAIN deadline' : MayForget(k)]_vars
  <2> SUFFICES ASSUME IInv, Bounded, Next, NEW k \in DOMAIN deadline \ DOMAIN deadline'
               PROVE  MayForget(k)
    OBVIOUS
  <2>1. CASE UNCHANGED deadline
    BY <2>1
  <2>2. CASE \E h \in Handlers : Add(h)
    BY <2>2, AddForgets
  <2>3. CASE Expired
    BY <2>3, ExpiredForgets
  <2>4. CASE Tick \/ ReadClock \/ Wake \/ \E h \in Handlers, x \in Keys, p \in Payloads : HandleWebhook(h, x, p)
    BY <2>4, <2>1 DEF Tick, ReadClock, Wake, HandleWebhook, queueVars
  <2> QED BY <2>2, <2>3, <2>4 DEF Next
<1>2. IInv /\ Bounded /\ [Next]_vars
        => [\A k \in DOMAIN deadline \ DOMAIN deadline' :
              \/ deadline[k] <= now /\ k \in handed'.due
              \/ /\ Cardinality(DOMAIN deadline) = Limit
                 /\ DOMAIN deadline' \ DOMAIN deadline # {}
                 /\ \A x \in DOMAIN deadline : deadline[k] <= deadline[x]]_vars
  BY <1>1 DEF MayForget
<1> QED BY <1>2, Invariance, QueueBounded, PTL DEF Spec, NeverForgotten

-----------------------------------------------------------------------------
(***************************************************************************)
(* The refinement.                                                         *)
(***************************************************************************)

\* What the abstract queue sees of the detailed one.
LEMMA PendingIsDomain ==
  ASSUME IInv
  PROVE  /\ \A k \in Keys : ScopeOf(k) \in Promise!Claims
         /\ Promise!Pending = DOMAIN deadline
<1>1. ASSUME NEW k \in Keys
      PROVE  ScopeOf(k) \in Promise!Claims /\ (ScopeOf(k) # {} <=> k \in DOMAIN deadline)
  <2>1. CASE k \notin DOMAIN deadline
    BY <2>1 DEF ScopeOf, Promise!Claims
  <2>2. CASE k \in wholeItem
    BY <2>2 DEF IInv, QueueOK, PendingHasOneScope, ScopeOf, Promise!Claims
  <2>3. CASE k \in DOMAIN deadline \ wholeItem
    <3>1. k \in DOMAIN seasons /\ seasons[k] # {} /\ ScopeOf(k) = seasons[k]
      BY <2>3 DEF IInv, QueueOK, PendingHasOneScope, ScopeOf
    <3>2. seasons[k] \in SUBSET Seasons
      BY <3>1 DEF IInv, QueueOK, MapInto
    <3> QED BY <2>3, <3>1, <3>2 DEF Promise!Claims
  <2> QED BY <2>1, <2>2, <2>3
<1>2. DOMAIN deadline \subseteq Keys
  BY DEF IInv, QueueOK, MapInto
<1> QED BY <1>1, <1>2 DEF Promise!Pending

LEMMA RefinesInit == Init => Promise!Init
<1> SUFFICES ASSUME Init PROVE Promise!Init
  OBVIOUS
<1>1. \A k \in Keys : ScopeOf(k) = {}
  BY DEF Init, ScopeOf
<1>2. Due(now) = {} /\ notify = FALSE
  BY DEF Init, Due
<1>3. [k \in handed.due |-> HandedScope(k)] = Promise!NoBatch
  BY DEF Init, NoBatch, Promise!NoBatch
<1> QED BY <1>1, <1>2, <1>3 DEF Promise!Init

LEMMA NothingHanded ==
  ASSUME handed' = NoBatch
  PROVE  ([k \in handed.due |-> HandedScope(k)])' = Promise!NoBatch
  BY DEF NoBatch, Promise!NoBatch

\* A step that leaves the queue alone is at most the passing of time.
LEMMA QuietRefines ==
  ASSUME IInv, UNCHANGED queueVars, handed' = NoBatch, now' \in Nat, now <= now'
  PROVE  Promise!Next
<1> DEFINE K == Due(now') \ Due(now)
<1>1. ([k \in Keys |-> ScopeOf(k)])' = [k \in Keys |-> ScopeOf(k)]
  BY DEF queueVars, ScopeOf
<1>2. Due(now)' = Due(now) \cup K
  BY DEF queueVars, Due, IInv, QueueOK, MapInto, HandlersOK
<1>3. K \in SUBSET (Promise!Pending \ Due(now))
  BY PendingIsDomain DEF Due
<1> HIDE DEF K
<1>4. Promise!Ripen(K)
  BY <1>1, <1>2, NothingHanded DEF queueVars, Promise!Ripen
<1> QED BY <1>3, <1>4 DEF Promise!Next

\* Abstractly, the scope a claim leaves: the evicted keys have none, and k has
\* what it had joined with what is claimed.
Claimed(k, E, c) ==
  [x \in Keys |-> IF x = k THEN Promise!Join(ScopeOf(k), c)
                  ELSE IF x \in E THEN {} ELSE ScopeOf(x)]

\* The timers that are due after k's was set and E's were dropped.
LEMMA DueAfterAdd ==
  ASSUME IInv, NEW k \in Keys, NEW E, k \notin E, NEW d \in Nat, UNCHANGED now,
         deadline' = With(Without(deadline, E), k, d)
  PROVE  Due(now)' \in {(Due(now) \ E) \ {k}, (Due(now) \ E) \cup {k}}
<1>1. /\ DOMAIN deadline' = (DOMAIN deadline \ E) \cup {k}
      /\ \A x \in DOMAIN deadline' : deadline'[x] = IF x = k THEN d ELSE deadline[x]
  BY DEF With, Without
<1>2. CASE d <= now
  BY <1>1, <1>2 DEF Due
<1>3. CASE ~(d <= now)
  BY <1>1, <1>3 DEF Due
<1> QED BY <1>2, <1>3

LEMMA WholeClaimed ==
  ASSUME IInv, NEW k \in Keys, NEW E, k \notin E, NEW d \in Nat,
         deadline' = With(Without(deadline, E), k, d), ClaimWholeItem(k, E)
  PROVE  ([x \in Keys |-> ScopeOf(x)])' = Claimed(k, E, {Whole})
<1>1. /\ DOMAIN deadline' = (DOMAIN deadline \ E) \cup {k}
      /\ DOMAIN seasons' = DOMAIN seasons \ (E \cup {k})
      /\ \A x \in DOMAIN seasons' : seasons'[x] = seasons[x]
      /\ wholeItem' = (wholeItem \ E) \cup {k}
  BY DEF With, Without, ClaimWholeItem
<1>2. ASSUME NEW x \in Keys PROVE ScopeOf(x)' = Claimed(k, E, {Whole})[x]
  <2>1. CASE x = k
    BY <1>1, <2>1 DEF ScopeOf, Claimed, Promise!Join
  <2>2. CASE x \in E
    BY <1>1, <2>2 DEF ScopeOf, Claimed
  <2>3. CASE x # k /\ x \notin E
    BY <1>1, <2>3 DEF ScopeOf, Claimed
  <2> QED BY <2>1, <2>2, <2>3
<1> QED BY <1>2 DEF Claimed

LEMMA SeasonsClaimed ==
  ASSUME IInv, NEW k \in Keys, NEW E, k \notin E, NEW d \in Nat,
         E # {} => k \notin DOMAIN deadline,
         deadline' = With(Without(deadline, E), k, d),
         NEW named \in SUBSET Seasons, ClaimSeasons(k, E, named)
  PROVE  ([x \in Keys |-> ScopeOf(x)])' = Claimed(k, E, named)
<1>1. /\ DOMAIN deadline' = (DOMAIN deadline \ E) \cup {k}
      /\ wholeItem' = wholeItem \ E
      /\ DOMAIN seasons' \ {k} = (DOMAIN seasons \ E) \ {k}
      /\ \A x \in DOMAIN seasons' : x # k => seasons'[x] = seasons[x]
      /\ k \notin wholeItem =>
           /\ k \in DOMAIN seasons'
           /\ seasons'[k] = IF k \in DOMAIN seasons THEN seasons[k] \cup named ELSE named
  BY DEF With, Without, ClaimSeasons
<1>2. PendingHasOneScope /\ (k \in DOMAIN seasons => seasons[k] \in SUBSET Seasons)
  BY DEF IInv, QueueOK, MapInto
<1>3. ASSUME NEW x \in Keys PROVE ScopeOf(x)' = Claimed(k, E, named)[x]
  <2>1. CASE x = k /\ k \in wholeItem
    BY <1>1, <1>2, <2>1 DEF ScopeOf, Claimed, Promise!Join, PendingHasOneScope
  <2>2. CASE x = k /\ k \notin wholeItem
    <3>1. ScopeOf(k) = IF k \in DOMAIN seasons THEN seasons[k] ELSE {}
      BY <1>2, <2>2 DEF ScopeOf, PendingHasOneScope
    <3>2. Promise!Join(ScopeOf(k), named) = ScopeOf(k) \cup named
      BY <1>2, <3>1 DEF Promise!Join
    <3>3. ScopeOf(k)' = ScopeOf(k) \cup named
      BY <1>1, <2>2, <3>1 DEF ScopeOf
    <3> QED BY <2>2, <3>2, <3>3 DEF Claimed
  <2>3. CASE x # k /\ x \in E
    BY <1>1, <2>3 DEF ScopeOf, Claimed
  <2>4. CASE x # k /\ x \notin E
    BY <1>1, <2>4 DEF ScopeOf, Claimed
  <2> QED BY <2>1, <2>2, <2>3, <2>4
<1> QED BY <1>3 DEF Claimed

LEMMA NothingClaimed ==
  ASSUME IInv, NEW k \in DOMAIN deadline, NEW d \in Nat,
         deadline' = With(Without(deadline, {}), k, d), ClaimNothing(k, {})
  PROVE  ([x \in Keys |-> ScopeOf(x)])' = [x \in Keys |-> ScopeOf(x)]
<1>1. /\ DOMAIN deadline' = DOMAIN deadline
      /\ wholeItem' = wholeItem
      /\ DOMAIN seasons' = DOMAIN seasons
      /\ \A x \in DOMAIN seasons' : seasons'[x] = seasons[x]
  BY DEF With, Without, ClaimNothing
<1>2. ASSUME NEW x \in Keys PROVE ScopeOf(x)' = ScopeOf(x)
  BY <1>1 DEF ScopeOf
<1> QED BY <1>2

\* The instance counts as this module does.
LEMMA SameCount == \A S : Promise!Cardinality(S) = Cardinality(S)
  BY Zenon DEF Promise!Cardinality, Cardinality

LEMMA AddRefines == ASSUME IInv, IInv', NEW h \in Handlers, Add(h) PROVE Promise!Next
<1> DEFINE e == handler[h]
           k == e.key
           d == e.at + Debounce
<1>1. /\ k \in Keys /\ e.seasons \in SUBSET Seasons /\ d \in Nat
      /\ e.claim = "seasons" => e.seasons # {}
  BY HeldEvent DEF Add
<1>2. handed' = NoBatch /\ UNCHANGED now /\ now \in Nat
  BY DEF Add, IInv, HandlersOK
<1>3. CASE Refused(e)
  <2>1. UNCHANGED queueVars
    BY <1>3 DEF Add
  <2> QED BY <1>2, <2>1, QuietRefines
<1>4. CASE ~Refused(e)
  <2>1. PICK E \in Evictions(k) :
          /\ deadline' = With(Without(deadline, E), k, d)
          /\ notify' = TRUE
          /\ \/ e.claim = "whole"   /\ ClaimWholeItem(k, E)
             \/ e.claim = "seasons" /\ ClaimSeasons(k, E, e.seasons)
             \/ e.claim = "nothing" /\ ClaimNothing(k, E)
    BY <1>4 DEF Add
  <2>2. k \notin E /\ E \in SUBSET (Promise!Pending \ {k})
    BY <1>1, EvictionsPending, PendingIsDomain
  <2>3. /\ E # {} => k \notin DOMAIN deadline
        /\ IF k \notin Promise!Pending /\ Cardinality(Promise!Pending) >= Limit
             THEN Cardinality(E) = 1
             ELSE E = {}
    BY PendingIsDomain, FS_Singleton DEF Evictions
  <2>4. e.claim = "nothing" => k \in DOMAIN deadline
    BY <1>4 DEF Refused
  <2> HIDE DEF e, k, d
  <2>5. Due(now)' \in {(Due(now) \ E) \ {k}, (Due(now) \ E) \cup {k}}
    BY <1>1, <1>2, <2>1, <2>2, DueAfterAdd
  <2>6. ASSUME NEW c \in Promise!Claims \ {{}},
               ([x \in Keys |-> ScopeOf(x)])' = Claimed(k, E, c)
        PROVE  Promise!Next
    <3>1. Claimed(k, E, c) = [x \in Keys |-> IF x = k THEN Promise!Join([y \in Keys |-> ScopeOf(y)][k], c)
                                ELSE IF x \in E THEN {} ELSE [y \in Keys |-> ScopeOf(y)][x]]
      BY <1>1 DEF Claimed
    <3>2. Promise!Claim(k, c)
      BY <1>2, <2>1, <2>2, <2>3, <2>5, <2>6, <3>1, NothingHanded, SameCount
      DEF Promise!Claim
    <3> QED BY <1>1, <3>2 DEF Promise!Next
  <2>7. CASE ClaimWholeItem(k, E)
    <3>1. {Whole} \in Promise!Claims \ {{}}
      BY DEF Promise!Claims
    <3> QED BY <1>1, <2>1, <2>2, <2>6, <2>7, <3>1, WholeClaimed
  <2>8. CASE e.claim = "seasons" /\ ClaimSeasons(k, E, e.seasons)
    <3>1. e.seasons \in Promise!Claims \ {{}}
      BY <1>1, <2>8 DEF Promise!Claims, k, d
    <3> QED BY <1>1, <2>1, <2>2, <2>3, <2>6, <2>8, <3>1, SeasonsClaimed
  <2>9. CASE e.claim = "nothing" /\ ClaimNothing(k, E)
    <3>1. k \in DOMAIN deadline /\ E = {} /\ k \in Promise!Pending
      BY <2>3, <2>4, <2>9, PendingIsDomain
    <3>2. ([x \in Keys |-> ScopeOf(x)])' = [x \in Keys |-> ScopeOf(x)]
      BY <1>1, <2>1, <2>9, <3>1, NothingClaimed
    <3>3. Due(now)' \in {Due(now) \ {k}, Due(now) \cup {k}}
      BY <2>5, <3>1
    <3>4. Promise!Touch(k)
      BY <1>2, <2>1, <3>1, <3>2, <3>3, NothingHanded DEF Promise!Touch
    <3> QED BY <1>1, <3>4 DEF Promise!Next
  <2> QED BY <2>1, <2>7, <2>8, <2>9
<1> QED BY <1>3, <1>4

\* The batch expired returns, read as the webhook cycle reads it, is what the
\* abstract queue holds for the due keys.
LEMMA HandedWhole ==
  ASSUME IInv, Expired, NEW k \in Due(loopNow)
  PROVE  HandedScope(k)' = ScopeOf(k)
<1>1. handed' = [due |-> Due(loopNow), seasons |-> DueSeasons(Due(loopNow))]
  BY DEF Expired
<1>2. /\ DOMAIN handed'.seasons = {x \in Due(loopNow) \cap DOMAIN seasons : seasons[x] # {} /\ x \notin wholeItem}
      /\ k \in DOMAIN handed'.seasons => handed'.seasons[k] = seasons[k]
  BY <1>1 DEF DueSeasons
<1>3. PendingHasOneScope /\ k \in DOMAIN deadline
  BY DEF IInv, QueueOK, Due
<1>4. CASE k \in wholeItem
  BY <1>2, <1>3, <1>4 DEF HandedScope, ScopeOf
<1>5. CASE k \notin wholeItem
  <2>1. k \in DOMAIN seasons /\ seasons[k] # {}
    BY <1>3, <1>5 DEF PendingHasOneScope
  <2> QED BY <1>2, <1>3, <1>5, <2>1 DEF HandedScope, ScopeOf
<1> QED BY <1>4, <1>5

LEMMA ExpiredRefines == ASSUME IInv, Expired PROVE Promise!Next
<1> DEFINE K == Due(loopNow)
           S == [x \in Keys |-> ScopeOf(x)]
<1>1. /\ K # {} /\ handed'.due = K /\ UNCHANGED <<now, notify>>
      /\ deadline' = Without(deadline, K) /\ seasons' = Without(seasons, K)
      /\ wholeItem' = wholeItem \ K
  BY DEF Expired
<1>2. K \subseteq Due(now) /\ Due(now)' = Due(now) \ K
  BY <1>1 DEF Due, Without, IInv, QueueOK, MapInto, LoopOK, HandlersOK
<1>3. ([k \in handed.due |-> HandedScope(k)])' = [k \in K |-> ScopeOf(k)]
  BY <1>1, HandedWhole
<1>4. K \subseteq Keys
  BY DEF Due, IInv, QueueOK, MapInto
<1>5. [k \in K |-> ScopeOf(k)] = [k \in K |-> S[k]]
  BY <1>4
<1>6. ASSUME NEW x \in Keys PROVE ScopeOf(x)' = IF x \in K THEN {} ELSE S[x]
  BY <1>1 DEF ScopeOf, Without
<1>7. S' = [x \in Keys |-> IF x \in K THEN {} ELSE S[x]]
  BY <1>6
<1> HIDE DEF K
<1>8. Promise!Take(K)
  BY <1>1, <1>2, <1>3, <1>5, <1>7 DEF Promise!Take
<1> QED BY <1>2, <1>8 DEF Promise!Next

LEMMA WakeRefines == ASSUME Wake PROVE Promise!Next
<1>1. ([k \in Keys |-> ScopeOf(k)])' = [k \in Keys |-> ScopeOf(k)]
  BY DEF Wake, ScopeOf
<1>2. Due(now)' = Due(now)
  BY DEF Wake, Due
<1>3. Promise!Wake
  BY <1>1, <1>2, NothingHanded DEF Wake, Promise!Wake
<1> QED BY <1>3 DEF Promise!Next

\* Every step of the queue is a step of the abstract queue: for each event the
\* scope handed to an evaluation is exactly what readable events claimed.
THEOREM Refinement == Spec => KeepsPromise
<1>1. Init => Promise!Init
  BY RefinesInit
<1>2. IInv /\ IInv' /\ [Next]_vars => [Promise!Next]_Promise!vars
  <2> SUFFICES ASSUME IInv, IInv', [Next]_vars PROVE [Promise!Next]_Promise!vars
    OBVIOUS
  <2>1. now \in Nat /\ now' \in Nat
    BY DEF IInv, HandlersOK
  <2>2. CASE Tick
    BY <2>1, <2>2, QuietRefines DEF Tick
  <2>3. CASE \E h \in Handlers, k \in Keys, p \in Payloads : HandleWebhook(h, k, p)
    BY <2>1, <2>3, QuietRefines DEF HandleWebhook
  <2>4. CASE \E h \in Handlers : Add(h)
    BY <2>4, AddRefines
  <2>5. CASE ReadClock
    BY <2>1, <2>5, QuietRefines DEF ReadClock
  <2>6. CASE Expired
    BY <2>6, ExpiredRefines
  <2>7. CASE Wake
    BY <2>7, WakeRefines
  <2>8. CASE UNCHANGED vars
    BY <2>8 DEF vars, queueVars, Promise!vars, ScopeOf, Due, HandedScope
  <2> QED BY <2>2, <2>3, <2>4, <2>5, <2>6, <2>7, <2>8 DEF Next
<1> QED BY <1>1, <1>2, Invariance, PTL DEF Spec, KeepsPromise, Promise!Spec
=============================================================================
