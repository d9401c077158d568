---------------------------- MODULE PendingScopes ----------------------------
(***************************************************************************)
(* What the webhook debounce queue promises, with its timers abstracted    *)
(* away.  Every key (one movie or one series of one instance) has a        *)
(* pending scope: the set of things some readable event has claimed about  *)
(* it since it was last evaluated.  A scope only ever grows, until the key *)
(* is handed to an evaluation, or is evicted to make room for a new key.   *)
(* The daemon loop is composed with this specification; DebounceQueue is   *)
(* shown to implement it.                                                  *)
(***************************************************************************)
EXTENDS Naturals, FiniteSets

CONSTANTS
  Keys,      \* the items events can name: <<instance, kind, id>>
  Seasons,   \* the season numbers events can name
  Whole,     \* the claim on the entire item
  Limit      \* webhookQueueLimit

VARIABLES
  scope,     \* scope[k]: what is claimed of k; {} when nothing is pending
  ripe,      \* the pending keys whose debounce timer has come due
  notify,    \* the one-slot wake-up channel holds a token
  handed     \* the batch this step handed to an evaluation: key -> scope

vars == <<scope, ripe, notify, handed>>

Claims  == (SUBSET Seasons) \cup {{Whole}}
Pending == {k \in Keys : scope[k] # {}}

TypeOK ==
  /\ scope \in [Keys -> Claims]
  /\ ripe \subseteq Pending
  /\ notify \in BOOLEAN
  /\ DOMAIN handed \subseteq Keys /\ handed \in [DOMAIN handed -> Claims \ {{}}]

\* A claim on the whole item absorbs every season claim, before and after it.
Join(a, b) == IF Whole \in a \cup b THEN {Whole} ELSE a \cup b

NoBatch == [k \in {} |-> {}]

Init ==
  /\ scope  = [k \in Keys |-> {}]
  /\ ripe   = {}
  /\ notify = FALSE
  /\ handed = NoBatch

(***************************************************************************)
(* A readable event claims c of key k.  The timer of k is reset, so k is   *)
(* no longer ripe, unless the event's handler was so slow that the timer   *)
(* it sets is already past.  A new key arriving at a full queue costs one  *)
(* pending key its place.                                                  *)
(***************************************************************************)
Claim(k, c) ==
  \E evicted \in SUBSET (Pending \ {k}) :
    /\ IF k \notin Pending /\ Cardinality(Pending) >= Limit
         THEN Cardinality(evicted) = 1
         ELSE evicted = {}
    /\ scope' = [x \in Keys |-> IF x = k THEN Join(scope[k], c)
                                ELSE IF x \in evicted THEN {} ELSE scope[x]]
    /\ ripe' \in {(ripe \ evicted) \ {k}, (ripe \ evicted) \cup {k}}
    /\ notify' = TRUE
    /\ handed' = NoBatch

\* An event whose seasons cannot be read resets the timer of a key that is
\* already pending, and claims nothing.
Touch(k) ==
  /\ k \in Pending
  /\ ripe' \in {ripe \ {k}, ripe \cup {k}}
  /\ notify' = TRUE
  /\ handed' = NoBatch
  /\ UNCHANGED scope

\* Time passes: the timers of K, which may be empty, come due.
Ripen(K) ==
  /\ ripe' = ripe \cup K
  /\ handed' = NoBatch
  /\ UNCHANGED <<scope, notify>>

\* The loop takes ripe keys, each with everything claimed of it.
Take(K) ==
  /\ K # {}
  /\ handed' = [k \in K |-> scope[k]]
  /\ scope'  = [k \in Keys |-> IF k \in K THEN {} ELSE scope[k]]
  /\ ripe'   = ripe \ K
  /\ UNCHANGED notify

\* The loop receives the wake-up token.
Wake ==
  /\ notify
  /\ notify' = FALSE
  /\ handed' = NoBatch
  /\ UNCHANGED <<scope, ripe>>

Next ==
  \/ \E k \in Keys, c \in Claims \ {{}} : Claim(k, c)
  \/ \E k \in Keys : Touch(k)
  \/ \E K \in SUBSET (Pending \ ripe) : Ripen(K)
  \/ \E K \in SUBSET ripe : Take(K)
  \/ Wake

Spec == Init /\ [][Next]_vars
=============================================================================
