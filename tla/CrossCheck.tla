----------------------------- MODULE CrossCheck -----------------------------
(***************************************************************************)
(* The cross-check of decision.go and the write gates built on it: does    *)
(* the wanted list agree, item by item, with what the library says of the  *)
(* same items, and may this cycle write?  Pure operators over a pool of    *)
(* items that are numbered, as Radarr numbers its movies.                  *)
(***************************************************************************)
EXTENDS Integers, FiniteSets

CONSTANT SampleSize  \* crossCheckSampleSize

ASSUME SampleSizeAssumption == SampleSize \in Nat \ {0}

\* How many of ids come before i.
Rank(ids, i) == Cardinality({j \in ids : j < i})

\* Mutant of Sampled: a step more than fits, so some pools lose their tail.
SampledSparsely(ids) ==
  LET step == Cardinality(ids) \div SampleSize + 1
  IN  {i \in ids : Rank(ids, i) % step = 0 /\ Rank(ids, i) \div step < SampleSize}

\* sampleEveryKth: all of a small pool, else every step-th until there are
\* enough.
Sampled(ids) ==
  LET step == Cardinality(ids) \div SampleSize
  IN  IF Cardinality(ids) <= SampleSize THEN ids
      ELSE {i \in ids : Rank(ids, i) % step = 0 /\ Rank(ids, i) \div step < SampleSize}

CrossChecks ==
  [status : {"passed", "failed", "inconclusive"},
   verified : Nat, unverifiable : Nat, writeVerified : Nat, writeUnverifiable : Nat]

\* runCrossCheck over the items that would be unmonitored and those skipped with
\* a file: told, below: those whose library entry has a quality verdict at all,
\* and those where it says that the cutoff is not met.
CrossChecked(would, skipped, wanted, told, below) ==
  LET sampled  == Sampled(would) \cup Sampled(skipped)
      verified == sampled \cap told
  IN  [status |->
         IF \E i \in verified : (i \in wanted) # (i \in below) THEN "failed"
         ELSE IF sampled # {} /\ verified = {} THEN "inconclusive"
         ELSE "passed",
       verified          |-> Cardinality(verified),
       unverifiable      |-> Cardinality(sampled \ told),
       writeVerified     |-> Cardinality(Sampled(would) \cap told),
       writeUnverifiable |-> Cardinality(Sampled(would) \ told)]

\* Mutant of MayUnmonitor: any evidence will do, the skipped items' included.
MayUnmonitorOnAny(cc, pending) ==
  /\ cc.status = "passed"
  /\ pending > 0 => cc.verified > 0 /\ cc.unverifiable <= cc.verified

\* writeGateBlockReason gives no reason.
MayUnmonitor(cc, pending) ==
  /\ cc.status = "passed"
  /\ pending > 0 => cc.writeVerified > 0 /\ cc.writeUnverifiable <= cc.writeVerified

\* recoveryGateBlockReason gives no reason.
MayRecover(cc) == cc.status \in {"passed", "inconclusive"}

\* reverseWriteGateBlockReason gives no reason.
MayRemonitor(cc) ==
  /\ cc.status = "passed"
  /\ cc.verified + cc.unverifiable > 0 /\ cc.unverifiable <= cc.verified
=============================================================================
