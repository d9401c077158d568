------------------------- MODULE RadarrCycleProofs --------------------------
(***************************************************************************)
(* Theorems about RadarrCycle, for any movies, page size, page limit and   *)
(* sample size, any libraries and batches, and any number of edits, late   *)
(* writes, failed requests and restarts.                                   *)
(***************************************************************************)
EXTENDS RadarrCycle, CrossCheckProofs

USE MoviesAssumption, LibrariesAssumption, BatchesAssumption, OriginsAssumption,
    BoundsAssumption, PagesAssumption

-----------------------------------------------------------------------------
(***************************************************************************)
(* The wanted list and its pages.                                          *)
(***************************************************************************)
\* The members of S in their order.
Ordered(S) == [i \in 1 .. Cardinality(S) |-> CHOOSE m \in S : Rank(S, m) = i - 1]

\* Listing lists Below, and a set of movies is finite.
LEMMA ListingOrdered == ASSUME NEW b PROVE Listing(b) = Ordered(Below(b))
BY DEF Listing, Ordered

LEMMA MoviesFinite ==
  ASSUME NEW S \in SUBSET Movies
  PROVE  IsFiniteSet(S) /\ Cardinality(S) \in Nat /\ S \in SUBSET Nat
BY FS_Subset, FS_CardinalityType

\* The i-th of the list is the one that i - 1 others come before.
LEMMA OrderedAt ==
  ASSUME NEW S \in SUBSET Movies
  PROVE  /\ Len(Ordered(S)) = Cardinality(S)
         /\ \A i \in 1 .. Cardinality(S) :
              Ordered(S)[i] \in S /\ Rank(S, Ordered(S)[i]) = i - 1
         /\ \A m \in S : \E i \in 1 .. Cardinality(S) :
              i = Rank(S, m) + 1 /\ Ordered(S)[i] = m
<1>1. IsFiniteSet(S) /\ Cardinality(S) \in Nat /\ S \in SUBSET Nat
  BY MoviesFinite
<1>2. ASSUME NEW i \in 1 .. Cardinality(S)
      PROVE  Ordered(S)[i] \in S /\ Rank(S, Ordered(S)[i]) = i - 1
  <2>1. i - 1 \in Nat /\ i - 1 < Cardinality(S)
    BY <1>1
  <2>2. \E m \in S : Rank(S, m) = i - 1
    BY <1>1, <2>1, RankOnto
  <2>3. Ordered(S)[i] = CHOOSE m \in S : Rank(S, m) = i - 1
    BY DEF Ordered
  <2> QED BY <2>2, <2>3
<1>3. ASSUME NEW m \in S
      PROVE  \E i \in 1 .. Cardinality(S) : i = Rank(S, m) + 1 /\ Ordered(S)[i] = m
  <2>1. Rank(S, m) \in Nat /\ Rank(S, m) < Cardinality(S)
    BY <1>1, RankOrder
  <2> DEFINE i == Rank(S, m) + 1
  <2>2. i \in 1 .. Cardinality(S)
    BY <1>1, <2>1
  <2>3. Ordered(S)[i] \in S /\ Rank(S, Ordered(S)[i]) = Rank(S, m)
    BY <1>2, <2>1, <2>2
  <2>4. Ordered(S)[i] = m
    <3> DEFINE x == Ordered(S)[i]
    <3> HIDE DEF i, x
    <3>1. x \in Nat /\ m \in Nat /\ x \in S /\ m \in S /\ Rank(S, x) = Rank(S, m)
      BY <1>1, <2>3 DEF x
    <3>2. /\ x < m => Rank(S, x) < Rank(S, m)
          /\ m < x => Rank(S, m) < Rank(S, x)
      BY <1>1, <3>1, RankOrder
    <3>3. Rank(S, m) \in Nat
      BY <2>1
    <3>4. x = m
      BY <3>1, <3>2, <3>3
    <3> QED BY <3>4 DEF x
  <2> QED BY <2>2, <2>4
<1>4. Len(Ordered(S)) = Cardinality(S)
  BY <1>1 DEF Ordered
<1> QED BY <1>2, <1>3, <1>4

\* A page of a list holds the members between two ranks.
LEMMA OrderedPage ==
  ASSUME NEW S \in SUBSET Movies, NEW n \in Nat
  PROVE  /\ {Ordered(S)[i] : i \in 1 .. Len(Ordered(S))} = S
         /\ PageOf(Ordered(S), n + 1) =
              {m \in S : n * PageSize <= Rank(S, m) /\ Rank(S, m) < (n + 1) * PageSize}
<1>1. IsFiniteSet(S) /\ Cardinality(S) \in Nat /\ S \in SUBSET Nat
  BY MoviesFinite
<1>2. {Ordered(S)[i] : i \in 1 .. Len(Ordered(S))} = S
  BY OrderedAt
<1> DEFINE lo == n * PageSize
           hi == (n + 1) * PageSize
           P  == {i \in 1 .. Cardinality(S) : lo < i /\ i <= hi}
<1>3. lo \in Nat /\ hi \in Nat
  OBVIOUS
<1>4. PageOf(Ordered(S), n + 1) = {Ordered(S)[i] : i \in P}
  <2>1. (n + 1) - 1 = n
    OBVIOUS
  <2> QED BY <2>1, OrderedAt DEF PageOf
<1> HIDE DEF lo, hi
<1>5. ASSUME NEW m \in PageOf(Ordered(S), n + 1)
      PROVE  m \in S /\ lo <= Rank(S, m) /\ Rank(S, m) < hi
  <2>1. PICK i \in P : m = Ordered(S)[i]
    BY <1>4
  <2>2. m \in S /\ Rank(S, m) = i - 1
    BY <2>1, OrderedAt
  <2> QED BY <1>1, <1>3, <2>1, <2>2
<1>6. ASSUME NEW m \in S, lo <= Rank(S, m), Rank(S, m) < hi
      PROVE  m \in PageOf(Ordered(S), n + 1)
  <2>1. PICK i \in 1 .. Cardinality(S) : i = Rank(S, m) + 1 /\ Ordered(S)[i] = m
    BY OrderedAt
  <2>2. Rank(S, m) \in Nat
    BY <1>1, RankOrder
  <2>3. i \in P
    BY <1>1, <1>3, <1>6, <2>1, <2>2
  <2> QED BY <1>4, <2>1, <2>3
<1> QED BY <1>2, <1>5, <1>6 DEF lo, hi

\* What leaves a list moves the rest of it forward.
LEMMA RankShrinks ==
  ASSUME NEW S \in SUBSET Movies, NEW T \in SUBSET S, NEW m \in T
  PROVE  Rank(T, m) \in Nat /\ Rank(S, m) \in Nat /\ Rank(T, m) <= Rank(S, m)
<1>1. IsFiniteSet(S) /\ S \in SUBSET Nat
  BY MoviesFinite
<1> DEFINE A == {j \in S : j < m}
           B == {j \in T : j < m}
<1>2. A \in SUBSET S /\ B \in SUBSET A
  OBVIOUS
<1>3. IsFiniteSet(A) /\ IsFiniteSet(B) /\ Cardinality(B) <= Cardinality(A)
  BY <1>1, <1>2, FS_Subset
<1>4. Cardinality(A) \in Nat /\ Cardinality(B) \in Nat
  BY <1>3, FS_CardinalityType
<1> QED BY <1>3, <1>4 DEF Rank

\* What a fetch knows: when nothing has arrived in the list, its records are
\* members of the list S that the first page came from, each read once, and what
\* is still listed of them has been passed.
Read1(f, S) ==
  /\ Cardinality(S) = f.total /\ f.ids \subseteq S /\ f.always \subseteq S
  /\ f.fetched = Cardinality(f.ids)
  /\ \A m \in f.ids \cap f.always : Rank(f.always, m) < f.page * PageSize

FetchKnows(f) ==
  /\ f.page = 0 => f = NewFetch
  /\ f.page > 0 /\ ~f.grew => \E S \in SUBSET Movies : Read1(f, S)
  /\ f.status = "whole" => f.page > 0 /\ f.fetched >= f.total

LEMMA PagedTyped ==
  ASSUME NEW f \in Fetches(Movies), NEW L \in SUBSET Movies
  PROVE  Paged(f, Ordered(L)) \in Fetches(Movies)
<1> DEFINE list == Ordered(L)
           records == PageOf(list, f.page + 1)
           listed  == {list[i] : i \in 1 .. Len(list)}
           total   == IF f.page = 0 THEN Len(list) ELSE f.total
           fetched == f.fetched + Cardinality(records)
           status  == IF records = {} THEN IF fetched = total THEN "whole" ELSE "failed"
                      ELSE IF fetched >= total THEN "whole"
                      ELSE IF f.page + 1 < MaxPages THEN "paging" ELSE "failed"
           always  == IF f.page = 0 THEN listed ELSE f.always \cap listed
           grew    == f.page > 0 /\ (f.grew \/ ~(listed \subseteq f.always))
<1>1. /\ f.page \in Nat /\ f.total \in Nat /\ f.fetched \in Nat
      /\ f.ids \subseteq Movies /\ f.always \subseteq Movies
  BY DEF Fetches
<1>2. records \subseteq L /\ listed = L /\ Len(list) \in Nat
  <2>1. records \subseteq L /\ listed = L
    BY <1>1, OrderedPage
  <2>2. Len(Ordered(L)) \in Nat
    BY OrderedAt, MoviesFinite
  <2> QED BY <2>1, <2>2
<1>3. Cardinality(records) \in Nat
  BY <1>2, MoviesFinite
<1>4. Paged(f, list) =
        [page |-> f.page + 1, total |-> total, fetched |-> fetched,
         ids |-> f.ids \cup records, always |-> always, grew |-> grew, status |-> status]
  BY Zenon DEF Paged
<1>5. status \in {"paging", "whole", "failed"} /\ grew \in BOOLEAN
  OBVIOUS
<1>6. total \in Nat /\ fetched \in Nat /\ f.page + 1 \in Nat
  BY <1>1, <1>2, <1>3
<1>7. f.ids \cup records \subseteq Movies /\ always \subseteq Movies
  BY <1>1, <1>2
<1> HIDE DEF status, grew, total, fetched, always, records
<1> QED BY <1>4, <1>5, <1>6, <1>7 DEF Fetches

LEMMA PagedKnows ==
  ASSUME NEW f \in Fetches(Movies), NEW L \in SUBSET Movies, FetchKnows(f), f.status = "paging"
  PROVE  FetchKnows(Paged(f, Ordered(L)))
<1> DEFINE g == Paged(f, Ordered(L))
           records == PageOf(Ordered(L), f.page + 1)
<1>1. /\ f.page \in Nat /\ f.total \in Nat /\ f.fetched \in Nat
      /\ f.ids \subseteq Movies /\ f.always \subseteq Movies /\ f.grew \in BOOLEAN
  BY DEF Fetches
<1>2. g \in Fetches(Movies)
  BY PagedTyped
<1>3. /\ records = {m \in L : f.page * PageSize <= Rank(L, m) /\ Rank(L, m) < (f.page + 1) * PageSize}
      /\ {Ordered(L)[i] : i \in 1 .. Len(Ordered(L))} = L
      /\ Len(Ordered(L)) = Cardinality(L)
  <2>1. /\ {Ordered(L)[i] : i \in 1 .. Len(Ordered(L))} = L
        /\ PageOf(Ordered(L), f.page + 1) =
             {m \in L : f.page * PageSize <= Rank(L, m) /\ Rank(L, m) < (f.page + 1) * PageSize}
    BY <1>1, OrderedPage, Zenon
  <2>2. Len(Ordered(L)) = Cardinality(L)
    BY OrderedAt
  <2> QED BY <2>1, <2>2
<1>4. /\ g.page = f.page + 1 /\ g.ids = f.ids \cup records
      /\ g.total = (IF f.page = 0 THEN Cardinality(L) ELSE f.total)
      /\ g.fetched = f.fetched + Cardinality(records)
      /\ g.always = (IF f.page = 0 THEN L ELSE f.always \cap L)
      /\ g.grew = (f.page > 0 /\ (f.grew \/ ~(L \subseteq f.always)))
      /\ g.status = "whole" => g.fetched >= g.total
  <2>1. /\ g.page = f.page + 1 /\ g.ids = f.ids \cup records
        /\ g.total = (IF f.page = 0 THEN Len(Ordered(L)) ELSE f.total)
        /\ g.fetched = f.fetched + Cardinality(records)
        /\ g.always = (IF f.page = 0 THEN {Ordered(L)[i] : i \in 1 .. Len(Ordered(L))}
                       ELSE f.always \cap {Ordered(L)[i] : i \in 1 .. Len(Ordered(L))})
        /\ g.grew = (f.page > 0 /\
                       (f.grew \/ ~({Ordered(L)[i] : i \in 1 .. Len(Ordered(L))} \subseteq f.always)))
    BY Zenon DEF Paged
  <2>2. g.status = "whole" => g.fetched = g.total \/ g.fetched >= g.total
    BY DEF Paged
  <2>3. g.fetched \in Nat /\ g.total \in Nat
    BY <1>2 DEF Fetches
  <2> HIDE DEF g, records
  <2>4. g.grew = (f.page > 0 /\ (f.grew \/ ~(L \subseteq f.always)))
    BY <1>3, <2>1, Zenon
  <2>5. g.status = "whole" => g.fetched >= g.total
    BY <2>2, <2>3
  <2> QED BY <1>3, <2>1, <2>4, <2>5
<1> HIDE DEF g
<1>5. records \subseteq L /\ IsFiniteSet(records) /\ Cardinality(records) \in Nat
  BY <1>3, MoviesFinite
<1>6. ASSUME ~g.grew PROVE \E S \in SUBSET Movies : Read1(g, S)
  <2>1. CASE f.page = 0
    <3>1. f.ids = {} /\ f.fetched = 0
      BY <2>1 DEF FetchKnows, NewFetch
    <3>2. g.ids = records /\ g.fetched = Cardinality(records) /\ g.always = L
          /\ g.total = Cardinality(L) /\ g.page = 1
      BY <1>4, <1>5, <2>1, <3>1
    <3>3. \A m \in records : Rank(L, m) < g.page * PageSize
      BY <1>3, <2>1, <3>2
    <3> QED BY <1>5, <3>2, <3>3 DEF Read1
  <2>2. CASE f.page > 0
    <3>1. ~f.grew /\ L \subseteq f.always
      BY <1>4, <1>6, <2>2
    <3>2. PICK S \in SUBSET Movies : Read1(f, S)
      BY <2>2, <3>1 DEF FetchKnows
    <3>3. g.always = L /\ g.total = f.total /\ L \subseteq S
      <4>1. f.page # 0
        BY <1>1, <2>2
      <4>2. f.always \cap L = L
        BY <3>1
      <4>3. f.always \subseteq S
        BY <3>2, Zenon DEF Read1
      <4>4. g.always = f.always \cap L /\ g.total = f.total
        BY <1>4, <4>1, Zenon
      <4> QED BY <3>1, <4>2, <4>3, <4>4
    <3>4. \A m \in f.ids \cap L : Rank(L, m) < f.page * PageSize
      <4> TAKE m \in f.ids \cap L
      <4>1. Rank(L, m) \in Nat /\ Rank(f.always, m) \in Nat /\ Rank(L, m) <= Rank(f.always, m)
        BY <1>1, <3>1, RankShrinks
      <4>2. Rank(f.always, m) < f.page * PageSize
        BY <3>1, <3>2 DEF Read1
      <4>3. f.page * PageSize \in Nat
        BY <1>1
      <4> QED BY <4>1, <4>2, <4>3
    <3>5. \A m \in records : Rank(L, m) \in Nat /\ f.page * PageSize <= Rank(L, m)
      BY <1>3, RankShrinks
    <3>6. f.ids \cap records = {}
      <4>1. f.page * PageSize \in Nat
        BY <1>1
      <4>2. ASSUME NEW m \in f.ids, m \in records PROVE FALSE
        BY <1>5, <3>4, <3>5, <4>1, <4>2
      <4> QED BY <4>2
    <3>7. g.fetched = Cardinality(g.ids)
      <4>1. IsFiniteSet(f.ids) /\ Cardinality(f.ids) \in Nat
        BY <1>1, MoviesFinite
      <4>2. Cardinality(f.ids \cup records) =
              Cardinality(f.ids) + Cardinality(records) - Cardinality(f.ids \cap records)
        BY <1>5, <4>1, FS_Union
      <4>3. Cardinality(f.ids \cap records) = 0
        BY <3>6, FS_EmptySet
      <4> QED BY <1>4, <1>5, <3>2, <4>1, <4>2, <4>3 DEF Read1
    <3>8. \A m \in g.ids \cap g.always : Rank(g.always, m) < g.page * PageSize
      <4> TAKE m \in g.ids \cap g.always
      <4>1. m \in L /\ Rank(L, m) \in Nat
        BY <3>3, RankShrinks
      <4>2. f.page * PageSize \in Nat /\ g.page * PageSize = f.page * PageSize + PageSize
        BY <1>1, <1>4
      <4>3. CASE m \in f.ids
        <5>1. Rank(L, m) < f.page * PageSize
          BY <3>4, <4>1, <4>3
        <5> QED BY <3>3, <4>1, <4>2, <5>1
      <4>4. CASE m \in records
        BY <1>3, <1>4, <3>3, <4>4
      <4> QED BY <1>4, <4>3, <4>4
    <3>9. g.ids \subseteq S /\ g.always \subseteq S /\ Cardinality(S) = g.total
      BY <1>4, <1>5, <3>2, <3>3 DEF Read1
    <3> QED BY <3>7, <3>8, <3>9 DEF Read1
  <2> QED BY <1>1, <2>1, <2>2
<1>7. g.page > 0
  BY <1>1, <1>4
<1> QED BY <1>4, <1>6, <1>7 DEF FetchKnows, g

-----------------------------------------------------------------------------
(***************************************************************************)
(* Types.                                                                  *)
(***************************************************************************)
ServerType ==
  /\ radarr \in [Movies -> Movie] /\ late \subseteq Movies \X Movie
  /\ edits \in 0 .. MaxEdits /\ stops \in 0 .. MaxStops

CycleType ==
  /\ lib \in {NoLib} \cup [Movies -> Movie]
  /\ origin \in Origins \cup {"none"} /\ scope \subseteq Movies
  /\ phase \in {"idle", "paging", "writing", "reversePaging", "reverseWriting"}
  /\ fetch \in Fetches(Movies) /\ check \in CrossChecks

JobsType ==
  /\ jobs \subseteq scope /\ op \in {NoOp} \cup Ops /\ count \in [Outcomes -> Nat]

FlagsType == dryRun \in BOOLEAN /\ stopping \in BOOLEAN

LEMMA TypeParts == TypeOK <=> ServerType /\ CycleType /\ JobsType /\ FlagsType
BY DEF TypeOK, ServerType, CycleType, JobsType, FlagsType

LEMMA EmptyTyped ==
  /\ NewFetch \in Fetches(Movies) /\ NoCheck \in CrossChecks /\ NoCount \in [Outcomes -> Nat]
BY DEF NewFetch, Fetches, NoCheck, CrossChecks, NoCount, Outcomes

LEMMA InitTyped == Init => TypeOK
<1> SUFFICES ASSUME Init PROVE TypeOK
  OBVIOUS
<1>1. ServerType
  BY DEF Init, ServerType
<1>2. CycleType
  BY EmptyTyped DEF Init, CycleType
<1>3. JobsType
  BY EmptyTyped DEF Init, JobsType
<1>4. FlagsType
  BY DEF Init, FlagsType
<1> QED BY <1>1, <1>2, <1>3, <1>4, TypeParts

LEMMA IdleTyped == ASSUME Idle PROVE CycleType' /\ JobsType'
BY EmptyTyped DEF Idle, CycleType, JobsType

\* An operation that is somewhere is one.
LEMMA Busy ==
  ASSUME JobsType, op # NoOp \/ op.at # "none"
  PROVE  /\ op \in Ops /\ op.movie \in Movies /\ op.to \in BOOLEAN /\ op.seen \in Movie
         /\ op.since \in Nat /\ op.at \in {"get", "verify", "put"}
BY DEF JobsType, NoOp, Ops

LEMMA BecomeTyped ==
  ASSUME JobsType, NEW o \in [Outcomes -> Nat], Become(o)
  PROVE  count' \in [Outcomes -> Nat]
BY DEF JobsType, Become

LEMMA OneTyped ==
  ASSUME NEW o \in Outcomes
  PROVE  /\ One(o) \in [Outcomes -> Nat] /\ One(o)[o] = 1
         /\ \A x \in Outcomes \ {o} : One(o)[x] = 0
BY DEF One, NoCount, Outcomes

LEMMA PassTyped ==
  ASSUME NEW M \in SUBSET scope, scope \subseteq Movies, NEW open \in BOOLEAN, Pass(M, open)
  PROVE  jobs' \subseteq scope /\ count' \in [Outcomes -> Nat]
<1>1. Cardinality(M) \in Nat
  BY MoviesFinite
<1> QED BY <1>1, EmptyTyped DEF Pass, Outcomes

\* Below names movies, so a page is one of an ordered set of them.
LEMMA GetPageIs ==
  ASSUME GetPage
  PROVE  \E L \in SUBSET Movies : fetch' = Paged(fetch, Ordered(L))
<1>1. Below(phase = "paging") \in SUBSET Movies
  BY DEF Below
<1> QED BY <1>1, ListingOrdered DEF GetPage

LEMMA ServerTyped ==
  ASSUME ServerType, JobsType, [Next]_vars
  PROVE  ServerType'
<1> USE DEF ServerType
<1>1. CASE UNCHANGED <<server, stops>>
  BY <1>1 DEF server
<1>2. ASSUME NEW m \in Movies, NEW x \in Movie, Store(m, x) PROVE radarr' \in [Movies -> Movie]
  <2>1. [radarr[m] EXCEPT !.monitored = x.monitored, !.tags = x.tags] \in Movie
    BY DEF Movie
  <2> QED BY <1>2, <2>1 DEF Store
<1>3. CASE Put
  <2>1. op.movie \in Movies /\ op.to \in BOOLEAN /\ op.seen \in Movie
    BY <1>3, Busy DEF Put, At
  <2>2. Written \in Movie
    BY <2>1 DEF Written, Movie
  <2>3. UNCHANGED <<edits, stops>>
    BY <1>3 DEF Put, At
  <2>4. radarr' \in [Movies -> Movie]
    BY <1>2, <1>3, <2>1, <2>2 DEF Put
  <2>5. late' \subseteq Movies \X Movie
    BY <1>3, <2>1, <2>2 DEF Put
  <2> QED BY <2>3, <2>4, <2>5
<1>4. CASE LateArrives
  <2>1. PICK w \in late : Store(w[1], w[2]) /\ late' = late \ {w}
    BY <1>4 DEF LateArrives
  <2>2. w[1] \in Movies /\ w[2] \in Movie
    BY <2>1
  <2> QED BY <1>2, <1>4, <2>1, <2>2 DEF LateArrives
<1>5. CASE Edit
  <2>0. PICK m \in Movies : \E x \in Changed(radarr[m]) : radarr' = [radarr EXCEPT ![m] = x]
    BY <1>5 DEF Edit
  <2>1. PICK x \in Changed(radarr[m]) : radarr' = [radarr EXCEPT ![m] = x]
    BY <2>0
  <2>2. radarr[m] \in Movie
    OBVIOUS
  <2>3. /\ [radarr[m] EXCEPT !.monitored = ~radarr[m].monitored] \in Movie
        /\ [radarr[m] EXCEPT !.below = ~radarr[m].below] \in Movie
        /\ [radarr[m] EXCEPT !.scores = ~radarr[m].scores] \in Movie
    BY <2>2 DEF Movie
  <2>4. [radarr[m] EXCEPT !.tags = IF radarr[m].tags = "none" THEN "excluded" ELSE "none"] \in Movie
    BY <2>2 DEF Movie
  <2>5. x \in Movie
    BY <2>3, <2>4, Zenon DEF Changed
  <2> QED BY <1>5, <2>1, <2>5 DEF Edit
<1>6. CASE Stop
  BY <1>6 DEF Stop, server
<1> QED BY <1>1, <1>3, <1>4, <1>5, <1>6
        DEF Next, vars, server, Begin, GetPage, GiveUp, Evaluate, BeginReverse, EvaluateReverse,
            Abandon, End, Take, WithholdRest, Get, GetFails, Verify, At, Restart

LEMMA CycleTyped ==
  ASSUME ServerType, CycleType, [Next]_vars
  PROVE  CycleType'
<1> USE DEF CycleType
<1>1. CASE UNCHANGED <<cycle, phase, fetch>>
  BY <1>1 DEF cycle
<1>2. CASE Begin
  <2>1. PICK o \in Origins :
          /\ origin' = o
          /\ IF o = "sweep" THEN scope' = Movies
             ELSE \E b \in Batches : scope' = b /\ (o = "action" => Cardinality(b) = 1)
    BY <1>2 DEF Begin
  <2>2. scope' \subseteq Movies
    BY <2>1
  <2> QED BY <1>2, <2>1, <2>2, EmptyTyped DEF Begin, ServerType
<1>3. CASE GetPage
  BY <1>3, GetPageIs, PagedTyped DEF GetPage, cycle
<1>4. CASE Idle
  BY <1>4, IdleTyped
<1>5. CASE Evaluate
  <2>1. check' \in CrossChecks
    <3>1. PICK l \in Losses :
            LET decided == {m \in Movies : lib[m].monitored}
                would   == {m \in decided : Decided(m, l) = "cutoff met"}
                told    == {m \in Movies : lib[m].told}
                below   == {m \in Movies : lib[m].below}
                skipped == {m \in decided \ would : lib[m].file}
            IN  check' = CrossChecked(would, skipped, fetch.ids, told, below)
      BY <1>5 DEF Evaluate
    <3> DEFINE would   == {m \in {m \in Movies : lib[m].monitored} : Decided(m, l) = "cutoff met"}
               skipped == {m \in {m \in Movies : lib[m].monitored} \ would : lib[m].file}
    <3>2. would \in SUBSET Movies /\ skipped \in SUBSET Movies
      OBVIOUS
    <3>3. PICK told, below : check' = CrossChecked(would, skipped, fetch.ids, told, below)
      BY <3>1
    <3> HIDE DEF would, skipped
    <3> QED BY <3>2, <3>3, MoviesFinite, CrossCheckedTyped
  <2> QED BY <1>5, <2>1 DEF Evaluate
<1>6. CASE BeginReverse
  BY <1>6, EmptyTyped DEF BeginReverse, cycle
<1>7. CASE EvaluateReverse
  BY <1>7 DEF EvaluateReverse, cycle
<1> QED BY <1>1, <1>2, <1>3, <1>4, <1>5, <1>6, <1>7
        DEF Next, vars, GiveUp, Abandon, End, Take, WithholdRest, Get, GetFails, Verify, At, Put,
            LateArrives, Edit, Stop, Restart

LEMMA FlagsTyped ==
  ASSUME FlagsType, [Next]_vars PROVE FlagsType'
BY DEF FlagsType, Next, vars, Begin, GetPage, GiveUp, Evaluate, BeginReverse, EvaluateReverse,
       Abandon, End, Take, WithholdRest, Get, GetFails, Verify, At, Put, LateArrives, Edit, Stop,
       Restart

LEMMA FinishTyped ==
  ASSUME JobsType, NEW o \in Outcomes, Finish(o), UNCHANGED <<jobs, scope>>
  PROVE  JobsType'
BY OneTyped, BecomeTyped DEF JobsType, Finish

\* Nothing is written, or left to write, outside the two passes.
Quiet == phase \notin {"writing", "reverseWriting"} => jobs = {} /\ op = NoOp

LEMMA NoOpIs == \A o : o.at \in {"get", "verify", "put"} => o # NoOp
<1>1. NoOp.at = "none"
  BY DEF NoOp
<1> QED BY <1>1

LEMMA NotDone ==
  ASSUME op.at \in {"get", "verify", "put"} PROVE op # NoOp
BY NoOpIs

LEMMA QuietKept ==
  ASSUME Quiet, [Next]_vars PROVE Quiet'
<1> USE DEF Quiet
<1>1. CASE UNCHANGED <<phase, jobs, op>>
  BY <1>1
<1>2. CASE Idle
  BY <1>2 DEF Idle
<1>3. CASE Begin \/ Evaluate \/ BeginReverse \/ EvaluateReverse
  BY <1>3 DEF Begin, Evaluate, BeginReverse, PassOver, EvaluateReverse
<1>4. CASE Take \/ WithholdRest
  BY <1>4 DEF Take, WithholdRest
<1>5. CASE Get \/ GetFails \/ Verify \/ Put
  <2>1. op.at \in {"get", "verify", "put"} /\ UNCHANGED phase
    BY <1>5 DEF Get, GetFails, Verify, Put, At
  <2>2. op # NoOp
    BY <2>1, NotDone
  <2> QED BY <2>1, <2>2
<1>6. CASE GetPage \/ LateArrives \/ Edit \/ Stop \/ UNCHANGED vars
  BY <1>1, <1>6 DEF GetPage, LateArrives, Edit, Stop, vars
<1>7. CASE GiveUp \/ Abandon \/ End \/ Restart
  BY <1>2, <1>7 DEF GiveUp, Abandon, End, Restart
<1> QED BY <1>3, <1>4, <1>5, <1>6, <1>7 DEF Next

LEMMA JobsTyped ==
  ASSUME ServerType, CycleType, JobsType, Quiet, [Next]_vars
  PROVE  JobsType'
<1>1. CASE UNCHANGED <<jobs, op, count, scope>>
  BY <1>1 DEF JobsType
<1>2. CASE Idle
  BY <1>2, IdleTyped
<1>3. CASE Evaluate
  <2>1. PICK M \in SUBSET scope, open \in BOOLEAN : Pass(M, open)
    <3>1. \A x : ToWrite(x) \in SUBSET scope
      BY DEF ToWrite
    <3>2. \A cc, n : MayUnmonitor(cc, n) \in BOOLEAN
      BY DEF MayUnmonitor
    <3>3. PICK w : \/ Pass({}, TRUE)
                   \/ Pass(ToWrite(w), MayUnmonitor(check', Cardinality(ToWrite(w))))
      BY <1>3 DEF Evaluate
    <3> QED BY <3>1, <3>2, <3>3
  <2> QED BY <1>3, <2>1, PassTyped DEF Evaluate, JobsType, CycleType
<1>4. CASE BeginReverse
  BY <1>4, EmptyTyped DEF BeginReverse, JobsType, cycle
<1>5. CASE EvaluateReverse
  <2>1. PICK M \in SUBSET scope, open \in BOOLEAN : Pass(M, open)
    <3>1. MayRemonitor(check) \in BOOLEAN
      BY DEF MayRemonitor
    <3> QED BY <1>5, <3>1 DEF EvaluateReverse
  <2> QED BY <1>5, <2>1, PassTyped DEF EvaluateReverse, JobsType, CycleType, cycle
<1>6. CASE Take
  <2>1. PICK m \in jobs :
          /\ jobs' = jobs \ {m}
          /\ op' = [at |-> "get", movie |-> m, to |-> phase = "reverseWriting",
                    seen |-> radarr[m], since |-> edits]
    BY <1>6 DEF Take
  <2>2. m \in Movies /\ radarr[m] \in Movie /\ edits \in Nat
    <3>1. jobs \subseteq Movies
      BY DEF JobsType, CycleType
    <3>2. m \in Movies
      BY <2>1, <3>1
    <3>3. radarr[m] \in Movie
      BY <3>2 DEF ServerType
    <3>4. edits \in Nat
      BY DEF ServerType
    <3> QED BY <3>2, <3>3, <3>4
  <2>3. (phase = "reverseWriting") \in BOOLEAN
    OBVIOUS
  <2>4. op' \in Ops
    <3> DEFINE to == phase = "reverseWriting"
    <3>1. op' = [at |-> "get", movie |-> m, to |-> to, seen |-> radarr[m], since |-> edits]
      BY <2>1
    <3> HIDE DEF to
    <3>2. to \in BOOLEAN
      BY <2>3 DEF to
    <3> QED BY <2>2, <3>1, <3>2 DEF Ops
  <2> QED BY <1>6, <2>1, <2>4 DEF Take, JobsType, cycle
<1>7. CASE WithholdRest
  <2>1. Cardinality(jobs) \in Nat
    BY MoviesFinite DEF JobsType, CycleType
  <2>2. [NoCount EXCEPT !["withheld"] = Cardinality(jobs)] \in [Outcomes -> Nat]
    BY <2>1, EmptyTyped
  <2>3. count' \in [Outcomes -> Nat]
    BY <1>7, <2>2, BecomeTyped DEF WithholdRest
  <2> QED BY <1>7, <2>3 DEF WithholdRest, JobsType, cycle
<1>8. CASE Get
  <2>1. op \in Ops /\ op.movie \in Movies /\ UNCHANGED <<jobs, scope>>
    BY <1>8, Busy DEF Get, At, cycle
  <2>2. [op EXCEPT !.at = "verify", !.seen = radarr[op.movie]] \in Ops
    BY <2>1 DEF Ops, ServerType
  <2>3. [op EXCEPT !.at = "put", !.seen = radarr[op.movie]] \in Ops
    BY <2>1 DEF Ops, ServerType
  <2>4. CASE Finish("refused") \/ Finish("withheld")
    BY <2>1, <2>4, FinishTyped DEF Outcomes
  <2>5. CASE /\ \/ op' = [op EXCEPT !.at = "verify", !.seen = radarr[op.movie]]
                \/ op' = [op EXCEPT !.at = "put", !.seen = radarr[op.movie]]
             /\ UNCHANGED count
    BY <2>1, <2>2, <2>3, <2>5 DEF JobsType
  <2> QED BY <1>8, <2>4, <2>5 DEF Get
<1>9. CASE GetFails
  BY <1>9, FinishTyped DEF GetFails, At, cycle, Outcomes
<1>10. CASE Verify
  <2>1. op \in Ops /\ UNCHANGED <<jobs, scope>>
    BY <1>10, Busy DEF Verify, At, cycle
  <2>2. [op EXCEPT !.at = "put"] \in Ops
    BY <2>1 DEF Ops
  <2>3. CASE Finish("refused") \/ Finish("withheld")
    BY <2>1, <2>3, FinishTyped DEF Outcomes
  <2>4. CASE Goto("put")
    BY <2>1, <2>2, <2>4 DEF JobsType, Goto
  <2> QED BY <1>10, <2>3, <2>4 DEF Verify
<1>11. CASE Put
  <2>1. UNCHANGED <<jobs, scope>>
    BY <1>11 DEF Put, At, cycle
  <2>2. \E o \in Outcomes : Finish(o)
    BY <1>11 DEF Put, Outcomes
  <2> QED BY <2>1, <2>2, FinishTyped
<1>12. CASE Begin
  BY <1>12 DEF Begin, JobsType, Quiet
<1>13. CASE GetPage \/ LateArrives \/ Edit \/ Stop \/ UNCHANGED vars
  BY <1>1, <1>13 DEF GetPage, LateArrives, Edit, Stop, vars, cycle
<1>14. CASE GiveUp \/ Abandon \/ End \/ Restart
  BY <1>2, <1>14 DEF GiveUp, Abandon, End, Restart
<1> QED BY <1>3, <1>4, <1>5, <1>6, <1>7, <1>8, <1>9, <1>10, <1>11, <1>12, <1>13, <1>14 DEF Next

\* Every variable stays in its type: a pass writes only what its scope holds, and
\* what the server is left with are movies.
THEOREM TypeCorrect == Spec => []TypeOK
<1> DEFINE Inv == TypeOK /\ Quiet
<1>1. Init => Inv
  BY InitTyped DEF Init, Quiet
<1>2. Inv /\ [Next]_vars => Inv'
  <2> SUFFICES ASSUME Inv, [Next]_vars PROVE Inv'
    OBVIOUS
  <2>1. ServerType' /\ CycleType' /\ JobsType' /\ FlagsType' /\ Quiet'
    BY TypeParts, ServerTyped, CycleTyped, JobsTyped, FlagsTyped, QuietKept
  <2>2. TypeOK'
    BY <2>1, TypeParts, PTL
  <2> QED BY <2>1, <2>2
<1> QED BY <1>1, <1>2, PTL DEF Spec

-----------------------------------------------------------------------------
(***************************************************************************)
(* The wanted list.                                                        *)
(***************************************************************************)
LEMMA FetchKept ==
  ASSUME TypeOK, FetchKnows(fetch), [Next]_vars
  PROVE  FetchKnows(fetch')
<1>1. CASE UNCHANGED fetch
  BY <1>1
<1>2. CASE fetch' = NewFetch
  BY <1>2 DEF FetchKnows, NewFetch
<1>3. CASE GetPage
  <2>1. PICK L \in SUBSET Movies : fetch' = Paged(fetch, Ordered(L))
    BY <1>3, GetPageIs
  <2>2. fetch \in Fetches(Movies) /\ fetch.status = "paging"
    BY <1>3 DEF GetPage, TypeOK
  <2>3. FetchKnows(Paged(fetch, Ordered(L)))
    BY <2>2, PagedKnows
  <2> QED BY <2>1, <2>3, Zenon
<1> QED BY <1>1, <1>2, <1>3
        DEF Next, vars, cycle, Begin, GiveUp, Evaluate, BeginReverse, EvaluateReverse, Abandon,
            End, Idle, Take, WithholdRest, Get, GetFails, Verify, Put, At, LateArrives, Edit,
            Stop, Restart

\* A list that counts as whole has as many ids as the first page promised, all of
\* them from the list the first page came from: so it has them all.
LEMMA WholeMissesNone ==
  ASSUME TypeOK, FetchKnows(fetch) PROVE NoneMissed
<1> SUFFICES ASSUME fetch.status = "whole", ~fetch.grew PROVE fetch.always \subseteq fetch.ids
  BY DEF NoneMissed
<1>1. fetch.page > 0 /\ fetch.fetched >= fetch.total
  BY DEF FetchKnows
<1>2. PICK S \in SUBSET Movies : Read1(fetch, S)
  BY <1>1 DEF FetchKnows
<1>3. /\ fetch.ids \in SUBSET S /\ fetch.always \subseteq S
      /\ Cardinality(S) = fetch.total /\ fetch.fetched = Cardinality(fetch.ids)
  BY <1>2 DEF Read1
<1>4. IsFiniteSet(S) /\ Cardinality(S) \in Nat /\ Cardinality(fetch.ids) \in Nat
  BY <1>2, <1>3, MoviesFinite
<1>5. /\ Cardinality(fetch.ids) <= Cardinality(S)
      /\ Cardinality(S) = Cardinality(fetch.ids) => S = fetch.ids
  BY <1>3, <1>4, FS_Subset
<1>6. S = fetch.ids
  BY <1>1, <1>3, <1>4, <1>5
<1> QED BY <1>3, <1>6

\* fetchWantedCutoffPages: when records only leave the list while it is read, what
\* counts as whole holds all that was in it throughout, though the total is the
\* first page's and records are only counted.
THEOREM WantedComplete == Spec => []NoneMissed
<1>1. Init => FetchKnows(fetch)
  BY DEF Init, FetchKnows, NewFetch
<1>2. TypeOK /\ FetchKnows(fetch) /\ [Next]_vars => FetchKnows(fetch)'
  BY FetchKept
<1>3. TypeOK /\ FetchKnows(fetch) => NoneMissed
  BY WholeMissesNone
<1> QED BY <1>1, <1>2, <1>3, TypeCorrect, PTL DEF Spec

-----------------------------------------------------------------------------
(***************************************************************************)
(* The two passes.                                                         *)
(***************************************************************************)
\* What a pass writes, it has found in the library the other way.
Directed ==
  /\ phase # "idle" => lib \in [Movies -> Movie]
  /\ phase = "writing" =>
       /\ \A m \in jobs : lib[m].monitored = TRUE
       /\ op # NoOp => op.to = FALSE /\ lib[op.movie].monitored = TRUE
  /\ phase = "reverseWriting" =>
       /\ \A m \in jobs : lib[m].monitored = FALSE
       /\ op # NoOp => op.to = TRUE /\ lib[op.movie].monitored = FALSE

\* What the library read says of quality cutoffs.
Told  == {m \in Movies : lib[m].told}
Short == {m \in Movies : lib[m].below}

\* What Evaluate hands to the pass.
LEMMA Evaluated ==
  ASSUME TypeOK, Directed, Evaluate
  PROVE  \E would \in SUBSET Movies : \E skipped :
           /\ \A m \in would : lib[m].monitored = TRUE /\ m \notin fetch.ids
           /\ check' = CrossChecked(would, skipped, fetch.ids, Told, Short)
           /\ \/ jobs' = {}
              \/ /\ jobs' = would \cap scope
                 /\ MayUnmonitor(check', Cardinality(jobs'))
<1>1. PICK lost \in Losses :
        LET decided == {m \in Movies : lib[m].monitored}
            would   == {m \in decided : Decided(m, lost) = "cutoff met"}
            skipped == {m \in decided \ would : lib[m].file}
        IN  /\ check' = CrossChecked(would, skipped, fetch.ids, Told, Short)
            /\ IF origin = "action" THEN Pass({}, TRUE)
               ELSE Pass(ToWrite(would), MayUnmonitor(check', Cardinality(ToWrite(would))))
  BY DEF Evaluate, Told, Short
<1> DEFINE decided == {m \in Movies : lib[m].monitored}
           would   == {m \in decided : Decided(m, lost) = "cutoff met"}
           skipped == {m \in decided \ would : lib[m].file}
<1>2. would \in SUBSET Movies
  OBVIOUS
<1>3. \A m \in would : lib[m].monitored = TRUE /\ m \notin fetch.ids
  <2> TAKE m \in would
  <2>1. m \in Movies /\ lib[m].monitored /\ Decided(m, lost) = "cutoff met"
    OBVIOUS
  <2>2. lib[m] \in Movie
    BY <2>1 DEF Directed, Evaluate
  <2>3. m \notin fetch.ids
    BY <2>1 DEF Decided, Reason
  <2> QED BY <2>1, <2>2, <2>3 DEF Movie
<1>4. check' = CrossChecked(would, skipped, fetch.ids, Told, Short)
  BY <1>1
<1>5. \/ jobs' = {}
      \/ jobs' = would \cap scope /\ MayUnmonitor(check', Cardinality(jobs'))
  <2>1. \/ Pass({}, TRUE)
        \/ Pass(ToWrite(would), MayUnmonitor(check', Cardinality(ToWrite(would))))
    BY <1>1
  <2> HIDE DEF would
  <2> QED BY <2>1 DEF Pass, ToWrite
<1> HIDE DEF would, skipped
<1> QED BY <1>2, <1>3, <1>4, <1>5

LEMMA DirectedKept ==
  ASSUME TypeOK, Quiet, Directed, [Next]_vars
  PROVE  Directed'
<1> USE DEF Directed
<1>1. CASE UNCHANGED <<lib, phase, jobs, op>>
  BY <1>1
<1>2. CASE Idle
  BY <1>2 DEF Idle
<1>3. CASE Begin
  BY <1>3 DEF Begin, TypeOK
<1>4. CASE Evaluate
  <2>1. \A m \in jobs' : lib[m].monitored = TRUE
    BY <1>4, Evaluated
  <2>2. op = NoOp /\ op' = op /\ lib' = lib /\ phase = "paging" /\ phase' = "writing"
    BY <1>4 DEF Evaluate, Quiet
  <2> QED BY <2>1, <2>2
<1>5. CASE BeginReverse
  BY <1>5 DEF BeginReverse, cycle
<1>6. CASE EvaluateReverse
  <2>1. PICK lost \in Losses :
          Pass({m \in scope : FoundUnmonitored(m) /\ Finding(Decided(m, lost))},
               MayRemonitor(check))
    BY <1>6 DEF EvaluateReverse
  <2>2. \A m \in jobs' : m \in scope /\ ~lib[m].monitored
    BY <2>1 DEF Pass, FoundUnmonitored
  <2>3. lib \in [Movies -> Movie] /\ scope \subseteq Movies
    BY <1>6 DEF EvaluateReverse, TypeOK
  <2>4. \A m \in jobs' : lib[m].monitored = FALSE
    BY <2>2, <2>3 DEF Movie
  <2>5. op = NoOp /\ op' = op /\ lib' = lib /\ phase' = "reverseWriting"
    BY <1>6 DEF EvaluateReverse, Quiet, cycle
  <2> QED BY <2>3, <2>4, <2>5
<1>7. CASE Take
  <2>1. PICK m \in jobs :
          /\ jobs' = jobs \ {m}
          /\ op' = [at |-> "get", movie |-> m, to |-> phase = "reverseWriting",
                    seen |-> radarr[m], since |-> edits]
    BY <1>7 DEF Take
  <2>2. op'.movie = m /\ op'.to = (phase = "reverseWriting")
    BY <2>1
  <2>3. lib' = lib /\ phase' = phase
    BY <1>7 DEF Take, cycle
  <2> QED BY <2>1, <2>2, <2>3
<1>8. CASE WithholdRest
  BY <1>8 DEF WithholdRest, cycle
<1>9. CASE Get \/ GetFails \/ Verify \/ Put
  <2>1. op \in Ops /\ op.at \in {"get", "verify", "put"}
    BY <1>9, Busy, TypeParts DEF Get, GetFails, Verify, Put, At
  <2>2. op # NoOp
    BY <2>1, NotDone
  <2>3. lib' = lib /\ phase' = phase /\ jobs' = jobs
    BY <1>9 DEF Get, GetFails, Verify, Put, At, cycle
  <2>4. op' = NoOp \/ (op'.to = op.to /\ op'.movie = op.movie)
    BY <1>9, <2>1 DEF Get, GetFails, Verify, Put, Finish, Goto, Ops
  <2> QED BY <2>2, <2>3, <2>4
<1>10. CASE GetPage \/ LateArrives \/ Edit \/ Stop \/ UNCHANGED vars
  BY <1>1, <1>10 DEF GetPage, LateArrives, Edit, Stop, vars, cycle
<1>11. CASE GiveUp \/ Abandon \/ End \/ Restart
  BY <1>2, <1>11 DEF GiveUp, Abandon, End, Restart
<1> QED BY <1>3, <1>4, <1>5, <1>6, <1>7, <1>8, <1>9, <1>10, <1>11 DEF Next

\* The reverse pass never undoes what the evaluation's own forward pass has done:
\* both look at the library read before either.
THEOREM OneDirection == Spec => NeverBothWays
<1> DEFINE Inv == TypeOK /\ Quiet /\ Directed
<1>1. Init => Quiet /\ Directed
  BY DEF Init, Quiet, Directed
<1>2. TypeOK /\ Quiet /\ Directed /\ [Next]_vars => Quiet' /\ Directed'
  BY QuietKept, DirectedKept
<1>3. TypeOK /\ Quiet /\ Directed /\ [Next]_vars =>
        [Put /\ radarr' # radarr => lib[op.movie].monitored = ~op.to]_vars
  <2> SUFFICES ASSUME TypeOK, Quiet, Directed, Put
               PROVE  lib[op.movie].monitored = ~op.to
    OBVIOUS
  <2>1. op.at = "put"
    BY DEF Put, At
  <2>2. op # NoOp
    BY <2>1, NotDone
  <2>3. phase \in {"writing", "reverseWriting"}
    BY <2>2 DEF Quiet
  <2> QED BY <2>2, <2>3 DEF Directed
<1> QED BY <1>1, <1>2, <1>3, TypeCorrect, PTL DEF Spec, NeverBothWays

-----------------------------------------------------------------------------
(***************************************************************************)
(* What an unmonitoring rests on.                                          *)
(***************************************************************************)
Witnessed == \E m \in Movies : lib[m].monitored /\ lib[m].told /\ ~lib[m].below /\ m \notin fetch.ids

Unsaid(m) == ~(lib[m].told /\ lib[m].below)

Full == check.writeVerified + check.writeUnverifiable = SampleSize

\* What the pass of unmonitorings still has to write, or is writing, has evidence
\* behind it; and unless the sample was full, nothing the library says against it.
Evident ==
  phase = "writing" =>
    /\ jobs # {} \/ op # NoOp => Witnessed
    /\ Full \/ ((\A m \in jobs : Unsaid(m)) /\ (op # NoOp => Unsaid(op.movie)))

LEMMA EvaluatedOnEvidence ==
  ASSUME TypeOK, Directed, Evaluate
  PROVE  /\ jobs' # {} => Witnessed
         /\ Full' \/ \A m \in jobs' : Unsaid(m)
<1>1. PICK would \in SUBSET Movies : \E skipped :
           /\ \A m \in would : lib[m].monitored = TRUE /\ m \notin fetch.ids
           /\ check' = CrossChecked(would, skipped, fetch.ids, Told, Short)
           /\ \/ jobs' = {}
              \/ /\ jobs' = would \cap scope
                 /\ MayUnmonitor(check', Cardinality(jobs'))
  BY Evaluated
<1>2. PICK skipped :
           /\ check' = CrossChecked(would, skipped, fetch.ids, Told, Short)
           /\ \/ jobs' = {}
              \/ /\ jobs' = would \cap scope
                 /\ MayUnmonitor(check', Cardinality(jobs'))
  BY <1>1
<1>3. SUFFICES ASSUME jobs' # {} PROVE Witnessed /\ (Full' \/ \A m \in jobs' : Unsaid(m))
  OBVIOUS
<1>4. jobs' = would \cap scope /\ MayUnmonitor(check', Cardinality(jobs'))
  BY <1>2, <1>3
<1> DEFINE n == Cardinality(jobs')
<1>5. n \in Nat /\ n > 0 /\ IsFiniteSet(would) /\ would \in SUBSET Nat
  <2>1. jobs' \in SUBSET Movies
    BY <1>4
  <2>2. IsFiniteSet(jobs') /\ n \in Nat
    BY <2>1, MoviesFinite
  <2>3. n # 0
    BY <1>3, <2>2, FS_EmptySet
  <2> QED BY <2>2, <2>3, MoviesFinite
<1>6. MayUnmonitor(CrossChecked(would, skipped, fetch.ids, Told, Short), n)
  BY <1>2, <1>4
<1> HIDE DEF n
<1>7. /\ \E i \in would \cap Told : (i \in fetch.ids) = (i \in Short)
      /\ \/ Cardinality(would) > SampleSize
         \/ \A i \in would \cap Told : (i \in fetch.ids) = (i \in Short)
  BY <1>5, <1>6, OpenOnEvidence
<1>8. Witnessed
  <2>1. PICK i \in would \cap Told : (i \in fetch.ids) = (i \in Short)
    BY <1>7
  <2>2. lib[i].monitored = TRUE /\ i \notin fetch.ids
    BY <1>1, <2>1
  <2>3. lib[i].told /\ ~lib[i].below /\ i \in Movies
    BY <2>1, <2>2 DEF Told, Short
  <2> QED BY <2>2, <2>3 DEF Witnessed
<1>9. CASE Cardinality(would) > SampleSize
  <2>1. LET cc == CrossChecked(would, skipped, fetch.ids, Told, Short)
        IN  cc.writeVerified + cc.writeUnverifiable = SampleSize
    BY <1>5, <1>9, SampleFull
  <2>2. Full'
    BY <1>2, <2>1 DEF Full
  <2> QED BY <1>8, <2>2
<1>10. CASE \A i \in would \cap Told : (i \in fetch.ids) = (i \in Short)
  <2>1. ASSUME NEW m \in jobs' PROVE Unsaid(m)
    <3>1. m \in would /\ m \in Movies /\ m \notin fetch.ids
      BY <1>1, <1>4
    <3> QED BY <1>10, <3>1 DEF Unsaid, Told, Short
  <2> QED BY <1>8, <2>1
<1> QED BY <1>7, <1>9, <1>10

LEMMA EvidentKept ==
  ASSUME TypeOK, Quiet, Directed, Evident, [Next]_vars
  PROVE  Evident'
<1> USE DEF Evident
<1>1. CASE UNCHANGED <<lib, fetch, check, phase, jobs, op>>
  BY <1>1 DEF Witnessed, Full, Unsaid
<1>2. CASE phase' # "writing"
  BY <1>2
<1>3. CASE Evaluate
  <2>1. op' = NoOp /\ UNCHANGED <<lib, fetch>>
    BY <1>3 DEF Evaluate, Quiet
  <2>2. /\ jobs' # {} => Witnessed
        /\ Full' \/ \A m \in jobs' : Unsaid(m)
    BY <1>3, EvaluatedOnEvidence
  <2> QED BY <2>1, <2>2 DEF Witnessed, Unsaid
<1>4. CASE Take /\ phase = "writing"
  <2>1. PICK m \in jobs :
          /\ jobs' = jobs \ {m}
          /\ op' = [at |-> "get", movie |-> m, to |-> phase = "reverseWriting",
                    seen |-> radarr[m], since |-> edits]
    BY <1>4 DEF Take
  <2>2. op'.movie = m
    BY <2>1
  <2>3. UNCHANGED <<lib, fetch, check, phase>>
    BY <1>4 DEF Take, cycle
  <2> QED BY <1>4, <2>1, <2>2, <2>3 DEF Witnessed, Full, Unsaid
<1>5. CASE WithholdRest
  BY <1>5 DEF WithholdRest, cycle, Witnessed, Full, Unsaid
<1>6. CASE Get \/ GetFails \/ Verify \/ Put
  <2>1. op \in Ops /\ op.at \in {"get", "verify", "put"}
    BY <1>6, Busy, TypeParts DEF Get, GetFails, Verify, Put, At
  <2>2. op # NoOp
    BY <2>1, NotDone
  <2>3. UNCHANGED <<lib, fetch, check, phase, jobs>>
    BY <1>6 DEF Get, GetFails, Verify, Put, At, cycle
  <2>4. op' = NoOp \/ op'.movie = op.movie
    BY <1>6, <2>1 DEF Get, GetFails, Verify, Put, Finish, Goto, Ops
  <2> QED BY <2>2, <2>3, <2>4 DEF Witnessed, Full, Unsaid
<1>7. CASE GetPage \/ GiveUp \/ Abandon \/ End \/ Restart \/ Begin \/ BeginReverse
           \/ EvaluateReverse
  BY <1>2, <1>7 DEF GetPage, GiveUp, Abandon, End, Restart, Idle, Begin, BeginReverse,
                    EvaluateReverse
<1>8. CASE LateArrives \/ Edit \/ Stop \/ UNCHANGED vars
  BY <1>1, <1>8 DEF LateArrives, Edit, Stop, vars, cycle
<1>9. CASE Take /\ phase # "writing"
  BY <1>2, <1>9 DEF Take
<1> QED BY <1>3, <1>4, <1>5, <1>6, <1>7, <1>8, <1>9 DEF Next

\* The invariant of the two theorems that follow.
Sound == Quiet /\ Directed /\ Evident

LEMMA SoundAlways == Spec => [](TypeOK /\ Sound)
<1>1. Init => Sound
  BY DEF Init, Sound, Quiet, Directed, Evident
<1>2. TypeOK /\ Sound /\ [Next]_vars => Sound'
  BY QuietKept, DirectedKept, EvidentKept DEF Sound
<1> QED BY <1>1, <1>2, TypeCorrect, PTL DEF Spec

\* An unmonitoring is put only in the forward pass.
LEMMA Unmonitoring ==
  ASSUME TypeOK, Sound, Put, ~op.to
  PROVE  phase = "writing" /\ op # NoOp
<1>1. op.at = "put"
  BY DEF Put, At
<1>2. op # NoOp
  BY <1>1, NotDone
<1> QED BY <1>2 DEF Sound, Quiet, Directed

\* runCrossCheck and writeGateBlockReason: behind every movie unmonitored there is
\* one that the library itself says has reached the quality cutoff.
THEOREM WrittenOnEvidence == Spec => WritesOnEvidence
<1>1. TypeOK /\ Sound =>
        [Put /\ radarr' # radarr /\ ~op.to =>
           \E m \in Movies :
             lib[m].monitored /\ lib[m].told /\ ~lib[m].below /\ m \notin fetch.ids]_vars
  BY Unmonitoring DEF Sound, Evident, Witnessed
<1> QED BY <1>1, SoundAlways, PTL DEF WritesOnEvidence

\* runCrossCheck and writeGateBlockReason: whatever the wanted list has missed, a
\* movie that the library says is below the cutoff stays monitored, unless there
\* were more candidates than the sample has room for.
THEOREM NoneBelowUnmonitored == Spec => UnmonitorsNoneBelow
<1>1. TypeOK /\ Sound =>
        [Put /\ radarr' # radarr /\ ~op.to =>
           \/ check.writeVerified + check.writeUnverifiable = SampleSize
           \/ ~(lib[op.movie].told /\ lib[op.movie].below)]_vars
  BY Unmonitoring DEF Sound, Evident, Full, Unsaid
<1> QED BY <1>1, SoundAlways, PTL DEF UnmonitorsNoneBelow

-----------------------------------------------------------------------------
(***************************************************************************)
(* What is read again before a movie is put.                               *)
(***************************************************************************)
\* Two readings of a movie between which nobody but this program changed it.
Alike(x, y) == x.file = y.file /\ x.rules = y.rules /\ x.scores = y.scores /\ x.tags = y.tags

StillFails(m) == Finding(Reason(radarr[m], m \in fetch.ids, Score(m, {})))

\* Only untagged movies are on their way, and what the operation in progress has
\* read is still so unless somebody has edited since.
Current ==
  /\ \A w \in late : w[2].tags = "none"
  /\ op # NoOp =>
       /\ op.since <= edits
       /\ op.at # "get" => op.seen.tags = "none"
       /\ op.at # "get" /\ op.since = edits => Alike(radarr[op.movie], op.seen)
       /\ op.at = "put" /\ op.to /\ op.since = edits => StillFails(op.movie)

\* A PUT changes neither the file nor its score, and the tags to what it holds.
LEMMA Stored ==
  ASSUME ServerType, NEW m \in Movies, NEW x \in Movie, Store(m, x)
  PROVE  \A k \in Movies :
           /\ radarr'[k].file = radarr[k].file /\ radarr'[k].rules = radarr[k].rules
           /\ radarr'[k].scores = radarr[k].scores
           /\ radarr'[k].tags = (IF k = m THEN x.tags ELSE radarr[k].tags)
BY DEF ServerType, Store, Movie

\* Evaluation tells alike readings not apart.
LEMMA ReasonAlike ==
  ASSUME NEW x, NEW y, Alike(x, y), NEW l, NEW s
  PROVE  Reason(x, l, s) = Reason(y, l, s)
BY DEF Alike, Reason

\* A finding does not depend on a score that could not be read.
LEMMA FindingStands ==
  ASSUME NEW x, NEW l, NEW m, NEW lost, Finding(Reason(x, l, Score(m, lost)))
  PROVE  Finding(Reason(x, l, Score(m, {})))
BY DEF Finding, Reason, Score

LEMMA CurrentOnArrival ==
  ASSUME TypeOK, Current, LateArrives
  PROVE  Current'
<1>1. PICK w \in late : Store(w[1], w[2]) /\ late' = late \ {w}
  BY DEF LateArrives
<1>2. w[1] \in Movies /\ w[2] \in Movie /\ w[2].tags = "none" /\ ServerType
  BY <1>1, TypeParts DEF ServerType, Current
<1>3. \A k \in Movies :
        /\ radarr'[k].file = radarr[k].file /\ radarr'[k].rules = radarr[k].rules
        /\ radarr'[k].scores = radarr[k].scores
        /\ radarr'[k].tags = (IF k = w[1] THEN "none" ELSE radarr[k].tags)
  <2>1. \A k \in Movies :
          /\ radarr'[k].file = radarr[k].file /\ radarr'[k].rules = radarr[k].rules
          /\ radarr'[k].scores = radarr[k].scores
          /\ radarr'[k].tags = (IF k = w[1] THEN w[2].tags ELSE radarr[k].tags)
    <3> DEFINE m == w[1]
               x == w[2]
    <3>1. m \in Movies /\ x \in Movie /\ Store(m, x) /\ ServerType
      BY <1>1, <1>2
    <3> HIDE DEF m, x
    <3>2. \A k \in Movies :
            /\ radarr'[k].file = radarr[k].file /\ radarr'[k].rules = radarr[k].rules
            /\ radarr'[k].scores = radarr[k].scores
            /\ radarr'[k].tags = (IF k = m THEN x.tags ELSE radarr[k].tags)
      BY <3>1, Stored
    <3> QED BY <3>2 DEF m, x
  <2> QED BY <1>2, <2>1
<1>4. UNCHANGED <<op, fetch, edits>>
  BY DEF LateArrives
<1>5. ASSUME op # NoOp, op.at # "get", op.since = edits
      PROVE  Alike(radarr'[op.movie], op.seen) /\ Alike(radarr'[op.movie], radarr[op.movie])
  <2>1. op.movie \in Movies
    BY <1>5, Busy, TypeParts
  <2> QED BY <1>3, <1>5, <2>1 DEF Current, Alike
<1>6. ASSUME op # NoOp, op.at = "put", op.to, op.since = edits
      PROVE  StillFails(op.movie)'
  <2>1. op.movie \in Movies /\ StillFails(op.movie)
    BY <1>6, Busy, TypeParts DEF Current
  <2>2. Alike(radarr'[op.movie], radarr[op.movie])
    BY <1>5, <1>6
  <2>3. \A l, s : Reason(radarr'[op.movie], l, s) = Reason(radarr[op.movie], l, s)
    BY <2>2, ReasonAlike
  <2>4. Score(op.movie, {})' = Score(op.movie, {})
    BY <1>4, <2>2 DEF Score, Alike
  <2>5. op.movie' = op.movie /\ fetch' = fetch
    BY <1>4
  <2> QED BY <2>1, <2>3, <2>4, <2>5 DEF StillFails
<1>7. \A x \in late' : x[2].tags = "none"
  BY <1>1 DEF Current
<1> QED BY <1>4, <1>5, <1>6, <1>7 DEF Current

LEMMA CurrentOnWrite ==
  ASSUME TypeOK, Current, Get \/ GetFails \/ Verify \/ Put
  PROVE  Current'
<1>1. op \in Ops /\ op # NoOp /\ op.movie \in Movies /\ op.seen \in Movie /\ op.to \in BOOLEAN
  <2>1. op.at \in {"get", "verify", "put"}
    BY DEF Get, GetFails, Verify, Put, At
  <2> QED BY <2>1, NotDone, Busy, TypeParts
<1>2. UNCHANGED <<edits, fetch>>
  BY DEF Get, GetFails, Verify, Put, At
<1>3. CASE UNCHANGED <<radarr, late>> /\ op' = NoOp
  BY <1>2, <1>3 DEF Current
<1>4. CASE Get
  <2> DEFINE x == radarr[op.movie]
  <2>1. UNCHANGED <<radarr, late>>
    BY <1>4 DEF Get
  <2>2. \/ op' = NoOp
        \/ x.tags = "none" /\ op.to = TRUE /\ op' = [op EXCEPT !.at = "verify", !.seen = x]
        \/ x.tags = "none" /\ op.to = FALSE /\ op' = [op EXCEPT !.at = "put", !.seen = x]
    BY <1>1, <1>4 DEF Get, Finish
  <2>3. CASE op' # NoOp
    <3> HIDE DEF x
    <3>1. /\ op'.movie = op.movie /\ op'.seen = x /\ op'.since = op.since
          /\ op'.to = op.to /\ x.tags = "none" /\ op'.at # "get"
          /\ op'.at = "put" => op.to = FALSE
      <4>1. CASE op.to = TRUE /\ op' = [op EXCEPT !.at = "verify", !.seen = x]
        BY <1>1, <2>2, <2>3, <4>1 DEF Ops
      <4>2. CASE op.to = FALSE /\ op' = [op EXCEPT !.at = "put", !.seen = x]
        BY <1>1, <2>2, <2>3, <4>2 DEF Ops
      <4> QED BY <2>2, <2>3, <4>1, <4>2
    <3>2. op.since <= edits
      BY <1>1 DEF Current
    <3>3. \A w \in late' : w[2].tags = "none"
      BY <2>1 DEF Current
    <3> QED BY <1>2, <2>1, <3>1, <3>2, <3>3 DEF Current, Alike, x
  <2> QED BY <1>3, <2>1, <2>3
<1>5. CASE GetFails
  BY <1>3, <1>5 DEF GetFails, Finish
<1>6. CASE Verify
  <2>1. PICK lost \in SUBSET {op.movie} :
          IF ~Finding(Reason(op.seen, op.movie \in fetch.ids, Score(op.movie, lost)))
            THEN Finish("refused")
          ELSE IF dryRun THEN Finish("withheld")
          ELSE Goto("put")
    BY <1>6 DEF Verify
  <2>2. UNCHANGED <<radarr, late>> /\ op.at = "verify"
    BY <1>6 DEF Verify, At
  <2>3. CASE op' # NoOp
    <3>1. /\ Finding(Reason(op.seen, op.movie \in fetch.ids, Score(op.movie, lost)))
          /\ op' = [op EXCEPT !.at = "put"]
      BY <2>1, <2>3 DEF Finish, Goto
    <3>2. /\ op'.movie = op.movie /\ op'.seen = op.seen /\ op'.since = op.since
          /\ op'.to = op.to /\ op'.at = "put"
      BY <1>1, <3>1 DEF Ops
    <3>3. Finding(Reason(op.seen, op.movie \in fetch.ids, Score(op.movie, {})))
      BY <3>1, FindingStands
    <3>4. /\ op.since <= edits /\ op.seen.tags = "none"
          /\ op.since = edits => Alike(radarr[op.movie], op.seen)
      BY <1>1, <2>2 DEF Current
    <3>5. op.since = edits => StillFails(op.movie)
      BY <3>3, <3>4, ReasonAlike DEF StillFails
    <3>6. Score(op.movie, {})' = Score(op.movie, {})
      BY <2>2, <3>2 DEF Score
    <3>7. op.since = edits => StillFails(op.movie)'
      BY <1>2, <2>2, <3>2, <3>5, <3>6 DEF StillFails
    <3>8. \A w \in late' : w[2].tags = "none"
      BY <2>2 DEF Current
    <3> QED BY <1>2, <2>2, <3>2, <3>4, <3>7, <3>8 DEF Current
  <2> QED BY <1>3, <2>2, <2>3
<1>7. CASE Put
  <2>1. op' = NoOp /\ op.at = "put"
    BY <1>7 DEF Put, Finish, At
  <2>2. late' = late \/ late' = late \cup {<<op.movie, Written>>}
    BY <1>7 DEF Put
  <2>3. Written.tags = "none"
    BY <1>1, <2>1 DEF Current, Written, Movie
  <2> QED BY <2>1, <2>2, <2>3 DEF Current
<1> QED BY <1>4, <1>5, <1>6, <1>7

LEMMA CurrentKept ==
  ASSUME TypeOK, Quiet, Current, [Next]_vars
  PROVE  Current'
<1>1. CASE op' = NoOp /\ UNCHANGED late
  BY <1>1 DEF Current
<1>2. CASE Take
  <2>1. PICK m \in jobs :
          op' = [at |-> "get", movie |-> m, to |-> phase = "reverseWriting",
                 seen |-> radarr[m], since |-> edits]
    BY <1>2 DEF Take
  <2>2. op'.at = "get" /\ op'.since = edits
    BY <2>1
  <2>3. UNCHANGED <<edits, late>>
    BY <1>2 DEF Take, server
  <2>4. edits \in Nat
    BY TypeParts DEF ServerType
  <2> QED BY <2>2, <2>3, <2>4 DEF Current
<1>3. CASE Get \/ GetFails \/ Verify \/ Put
  BY <1>3, CurrentOnWrite
<1>4. CASE LateArrives
  BY <1>4, CurrentOnArrival
<1>5. CASE Edit
  <2>1. edits' = edits + 1 /\ edits \in Nat /\ UNCHANGED <<op, late>>
    BY <1>5, TypeParts DEF Edit, ServerType
  <2>2. op # NoOp => op.since <= edits /\ op.since \in Nat
    BY Busy, TypeParts DEF Current
  <2>3. op # NoOp => op.since <= edits' /\ op.since # edits'
    BY <2>1, <2>2
  <2> QED BY <2>1, <2>3 DEF Current
<1>6. CASE Evaluate \/ EvaluateReverse \/ WithholdRest \/ Stop \/ UNCHANGED vars
  <2>1. UNCHANGED <<server, op, fetch>>
    BY <1>6 DEF Evaluate, EvaluateReverse, WithholdRest, Stop, vars
  <2> QED BY <2>1 DEF Current, StillFails, Score, server
<1>7. CASE Begin \/ GetPage \/ BeginReverse
  <2>1. op = NoOp /\ UNCHANGED <<op, late>>
    BY <1>7 DEF Begin, GetPage, BeginReverse, PassOver, Quiet, server
  <2> QED BY <1>1, <2>1
<1>8. CASE GiveUp \/ Abandon \/ End \/ Restart
  BY <1>1, <1>8 DEF GiveUp, Abandon, End, Restart, Idle, server
<1> QED BY <1>2, <1>3, <1>4, <1>5, <1>6, <1>7, <1>8 DEF Next

\* writeMovieMonitored and verifyMovieStillAReverseFinding: nothing is put on the
\* strength of the sweep's reading alone.  What the write read again, and
\* evaluated again, still holds when it is put, if nobody has edited meanwhile.
THEOREM RepairsAreDue == Spec => RepairsOnlyFailing
<1>1. Init => Quiet /\ Current
  BY DEF Init, Quiet, Current
<1>2. TypeOK /\ Quiet /\ Current /\ [Next]_vars => Quiet' /\ Current'
  BY QuietKept, CurrentKept
<1>3. TypeOK /\ Current =>
        [Put /\ radarr' # radarr /\ op.since = edits =>
           LET x == radarr[op.movie]
           IN  /\ x.tags = "none"
               /\ op.to => Finding(Reason(x, op.movie \in fetch.ids, Score(op.movie, {})))]_vars
  <2> SUFFICES ASSUME TypeOK, Current, Put, op.since = edits
               PROVE  /\ radarr[op.movie].tags = "none"
                      /\ op.to => StillFails(op.movie)
    BY DEF StillFails
  <2>1. op.at = "put"
    BY DEF Put, At
  <2>2. op # NoOp
    BY <2>1, NotDone
  <2>3. op.seen.tags = "none" /\ Alike(radarr[op.movie], op.seen)
    BY <2>1, <2>2 DEF Current
  <2>4. op.to => StillFails(op.movie)
    BY <2>1, <2>2 DEF Current
  <2> QED BY <2>3, <2>4 DEF Alike
<1> QED BY <1>1, <1>2, <1>3, TypeCorrect, PTL DEF Spec, RepairsOnlyFailing

-----------------------------------------------------------------------------
(***************************************************************************)
(* The summary line.                                                       *)
(***************************************************************************)
Ended(c) == c["written"] + c["unverified"] + c["error"] + c["refused"] + c["withheld"]

InHand == IF op = NoOp THEN 0 ELSE 1

\* What a pass was to write has an outcome, is in hand, or is still to be taken.
Balanced ==
  phase \in {"writing", "reverseWriting"} =>
    count["pending"] = Ended(count) + Cardinality(jobs) + InHand

LEMMA EndedIn ==
  ASSUME NEW c \in [Outcomes -> Nat]
  PROVE  Ended(c) \in Nat /\ c["pending"] \in Nat
BY DEF Ended, Outcomes

\* One more outcome, or n movies withheld.
LEMMA FinishCounts ==
  ASSUME JobsType, NEW o \in Outcomes \ {"pending"}, Become(One(o))
  PROVE  Ended(count') = Ended(count) + 1 /\ count'["pending"] = count["pending"]
<1>1. \A x \in Outcomes : count'[x] = count[x] + One(o)[x] /\ count[x] \in Nat
  BY DEF Become, JobsType
<1>2. One(o)[o] = 1 /\ \A x \in Outcomes \ {o} : One(o)[x] = 0
  BY OneTyped
<1>3. \A x \in Outcomes : count'[x] = (IF x = o THEN count[x] + 1 ELSE count[x])
  BY <1>1, <1>2
<1> QED BY <1>1, <1>3 DEF Ended, Outcomes

LEMMA WithholdCounts ==
  ASSUME JobsType, NEW n \in Nat, Become([NoCount EXCEPT !["withheld"] = n])
  PROVE  Ended(count') = Ended(count) + n /\ count'["pending"] = count["pending"]
<1>1. \A x \in Outcomes :
        /\ count'[x] = (IF x = "withheld" THEN count[x] + n ELSE count[x] + 0)
        /\ count[x] \in Nat
  BY DEF Become, JobsType, NoCount, Outcomes
<1> QED BY <1>1 DEF Ended, Outcomes

LEMMA PassCounts ==
  ASSUME NEW M \in SUBSET Movies, NEW open \in BOOLEAN, Pass(M, open)
  PROVE  count'["pending"] = Ended(count') + Cardinality(jobs')
<1>1. Cardinality(M) \in Nat /\ Cardinality({}) = 0
  BY MoviesFinite, FS_EmptySet
<1>2. \A x \in Outcomes :
        count'[x] = (IF x = "pending" THEN Cardinality(M)
                     ELSE IF x = "withheld" THEN IF open THEN 0 ELSE Cardinality(M)
                     ELSE 0)
  BY DEF Pass, NoCount, Outcomes
<1>3. jobs' = IF open THEN M ELSE {}
  BY DEF Pass
<1> QED BY <1>1, <1>2, <1>3 DEF Ended, Outcomes

LEMMA BalancedKept ==
  ASSUME TypeOK, Quiet, Directed, Balanced, [Next]_vars
  PROVE  Balanced'
<1>0. /\ Ended(count) \in Nat /\ count["pending"] \in Nat
      /\ Ended(count') \in Nat /\ count'["pending"] \in Nat
      /\ Cardinality(jobs) \in Nat /\ Cardinality(jobs') \in Nat
  <2>1. JobsType /\ CycleType /\ JobsType' /\ CycleType'
    BY TypeParts, CycleTyped, JobsTyped
  <2> QED BY <2>1, EndedIn, MoviesFinite DEF JobsType, CycleType
<1>1. JobsType /\ ServerType /\ CycleType /\ scope \subseteq Movies /\ count \in [Outcomes -> Nat]
  BY TypeParts DEF CycleType, JobsType
<1>2. CASE UNCHANGED <<phase, jobs, op, count>>
  BY <1>2 DEF Balanced, Ended, InHand
<1>3. CASE phase' \notin {"writing", "reverseWriting"}
  BY <1>3 DEF Balanced
<1>4. CASE Evaluate \/ EvaluateReverse
  <2>1. PICK M \in SUBSET Movies, open \in BOOLEAN : Pass(M, open)
    <3>1. CASE Evaluate
      <4>1. \A x : ToWrite(x) \in SUBSET Movies
        BY <1>1 DEF ToWrite
      <4>2. \A cc, n : MayUnmonitor(cc, n) \in BOOLEAN
        BY DEF MayUnmonitor
      <4>3. PICK w : \/ Pass({}, TRUE)
                     \/ Pass(ToWrite(w), MayUnmonitor(check', Cardinality(ToWrite(w))))
        BY <3>1 DEF Evaluate
      <4> QED BY <4>1, <4>2, <4>3
    <3>2. CASE EvaluateReverse
      <4>1. MayRemonitor(check) \in BOOLEAN
        BY DEF MayRemonitor
      <4>2. PICK lost :
              Pass({m \in scope : FoundUnmonitored(m) /\ Finding(Decided(m, lost))},
                   MayRemonitor(check))
        BY <3>2 DEF EvaluateReverse
      <4> QED BY <1>1, <4>1, <4>2
    <3> QED BY <1>4, <3>1, <3>2
  <2>2. count'["pending"] = Ended(count') + Cardinality(jobs')
    BY <2>1, PassCounts
  <2>3. op' = NoOp
    BY <1>4 DEF Evaluate, EvaluateReverse, Quiet
  <2>4. count' \in [Outcomes -> Nat] /\ jobs' \subseteq Movies
    BY <1>1, JobsTyped, <1>4 DEF JobsType, Evaluate, EvaluateReverse, cycle
  <2>5. Ended(count') \in Nat /\ Cardinality(jobs') \in Nat
    BY <2>4, EndedIn, MoviesFinite
  <2>6. InHand' = 0
    BY <2>3 DEF InHand
  <2> QED BY <1>0, <2>2, <2>5, <2>6 DEF Balanced, Ended
<1>5. ASSUME Take PROVE Balanced'
  <2>1. PICK m \in jobs :
          /\ jobs' = jobs \ {m}
          /\ op' = [at |-> "get", movie |-> m, to |-> phase = "reverseWriting",
                    seen |-> radarr[m], since |-> edits]
    BY <1>5 DEF Take
  <2>2. op'.at = "get"
    BY <2>1
  <2>3. op' # NoOp
    BY <2>2, NoOpIs
  <2>4. op = NoOp /\ UNCHANGED <<phase, count>>
    BY <1>5 DEF Take
  <2>5. jobs \in SUBSET Movies
    BY <1>1 DEF JobsType
  <2>6. /\ IsFiniteSet(jobs) /\ Cardinality(jobs) \in Nat
        /\ Cardinality(jobs') = Cardinality(jobs) - 1
    BY <2>1, <2>5, MoviesFinite, FS_RemoveElement
  <2>7. InHand = 0 /\ InHand' = 1
    BY <2>3, <2>4 DEF InHand
  <2>8. Ended(count) \in Nat /\ Ended(count') = Ended(count)
    BY <1>1, <2>4, EndedIn
  <2> QED BY <1>0, <2>4, <2>6, <2>7, <2>8 DEF Balanced, Ended
<1>6. CASE WithholdRest
  <2>1. Cardinality(jobs) \in Nat
    BY <1>1, MoviesFinite DEF JobsType
  <2>2. Ended(count') = Ended(count) + Cardinality(jobs) /\ count'["pending"] = count["pending"]
    BY <1>1, <1>6, <2>1, WithholdCounts DEF WithholdRest
  <2>3. jobs' = {} /\ UNCHANGED <<op, phase>>
    BY <1>6 DEF WithholdRest
  <2>4. Cardinality(jobs') = 0
    BY <2>3, FS_EmptySet
  <2>5. Ended(count) \in Nat /\ InHand = 0 /\ InHand' = 0
    BY <1>1, <1>6, <2>3, EndedIn DEF InHand, WithholdRest
  <2> QED BY <1>0, <2>1, <2>2, <2>3, <2>4, <2>5 DEF Balanced, Ended
<1>7. CASE Get \/ GetFails \/ Verify \/ Put
  <2>1. op \in Ops /\ op.at \in {"get", "verify", "put"}
    BY <1>7, Busy, TypeParts DEF Get, GetFails, Verify, Put, At
  <2>2. op # NoOp
    BY <2>1, NotDone
  <2>3. UNCHANGED <<phase, jobs>>
    BY <1>7 DEF Get, GetFails, Verify, Put, At
  <2>4. CASE \E o \in Outcomes \ {"pending"} : Finish(o)
    <3>1. PICK o \in Outcomes \ {"pending"} : Finish(o)
      BY <2>4
    <3>2. Ended(count') = Ended(count) + 1 /\ count'["pending"] = count["pending"]
      BY <1>1, <3>1, FinishCounts DEF Finish
    <3>3. InHand = 1 /\ InHand' = 0
      BY <2>2, <3>1 DEF InHand, Finish
    <3>4. Ended(count) \in Nat /\ Cardinality(jobs) \in Nat
      BY <1>1, EndedIn, MoviesFinite DEF JobsType
    <3> QED BY <1>0, <2>3, <3>2, <3>3, <3>4 DEF Balanced, Ended
  <2>5. CASE UNCHANGED count /\ op'.at \in {"verify", "put"}
    <3>1. op' # NoOp
      BY <2>5, NoOpIs
    <3> QED BY <2>2, <2>3, <2>5, <3>1 DEF Balanced, Ended, InHand
  <2>6. \/ \E o \in Outcomes \ {"pending"} : Finish(o)
        \/ UNCHANGED count /\ op'.at \in {"verify", "put"}
    <3>1. CASE Get
      BY <2>1, <3>1 DEF Get, Outcomes, Ops
    <3>2. CASE GetFails
      BY <3>2 DEF GetFails, Outcomes
    <3>3. CASE Verify
      BY <2>1, <3>3 DEF Verify, Goto, Outcomes, Ops
    <3>4. CASE Put
      BY <3>4 DEF Put, Outcomes
    <3> QED BY <1>7, <3>1, <3>2, <3>3, <3>4
  <2> QED BY <2>4, <2>5, <2>6
<1>8. CASE BeginReverse \/ Begin \/ GetPage \/ GiveUp \/ Abandon \/ End \/ Restart
  BY <1>3, <1>8 DEF BeginReverse, Begin, GetPage, GiveUp, Abandon, End, Restart, Idle
<1>9. CASE LateArrives \/ Edit \/ Stop \/ UNCHANGED vars
  BY <1>2, <1>9 DEF LateArrives, Edit, Stop, vars
<1> QED BY <1>4, <1>5, <1>6, <1>7, <1>8, <1>9 DEF Next

\* runWritePass and its summary line: every decision of a pass ends in exactly one
\* of the five outcomes it counts.
THEOREM CountsCorrect == Spec => []CountsAddUp
<1>1. Init => Quiet /\ Directed /\ Balanced
  BY DEF Init, Quiet, Directed, Balanced
<1>2. TypeOK /\ Quiet /\ Directed /\ Balanced /\ [Next]_vars
        => Quiet' /\ Directed' /\ Balanced'
  BY QuietKept, DirectedKept, BalancedKept
<1>3. TypeOK /\ Balanced => CountsAddUp
  <2> SUFFICES ASSUME TypeOK, Balanced, phase \in {"writing", "reverseWriting"}, PassOver
               PROVE  count["pending"] = Ended(count)
    BY DEF CountsAddUp, Ended
  <2>1. InHand = 0 /\ Cardinality(jobs) = 0
    BY FS_EmptySet DEF PassOver, InHand
  <2>2. Ended(count) \in Nat /\ count["pending"] \in Nat
    BY EndedIn, TypeParts DEF JobsType
  <2> QED BY <2>1, <2>2 DEF Balanced
<1> QED BY <1>1, <1>2, <1>3, TypeCorrect, PTL DEF Spec
=============================================================================
