--------------------------- MODULE MCSeasonWriter ---------------------------
(***************************************************************************)
(* SeasonWriter on a series of one season of two episodes, or, where two   *)
(* writers run, of two seasons of one episode, under the cross-check       *)
(* outcomes each run names.                                                *)
(***************************************************************************)
EXTENDS SeasonWriter, TLC

CONSTANTS a, b, a1, a2, b1

OneSeason   == {a}
OneEpisodes == {a1, a2}
OneSeasonOf == (a1 :> a) @@ (a2 :> a)

TwoSeasons  == {a, b}
TwoEpisodes == {a1, b1}
TwoSeasonOf == (a1 :> a) @@ (b1 :> b)

\* The two episodes of one season are alike, and so are two seasons of one episode.
EpisodesAlike == Permutations({a1, a2})
SeasonsAlike  == {(a :> b) @@ (b :> a) @@ (a1 :> b1) @@ (b1 :> a1)}

SweepOnly == {Sweep}
Both      == {Sweep, Action}

\* An open gate and a recovery gate, and the failed cross-check.
OpenOrNot ==
  {[forward |-> "open", reverse |-> TRUE], [forward |-> "recovery", reverse |-> FALSE],
   [forward |-> "shut", reverse |-> FALSE]}
Sound     == {[forward |-> "open", reverse |-> TRUE]}
=============================================================================
