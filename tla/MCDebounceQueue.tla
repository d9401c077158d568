--------------------------- MODULE MCDebounceQueue ---------------------------
(***************************************************************************)
(* DebounceQueue on one movie and two series, two seasons, two concurrent  *)
(* handlers and a queue with room for two of the three items.              *)
(***************************************************************************)
EXTENDS DebounceQueue, TLC

CONSTANTS m1, s1, s2, z1, z2, h1, h2

MCKeys     == {m1, s1, s2}
MCMovies   == {m1}
MCSeasons  == {z1, z2}
MCHandlers == {h1, h2}
MCSymmetry == Permutations({s1, s2}) \cup Permutations(MCSeasons) \cup Permutations(MCHandlers)
=============================================================================
