--------------------------- MODULE MCRadarrCycle ----------------------------
(***************************************************************************)
(* RadarrCycle on three movies, read one to a page, with a cross-check     *)
(* sample of two.                                                          *)
(***************************************************************************)
EXTENDS RadarrCycle, TLC

MCMovies == 1 .. 3

Done  == [monitored |-> TRUE, tags |-> "none", file |-> TRUE, rules |-> TRUE,
          told |-> TRUE, below |-> FALSE, scores |-> TRUE]
Blind == [Done EXCEPT !.told = FALSE]
Poor  == [Done EXCEPT !.below = TRUE]
Mine  == [Poor EXCEPT !.monitored = FALSE]
Low   == [Mine EXCEPT !.below = FALSE, !.scores = FALSE]
Gone  == [Done EXCEPT !.file = FALSE]
MCLibraries ==
  {<<x, y, z>> : x \in {Done, Blind}, y \in {Done, Poor}, z \in {Poor, Mine, Low, Gone}}
MCBatches == {{1}, {2, 3}}
MCOrigins == {"sweep", "webhook", "action"}
=============================================================================
