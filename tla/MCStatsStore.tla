---------------------------- MODULE MCStatsStore ----------------------------
(***************************************************************************)
(* StatsStore with two instances and room for two records each, over up to *)
(* three processes.                                                        *)
(***************************************************************************)
EXTENDS StatsStore, TLC

CONSTANTS r, s

MCInstances == {r, s}
Symmetry    == Permutations(MCInstances)
=============================================================================
