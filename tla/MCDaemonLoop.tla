---------------------------- MODULE MCDaemonLoop ----------------------------
(***************************************************************************)
(* DaemonLoop on two instances with one item each, and a queue with room   *)
(* for both, so that a batch spans the instances, or for one (liveness),   *)
(* so that every second event evicts.                                      *)
(***************************************************************************)
EXTENDS DaemonLoop, TLC

CONSTANTS radarr, sonarr, movie, series

MCInstances  == {radarr, sonarr}
MCKeys       == {movie, series}
MCInstanceOf == (movie :> radarr) @@ (series :> sonarr)
=============================================================================
