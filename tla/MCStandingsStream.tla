-------------------------- MODULE MCStandingsStream --------------------------
(***************************************************************************)
(* Instances of StandingsStream for TLC.                                   *)
(***************************************************************************)
EXTENDS StandingsStream, TLC

CONSTANTS b1

OneTab == [i \in Fetches \cup Streams |-> b1]

StreamSymmetry ==
  Permutations(Fetches) \cup Permutations(Streams) \cup Permutations(Connections)
=============================================================================
