-------------------------- MODULE MCStationPlayout --------------------------
(* StationPlayout on a small instance.  Identifiers are interchangeable and  *)
(* are recycled once nothing alive carries them, so a few of them stand for  *)
(* an unbounded supply of uuids and the state space is finite.               *)
EXTENDS StationPlayout, TLC

Symmetry == Permutations(Intents)
=============================================================================
