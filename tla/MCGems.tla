------------------------------- MODULE MCGems -------------------------------
(* An instance of Gems for TLC. *)
EXTENDS Gems

MCPositions == -2..2
MCCounts    == {-1, 1, 2}
=============================================================================
