------------------------------- MODULE MCGem --------------------------------
(* The instances of Gem for TLC.                                           *)
EXTENDS Gem, TLC

ThreadSymmetry == Permutations(Thread)
=============================================================================
