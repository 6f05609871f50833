------------------------------- MODULE MCHmm --------------------------------
(* The instance of Hmm for TLC.                                            *)
EXTENDS Hmm
=============================================================================
