------------------------------- MODULE MCCmd --------------------------------
(* The instances of Cmd for TLC.                                           *)
EXTENDS Cmd

=============================================================================
