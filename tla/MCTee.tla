------------------------------- MODULE MCTee --------------------------------
(* The tee for TLC.  The body's reader is under no obligation to read.      *)
EXTENDS Tee
=============================================================================
