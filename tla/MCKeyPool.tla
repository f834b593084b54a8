----------------------------- MODULE MCKeyPool ------------------------------
(* The pool for TLC, with the history of module KeyRotation and the         *)
(* fairness of module KeyPool.                                              *)
EXTENDS KeyRotation

FairRotationSpec == RotationSpec /\ Fairness

=============================================================================
