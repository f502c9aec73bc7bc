------------------------------ MODULE MCDbPool ------------------------------
(* DbPool on small instances.                                              *)
EXTENDS DbPool, TLC

=============================================================================
