-------------------------- MODULE MCConditionalPut --------------------------
(* An instance of ConditionalPut for TLC; constants are given by the .cfg.   *)
EXTENDS ConditionalPut
=============================================================================
