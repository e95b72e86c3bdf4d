-------------------------- MODULE MCRequestLimiter --------------------------
(* An instance of RequestLimiter for TLC; constants are given by the .cfg.   *)
EXTENDS RequestLimiter
=============================================================================
