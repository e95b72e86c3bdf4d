--------------------------- MODULE MCIndexSearch ---------------------------
(***************************************************************************)
(* IndexSearch on small instances.                                         *)
(***************************************************************************)
EXTENDS IndexSearch
=============================================================================
