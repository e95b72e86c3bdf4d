---------------------------- MODULE MCObjectCache ----------------------------
(* An instance of ObjectCache for TLC: a key is the length of its entry.     *)
EXTENDS ObjectCache

Lens == [k \in CacheKeys |-> k]
=============================================================================
