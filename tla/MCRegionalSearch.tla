-------------------------- MODULE MCRegionalSearch --------------------------
(***************************************************************************)
(* A document of one line that matches at both of its ends, searched for    *)
(* counts.  The packs of PackLayout take no step here.                      *)
(***************************************************************************)
EXTENDS RegionalSearch

TwoInLine == {<<[i \in 1..24 |-> IF i \in {1, 2, 23, 24} THEN 1 ELSE 2]>>}
OneWord == {<<[kind |-> "word", words |-> <<<<1, 1>>>>]>>}
FirstLine == {[before |-> 0, after |-> 0, max |-> 1]}

CountSpec ==
    /\ SearchInit /\ PackInit
    /\ [][SearchNext /\ UNCHANGED packVars]_<<candidateVars, verified, packVars>>
=============================================================================
