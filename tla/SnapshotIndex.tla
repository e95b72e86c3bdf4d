--------------------------- MODULE SnapshotIndex ----------------------------
(***************************************************************************)
(* What `seagrep index` promises (ARCHITECTURE.md, "Reader consistency"),  *)
(* without segments, blobs or garbage: the index is a snapshot of the      *)
(* bucket.  A run takes a listing of the bucket, looks at the index, and   *)
(* then replaces the whole snapshot by its listing in one step, provided   *)
(* the index still shows what the run saw.                                 *)
(***************************************************************************)
CONSTANTS Keys, Bodies, None, Indexers

VARIABLES
    bucket,     \* the source objects
    view,       \* what the index says of each key
    session     \* what each run knows

vars == <<bucket, view, session>>

Contents == [Keys -> Bodies \cup {None}]
Empty == [k \in Keys |-> None]
NoSession == [pc |-> "idle", listing |-> Empty, seen |-> Empty]

Init ==
    /\ bucket \in Contents
    /\ view = Empty
    /\ session = [i \in Indexers |-> NoSession]

Change ==
    /\ bucket' \in Contents
    /\ UNCHANGED <<view, session>>

List(i) ==
    /\ session[i].pc = "idle"
    /\ session' = [session EXCEPT ![i] = [NoSession EXCEPT !.pc = "listed", !.listing = bucket]]
    /\ UNCHANGED <<bucket, view>>

Look(i) ==
    /\ session[i].pc = "listed"
    /\ session' = [session EXCEPT ![i] = [@ EXCEPT !.pc = "looked", !.seen = view]]
    /\ UNCHANGED <<bucket, view>>

\* The one step that changes what searches see.
Publish(i) ==
    /\ session[i].pc = "looked"
    /\ session[i].seen = view
    /\ view' = session[i].listing
    /\ session' = [session EXCEPT ![i] = NoSession]
    /\ UNCHANGED bucket

\* The run has nothing to do, fails or dies.
Leave(i) ==
    /\ session' = [session EXCEPT ![i] = NoSession]
    /\ UNCHANGED <<bucket, view>>

Next == Change \/ \E i \in Indexers : List(i) \/ Look(i) \/ Publish(i) \/ Leave(i)

Spec == Init /\ [][Next]_vars
=============================================================================
