----------------------------- MODULE WatchLoop -----------------------------
(***************************************************************************)
(* seagrep index, once or with --watch (run_cycles of                      *)
(* crates/cli/src/index.rs and the index branch of main.rs).               *)
(*                                                                         *)
(* A cycle builds the index and reports what came of it.  Without --watch  *)
(* there is one cycle.  With it, failures are fatal until the first cycle  *)
(* has succeeded, and a signal, which the handler puts into a channel of   *)
(* one, stops the loop at the end of a cycle or during the pause.          *)
(***************************************************************************)
EXTENDS Naturals, Sequences, SequencesExt

CONSTANT MaxCycles      \* bound: cycles

ASSUME WatchLoopAssumption == MaxCycles \in Nat \ {0}

VARIABLES
    watched,    \* --watch was given
    loop,       \* "idle", "open", "build", "check", "pause" or "exited"
    cycle,
    succeeded,
    failFast,   \* this cycle's failure ends the process
    stop,       \* a signal is in the channel
    signalled,  \* 0, or 1 + the builds since the first signal
    events,     \* what was reported: "indexed", "error", "stopped"
    exit        \* exit status, 3 while the process runs

watchVars == <<watched, loop, cycle, succeeded, failFast, stop, signalled, events, exit>>

WatchInit ==
    /\ watched = FALSE /\ loop = "idle" /\ cycle = 0
    /\ succeeded = FALSE /\ failFast = FALSE
    /\ stop = FALSE /\ signalled = 0
    /\ events = <<>> /\ exit = 3

Exit(status) == loop' = "exited" /\ exit' = status
Report(event) == events' = Append(events, event)

-----------------------------------------------------------------------------
StartIndex ==
    /\ loop = "idle"
    /\ watched' \in BOOLEAN
    /\ loop' = "open"
    /\ UNCHANGED <<cycle, succeeded, failFast, stop, signalled, events, exit>>

\* The source and the index location are opened before the loop; a failure is
\* reported as an error of the first cycle.
OpenStorage ==
    /\ loop = "open"
    /\ \/ loop' = "build" /\ UNCHANGED <<events, exit>>
       \/ Report("error") /\ Exit(2)
    /\ UNCHANGED <<watched, cycle, succeeded, failFast, stop, signalled>>

\* A failure ends the process until a cycle has succeeded, and without --watch.
Fatal == ~succeeded \/ ~watched

\* Mutant of FailureEvents: a fatal failure is only returned.
FailureEventsReturned == IF Fatal THEN events ELSE Append(events, "error")

\* A failure is reported whether or not it is fatal.
FailureEvents == Append(events, "error")

\* One call of build, and the report of its result; writing it may fail.
BuildCycle ==
    /\ loop = "build"
    /\ cycle < MaxCycles
    /\ cycle' = cycle + 1
    /\ signalled' = IF signalled = 0 THEN 0 ELSE signalled + 1
    /\ \/ /\ succeeded' = TRUE /\ failFast' = FALSE
          /\ Report("indexed") /\ loop' = "check" /\ UNCHANGED exit
       \/ /\ failFast' = Fatal /\ UNCHANGED succeeded
          /\ events' = FailureEvents /\ loop' = "check" /\ UNCHANGED exit
       \/ Exit(2) /\ UNCHANGED <<succeeded, failFast, events>>
    /\ UNCHANGED <<watched, stop>>

\* Mutant of CycleEnds: a fatal failure is forgotten when a signal has come.
CycleEndsQuietly == IF failFast /\ ~stop THEN 2 ELSE 0

CycleEnds == IF failFast THEN 2 ELSE 0

\* Mutant of Heard: the signal is taken for a wake-up.
HeardAtFirst == stop /\ ~succeeded

Heard == stop

\* The end of a cycle: the only one, a signal that came meanwhile, a failure that
\* is fatal, or a pause.
CheckStop ==
    /\ loop = "check"
    /\ \/ ~watched /\ Exit(CycleEnds) /\ UNCHANGED <<stop, events>>
       \/ /\ watched /\ Heard
          /\ stop' = FALSE
          /\ Report("stopped") /\ Exit(CycleEnds)
       \/ /\ watched /\ ~Heard /\ failFast
          /\ Exit(2) /\ UNCHANGED <<stop, events>>
       \/ /\ watched /\ ~Heard /\ ~failFast
          /\ loop' = "pause" /\ UNCHANGED <<exit, stop, events>>
    /\ UNCHANGED <<watched, cycle, succeeded, failFast, signalled>>

\* recv_timeout: a signal, or the next cycle.
Pause ==
    /\ loop = "pause"
    /\ \/ /\ Heard /\ stop' = FALSE
          /\ Report("stopped") /\ Exit(0)
       \/ /\ ~Heard
          /\ loop' = "build" /\ UNCHANGED <<exit, stop, events>>
    /\ UNCHANGED <<watched, cycle, succeeded, failFast, signalled>>

\* The handler's try_send drops a second signal.
Signal ==
    /\ watched /\ loop \in {"build", "check", "pause"}
    /\ stop' = TRUE /\ signalled' = IF signalled = 0 THEN 1 ELSE signalled
    /\ UNCHANGED <<watched, loop, cycle, succeeded, failFast, events, exit>>

WatchNext ==
    StartIndex \/ OpenStorage \/ BuildCycle \/ CheckStop \/ Pause \/ Signal

-----------------------------------------------------------------------------
Broken == loop = "exited" /\ Len(events) < cycle    \* a report could not be written

\* The exit status tells whether the index was ever built: a watch that has
\* built it survives every later failure, one that has not never goes on, and a
\* signal that comes during the first failing cycle does not hide the failure.
ExitTellsSuccess ==
    loop = "exited" /\ ~Broken =>
        IF watched THEN exit = (IF succeeded THEN 0 ELSE 2)
        ELSE exit = (IF Last(events) = "indexed" THEN 0 ELSE 2)

\* The report has one line for each cycle, and "stopped" is the last one.
OneEventPerCycle ==
    /\ \A i \in DOMAIN events : events[i] = "stopped" => i = Len(events) /\ loop = "exited"
    /\ loop \in {"check", "pause"} => Len(events) = cycle

\* Once a signal has come at most the build under way is finished, and the process
\* ends.
StopsAtCycleEnd == signalled <= 2

\* The exit status, the report and the reaction to signals agree with what the cycles
\* did.
WatchSound == ExitTellsSuccess /\ OneEventPerCycle /\ StopsAtCycleEnd
=============================================================================
