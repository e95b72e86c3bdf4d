--------------------------- MODULE RequestLimiter ---------------------------
(***************************************************************************)
(* How the S3 client schedules its requests: the adaptive limiter and the  *)
(* hedge budget (crates/s3/src/fetch.rs), the retry loop every request     *)
(* runs in (run_resilient in crates/s3/src/client.rs) and the hedged read  *)
(* on top of it (fetch_hedged_version in crates/s3/src/client/download.rs).*)
(*                                                                         *)
(* A call owns up to two lanes, the primary request and its hedge, polled  *)
(* by one task: between two awaits a lane runs alone within its call, but  *)
(* calls run on different threads and interleave at every atomic access.   *)
(* A compare-exchange loop on one word takes effect at once, so each is    *)
(* one step.  The clock is left out: a timer may go off at any time.       *)
(***************************************************************************)
EXTENDS Integers, FiniteSets

CONSTANTS
    Calls,          \* concurrent readers
    Start, Cap,     \* FetchConfig.start, .cap
    MaxRetries,     \* FetchConfig.max_retries
    HedgeTokens     \* FetchConfig.hedge_tokens

\* Checked by S3Client::new.
ASSUME LimiterAssumption ==
    /\ IsFiniteSet(Calls)
    /\ Cap \in Nat /\ Start \in 1..Cap
    /\ MaxRetries \in Nat
    /\ HedgeTokens \in Nat

VARIABLES
    limit,          \* AimdLimiter.limit
    permits,        \* permits available in the semaphore
    pendingShrink,  \* AimdLimiter.pending_shrink
    cooling,        \* next_shrink_allowed_ms lies ahead
    tokens,         \* HedgeBudget.tokens
    lane,           \* the lanes of each call
    hedging         \* what each call may still do about a hedge

limiter == <<limit, permits, pendingShrink, cooling>>
vars == <<limiter, tokens, lane, hedging>>

Lanes == {"primary", "hedge"}

\* A lane waits for a permit, holds one, has its request under way, or is
\* inside on_success (raise, add) or on_throttle (throttled, halve, forget).
Lane ==
    [pc : {"off", "want", "held", "send", "raise", "add",
           "throttled", "halve", "forget", "backoff"},
     attempt : 0..MaxRetries,
     owed : 0..Cap]         \* permits on_throttle has still to take away

Off == [pc |-> "off", attempt |-> 0, owed |-> 0]
Begun == [Off EXCEPT !.pc = "want"]

\* The hedge timer starts with the first permit and fires once.
Hedging == {"unarmed", "armed", "fired"}

Init ==
    /\ limit = Start /\ permits = Start
    /\ pendingShrink = 0 /\ cooling = FALSE
    /\ tokens = HedgeTokens
    /\ lane = [c \in Calls |-> [l \in Lanes |-> Off]]
    /\ hedging = [c \in Calls |-> "unarmed"]

-----------------------------------------------------------------------------
Awaiting == {"off", "want", "send", "backoff"}
Other(l) == IF l = "primary" THEN "hedge" ELSE "primary"

\* Lane l of call c is at pc and may run: the other lane is at an await.
At(c, l, pc) == lane[c][l].pc = pc /\ lane[c][Other(l)].pc \in Awaiting
Goto(c, l, pc) == lane' = [lane EXCEPT ![c][l].pc = pc]

Active(c) == lane[c]["primary"].pc # "off"
Hedged(c) == lane[c]["hedge"].pc # "off"
Sending == {x \in Calls \X Lanes : lane[x[1]][x[2]].pc = "send"}
Holding == {x \in Calls \X Lanes : lane[x[1]][x[2]].pc = "held"}

\* Mutant of Return: the hedge's token is not given back.
ReturnToken(c, l, released) ==
    /\ lane' = [lane EXCEPT ![c] = [m \in Lanes |-> Off]]
    /\ hedging' = [hedging EXCEPT ![c] = "unarmed"]
    /\ permits' = permits + released + IF lane[c][Other(l)].pc = "send" THEN 1 ELSE 0
    /\ UNCHANGED tokens

\* The call returns.  The lane that lost is dropped with whatever it holds: its
\* permit (released permits are those of the lane that returns) and its token.
Return(c, l, released) ==
    /\ lane' = [lane EXCEPT ![c] = [m \in Lanes |-> Off]]
    /\ hedging' = [hedging EXCEPT ![c] = "unarmed"]
    /\ permits' = permits + released + IF lane[c][Other(l)].pc = "send" THEN 1 ELSE 0
    /\ tokens' = IF Hedged(c) /\ tokens < HedgeTokens THEN tokens + 1 ELSE tokens

Begin(c) ==
    /\ ~Active(c)
    /\ lane' = [lane EXCEPT ![c]["primary"] = Begun]
    /\ UNCHANGED <<limiter, tokens, hedging>>

\* acquire: a permit of the semaphore ...
Acquire(c, l) ==
    /\ At(c, l, "want")
    /\ permits > 0
    /\ permits' = permits - 1
    /\ Goto(c, l, "held")
    /\ UNCHANGED <<limit, pendingShrink, cooling, tokens, hedging>>

\* Mutants of PayShrink: the pending shrink is not counted down; the permit is
\* not given up.
PayShrinkAgain(c, l) ==
    /\ At(c, l, "held")
    /\ pendingShrink > 0
    /\ Goto(c, l, "want")
    /\ UNCHANGED <<limiter, tokens, hedging>>
PayShrinkFree(c, l) ==
    /\ At(c, l, "held")
    /\ pendingShrink > 0
    /\ pendingShrink' = pendingShrink - 1
    /\ permits' = permits + 1
    /\ Goto(c, l, "want")
    /\ UNCHANGED <<limit, cooling, tokens, hedging>>

\* ... is given up for a pending shrink (consume_pending_shrink, forget), ...
PayShrink(c, l) ==
    /\ At(c, l, "held")
    /\ pendingShrink > 0
    /\ pendingShrink' = pendingShrink - 1
    /\ Goto(c, l, "want")
    /\ UNCHANGED <<limit, permits, cooling, tokens, hedging>>

\* ... or lets the request go out.
Send(c, l) ==
    /\ At(c, l, "held")
    /\ pendingShrink = 0
    /\ Goto(c, l, "send")
    /\ hedging' = IF l = "primary" /\ hedging[c] = "unarmed"
                  THEN [hedging EXCEPT ![c] = "armed"] ELSE hedging
    /\ UNCHANGED <<limiter, tokens>>

\* Outcome::Success: the permit is released, then on_success is called.
Succeed(c, l) ==
    /\ At(c, l, "send")
    /\ permits' = permits + 1
    /\ Goto(c, l, "raise")
    /\ UNCHANGED <<limit, pendingShrink, cooling, tokens, hedging>>

\* Outcome::NotFound and Outcome::Fatal.
Fail(c, l) ==
    /\ At(c, l, "send")
    /\ Return(c, l, 1)
    /\ UNCHANGED <<limit, pendingShrink, cooling>>

\* Outcome::Throttle.
Throttle(c, l) ==
    /\ At(c, l, "send")
    /\ permits' = permits + 1
    /\ Goto(c, l, "throttled")
    /\ UNCHANGED <<limit, pendingShrink, cooling, tokens, hedging>>

\* Outcome::Transient: back off, or fail when the retries are used up.
LastAttempt(c, l) == lane[c][l].attempt >= MaxRetries
Transient(c, l) ==
    /\ At(c, l, "send")
    /\ \/ /\ LastAttempt(c, l)
          /\ Return(c, l, 1)
       \/ /\ ~LastAttempt(c, l)
          /\ permits' = permits + 1
          /\ Goto(c, l, "backoff")
          /\ UNCHANGED <<tokens, hedging>>
    /\ UNCHANGED <<limit, pendingShrink, cooling>>

\* The sleep is over: the next attempt.
Retry(c, l) ==
    /\ At(c, l, "backoff")
    /\ lane' = [lane EXCEPT ![c][l].pc = "want", ![c][l].attempt = @ + 1]
    /\ UNCHANGED <<limiter, tokens, hedging>>

\* on_success: raise the limit unless it is at the cap, then add a permit.
Raise(c, l) ==
    /\ At(c, l, "raise")
    /\ \/ /\ limit < Cap
          /\ limit' = limit + 1
          /\ Goto(c, l, "add")
          /\ UNCHANGED <<permits, tokens, hedging>>
       \/ /\ limit >= Cap
          /\ Return(c, l, 0)
          /\ UNCHANGED limit
    /\ UNCHANGED <<pendingShrink, cooling>>

AddPermit(c, l) ==
    /\ At(c, l, "add")
    /\ Return(c, l, 1)
    /\ UNCHANGED <<limit, pendingShrink, cooling>>

\* The end of on_throttle: run_resilient backs off or fails.
AfterThrottle(c, l) ==
    \/ /\ LastAttempt(c, l)
       /\ Return(c, l, 0)
    \/ /\ ~LastAttempt(c, l)
       /\ lane' = [lane EXCEPT ![c][l].pc = "backoff", ![c][l].owed = 0]
       /\ UNCHANGED <<permits, tokens, hedging>>

\* on_throttle: one shrink per cooldown ...
StartShrink(c, l) ==
    /\ At(c, l, "throttled")
    /\ \/ /\ cooling
          /\ AfterThrottle(c, l)
          /\ UNCHANGED cooling
       \/ /\ ~cooling
          /\ cooling' = TRUE
          /\ Goto(c, l, "halve")
          /\ UNCHANGED <<permits, tokens, hedging>>
    /\ UNCHANGED <<limit, pendingShrink>>

\* Mutant of Halve: the limit is halved down to nothing.
HalveToZero(c, l) ==
    /\ At(c, l, "halve")
    /\ limit' = limit \div 2
    /\ lane' = [lane EXCEPT ![c][l].pc = "forget", ![c][l].owed = limit - limit \div 2]
    /\ UNCHANGED <<pendingShrink, cooling, permits, tokens, hedging>>

\* ... halves the limit ...
Halve(c, l) ==
    /\ At(c, l, "halve")
    /\ \/ /\ limit > 1
          /\ limit' = limit \div 2
          /\ lane' = [lane EXCEPT ![c][l].pc = "forget", ![c][l].owed = limit - limit \div 2]
          /\ UNCHANGED <<permits, tokens, hedging>>
       \/ /\ limit <= 1
          /\ AfterThrottle(c, l)
          /\ UNCHANGED limit
    /\ UNCHANGED <<pendingShrink, cooling>>

\* ... takes the difference from the permits that are free ...
Forget(c, l) ==
    /\ At(c, l, "forget")
    /\ lane[c][l].owed > 0 /\ permits > 0
    /\ permits' = permits - 1
    /\ lane' = [lane EXCEPT ![c][l].owed = @ - 1]
    /\ UNCHANGED <<limit, pendingShrink, cooling, tokens, hedging>>

\* ... and leaves the rest to those who acquire.
LeaveShrink(c, l) ==
    /\ At(c, l, "forget")
    /\ lane[c][l].owed = 0 \/ permits = 0
    /\ pendingShrink' = pendingShrink + lane[c][l].owed
    /\ AfterThrottle(c, l)
    /\ UNCHANGED <<limit, cooling>>

\* The cooldown runs out.
CoolDown ==
    /\ cooling
    /\ cooling' = FALSE
    /\ UNCHANGED <<limit, permits, pendingShrink, tokens, lane, hedging>>

\* The hedge timer goes off: try_take a token and start the hedge with it.
Hedge(c) ==
    /\ hedging[c] = "armed"
    /\ At(c, "hedge", "off")
    /\ hedging' = [hedging EXCEPT ![c] = "fired"]
    /\ \/ /\ tokens > 0
          /\ tokens' = tokens - 1
          /\ lane' = [lane EXCEPT ![c]["hedge"] = Begun]
       \/ /\ tokens = 0
          /\ UNCHANGED <<tokens, lane>>
    /\ UNCHANGED limiter

LaneStep(c, l) ==
    \/ PayShrink(c, l) \/ Send(c, l) \/ Succeed(c, l) \/ Fail(c, l) \/ Throttle(c, l)
    \/ Transient(c, l) \/ Retry(c, l) \/ Raise(c, l) \/ AddPermit(c, l)
    \/ StartShrink(c, l) \/ Halve(c, l) \/ Forget(c, l) \/ LeaveShrink(c, l)

Next ==
    \/ CoolDown
    \/ \E c \in Calls : Begin(c) \/ Hedge(c) \/ \E l \in Lanes : Acquire(c, l) \/ LaneStep(c, l)

Spec == Init /\ [][Next]_vars

\* Tasks are scheduled, requests end (they have deadlines), timers fire, and the
\* semaphore serves waiters in turn.
Fairness ==
    \A c \in Calls : \A l \in Lanes : WF_vars(LaneStep(c, l)) /\ SF_vars(Acquire(c, l))

FairSpec == Spec /\ Fairness

-----------------------------------------------------------------------------
\* Every variable has its type and the limit stays between 1 and the cap.
TypeOK ==
    /\ limit \in 1..Cap
    /\ permits \in Nat /\ pendingShrink \in Nat
    /\ cooling \in BOOLEAN
    /\ tokens \in 0..HedgeTokens
    /\ lane \in [Calls -> [Lanes -> Lane]]
    /\ hedging \in [Calls -> Hedging]

InLane(pc) == {x \in Calls \X Lanes : lane[x[1]][x[2]].pc = pc}

\* The permits lanes have still to take away, each one as the lane and a number.
Owed == {y \in (Calls \X Lanes) \X (1..Cap) : y[2] <= lane[y[1][1]][y[1][2]].owed}

\* Though on_success, on_throttle and acquire change the limit, the semaphore
\* and the pending shrink one after the other and in any interleaving, none of
\* them creates or loses a permit: what circulates is the limit and the shrinks
\* not yet applied.
PermitsBalance ==
    permits + Cardinality(Sending) + Cardinality(Holding) + Cardinality(InLane("add"))
        = limit + pendingShrink + Cardinality(Owed)

\* A token comes back from every hedge, win or lose, and from nothing else.
TokensBalance == tokens + Cardinality({c \in Calls : Hedged(c)}) = HedgeTokens

\* The books of the limiter: the limit stays between 1 and the cap, and permits and
\* tokens are neither made nor lost.
LimiterSound == TypeOK /\ PermitsBalance /\ TokensBalance

\* Once the store stops throttling, every call comes to an end: shrinks never
\* use up the permits for good.  (While it throttles, a call may hand over one
\* permit after the other to pending shrinks.)
CallsReturn ==
    <>[](InLane("halve") = {}) => \A c \in Calls : []<>~Active(c)
=============================================================================
