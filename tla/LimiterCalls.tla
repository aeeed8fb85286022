---------------------------- MODULE LimiterCalls ----------------------------
(***************************************************************************)
(* The calls of RateLimiter.Check that reach one counter in Redis.         *)
(*                                                                         *)
(* A goroutine (of any app instance) reads ITS OWN clock first and sends   *)
(* the script afterwards, so a script runs with a time stamp that is not   *)
(* Redis's time and that is not ordered like the scripts are.  The clocks  *)
(* of the instances differ and may be set: every reading is off by up to   *)
(* MaxSkew.  The Redis client sends a command again when its reply was     *)
(* lost.                                                                   *)
(*                                                                         *)
(* TokenBucket counts time in ticks of the code's milliseconds,            *)
(* SlidingWindow in ticks of a second.                                     *)
(***************************************************************************)
EXTENDS Integers

CONSTANTS Callers,      \* goroutines that check this counter
          Costs,        \* costs a request may ask for; 0 = not given
          MaxSkew,      \* how far a clock that is read is from Redis's, in ticks
          MaxDelay,     \* from reading the clock to the script's end, in ticks
          MaxRetries,   \* the Redis client's retries of one command
          MaxClock      \* bound of the model: Redis's clock stops here

ASSUME CallAssumption ==
  /\ Costs \subseteq Int
  /\ MaxSkew \in Nat
  /\ MaxDelay \in Nat
  /\ MaxRetries \in Nat
  /\ MaxClock \in Nat /\ MaxSkew + MaxDelay <= MaxClock

VARIABLES clock,    \* Redis's clock, in ticks
          calls     \* calls[c]: c's call of RateLimiter.Check

callVars == <<clock, calls>>

Skews == (-MaxSkew)..MaxSkew

\* Check: a cost that is not positive counts as one.
EffectiveCost(cost) == IF cost <= 0 THEN 1 ELSE cost

Idle == [pc |-> "idle", now |-> 0, cost |-> 0, since |-> 0, retries |-> 0]

Calls == [pc : {"idle", "sent"}, now : Nat, cost : Costs \cup {0},
          since : Nat, retries : 0..MaxRetries]

CallsInit ==
  /\ clock = MaxSkew + MaxDelay     \* no time stamp is negative
  /\ calls = [c \in Callers |-> Idle]

\* checkTokenBucket, checkSlidingWindow: the clock is read, the command sent.
Send(c) == \E cost \in Costs, skew \in Skews :
  /\ calls[c].pc = "idle"
  /\ calls' = [calls EXCEPT ![c] =
       [pc |-> "sent", now |-> clock + skew, cost |-> cost,
        since |-> clock, retries |-> MaxRetries]]
  /\ UNCHANGED clock

\* The reply reaches the caller, which parses the decision and returns.
Answered(c) ==
  /\ calls[c].pc = "sent"
  /\ calls' = [calls EXCEPT ![c] = Idle]
  /\ UNCHANGED clock

\* The client sends a failed command again, unchanged, or gives up.
AfterFailure(call) ==
  IF call.retries > 0
  THEN [pc |-> "sent", now |-> call.now, cost |-> call.cost,
        since |-> call.since, retries |-> call.retries - 1]
  ELSE Idle

\* No reply: the command is repeated, or the call ends in ErrRateLimitBackend.
NotAnswered(c) ==
  /\ calls[c].pc = "sent"
  /\ calls' = [calls EXCEPT ![c] = AfterFailure(calls[c])]
  /\ UNCHANGED clock

\* Time passes; the client's timeouts end a call MaxDelay after it began.
TimePasses ==
  /\ clock < MaxClock
  /\ \A c \in Callers : calls[c].pc = "sent" => clock < calls[c].since + MaxDelay
  /\ clock' = clock + 1
  /\ UNCHANGED calls

CallsTypeOK ==
  /\ clock \in MaxSkew..MaxClock
  /\ calls \in [Callers -> Calls]

\* A command in flight carries a cost its sender asked for and a reading of a
\* clock of at most MaxDelay ago.
StampsInv ==
  \A c \in Callers : calls[c].pc = "sent" =>
    /\ calls[c].cost \in Costs
    /\ calls[c].since <= clock /\ clock <= calls[c].since + MaxDelay
    /\ calls[c].since - MaxSkew <= calls[c].now
    /\ calls[c].now <= calls[c].since + MaxSkew
=============================================================================
