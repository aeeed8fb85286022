---------------------------- MODULE TokenBucket ----------------------------
(***************************************************************************)
(* One token bucket: the Redis hash of one (tenant, route, subject), the   *)
(* Lua script that Redis runs atomically, and its concurrent callers.      *)
(*                                                                         *)
(* Time is counted in ticks (the code's milliseconds), PerSecond of them a *)
(* second.  Tokens are counted in units, Unit of them a token, so that the *)
(* refill of one tick, RefillRate, is a whole number of units: the floats  *)
(* of the script become exact.                                             *)
(***************************************************************************)
EXTENDS LimiterCalls

CONSTANTS Capacity,     \* rule.BucketCapacity, in tokens
          RefillRate,   \* rule.RefillRate, in units per tick; may be stored as 0.00
          Unit,         \* units in a token
          PerSecond,    \* ticks in a second
          ExpirySlack   \* the script's 60, in seconds

ASSUME BucketAssumption ==
  /\ Capacity \in Nat \ {0}
  /\ RefillRate \in Nat
  /\ Unit \in Nat \ {0}
  /\ PerSecond \in Nat \ {0}
  /\ ExpirySlack \in Nat
  \* The margin of the expiry outlasts late time stamps and clock skew.
  /\ MaxDelay + 2 * MaxSkew <= ExpirySlack * PerSecond

VARIABLES
  tokens,          \* the hash's field tokens, in units
  last_refill_ms,  \* the hash's field last_refill_ms
  expire_at,       \* when the key expires; a key in the past is absent
  verdict,         \* what the last script run returned, and for what
  exact,           \* history: every script so far was stamped with Redis's time
  \* An observer that may start measuring at any moment (no code behind it):
  mark,            \* when it started
  spent,           \* units admitted since then
  setback          \* the ticks by which scripts since then set the bucket's time back

bucketVars == <<tokens, last_refill_ms, expire_at, verdict, exact>>
observer == <<mark, spent, setback>>
vars == <<callVars, bucketVars, observer>>

Full == Capacity * Unit
Never == MaxClock + 1     \* a key without a time to live

CeilDiv(a, b) == -((-a) \div b)

Price(cost) == EffectiveCost(cost) * Unit
Prices == {Price(cost) : cost \in Costs}

-----------------------------------------------------------------------------
(***************************************************************************)
(* token_bucket.lua.                                                       *)
(***************************************************************************)
\* HMGET finds the key: an expired key is gone to every reader.
Live == clock < expire_at

\* Mutant: elapsed is not clamped at zero.
RefilledUnclamped(now_ms) ==
  LET more == tokens + RefillRate * (now_ms - last_refill_ms)
  IN IF ~Live THEN Full ELSE IF more < Full THEN more ELSE Full

\* Mutant: the refill is not capped at the capacity.
RefilledUncapped(now_ms) ==
  LET elapsed_ms == IF now_ms > last_refill_ms THEN now_ms - last_refill_ms ELSE 0
  IN IF ~Live THEN Full ELSE tokens + RefillRate * elapsed_ms

\* The tokens after the refill step: a missing bucket is full.
Refilled(now_ms) ==
  LET elapsed_ms == IF now_ms > last_refill_ms THEN now_ms - last_refill_ms ELSE 0
      more == tokens + RefillRate * elapsed_ms
  IN IF ~Live THEN Full ELSE IF more < Full THEN more ELSE Full

\* Mutant: the wait is rounded down.
RetryAfterFloor(price, have) ==
  IF RefillRate > 0 THEN (price - have) \div (RefillRate * PerSecond) ELSE 0

\* Seconds until `have' units have grown to `price'.
RetryAfter(price, have) ==
  IF RefillRate > 0 THEN CeilDiv(price - have, RefillRate * PerSecond) ELSE 0

\* Mutant: the deficit is forgotten once a whole token is left.
ResetAtEmptyOnly(now_ms, left) ==
  now_ms \div PerSecond + (IF RefillRate > 0 /\ left < Unit
                           THEN CeilDiv(Full - left, RefillRate * PerSecond)
                           ELSE 0)

\* The second in which a bucket left with `left' units is full again.
ResetAt(now_ms, left) ==
  now_ms \div PerSecond + (IF RefillRate > 0 /\ left < Full
                           THEN CeilDiv(Full - left, RefillRate * PerSecond)
                           ELSE 0)

\* Mutant: the time to live is a constant that ignores how long a refill takes.
ExpirySlackOnly == IF RefillRate > 0 THEN clock + PerSecond * ExpirySlack ELSE Never

\* EXPIRE: the time to fill an empty bucket, and the slack.  Without a refill
\* the key is given no time to live.
Expiry ==
  IF RefillRate > 0
  THEN clock + PerSecond * (CeilDiv(Full, RefillRate * PerSecond) + ExpirySlack)
  ELSE Never

\* The whole script, run atomically by Redis at Redis's time `clock'.
Script(now_ms, price) ==
  LET have == Refilled(now_ms)
      allowed == have >= price
      left == IF allowed THEN have - price ELSE have
  IN /\ tokens' = left
     /\ last_refill_ms' = now_ms
     /\ expire_at' = Expiry
     /\ verdict' = [price |-> price, now_ms |-> now_ms, allowed |-> allowed,
                    remaining |-> left \div Unit,
                    reset_at |-> ResetAt(now_ms, left),
                    retry_after |-> IF allowed THEN 0 ELSE RetryAfter(price, have)]
     /\ exact' = (exact /\ now_ms = clock)
     /\ spent' = IF allowed THEN spent + price ELSE spent
     /\ setback' = IF Live /\ now_ms < last_refill_ms
                   THEN setback + last_refill_ms - now_ms ELSE setback

-----------------------------------------------------------------------------
Init ==
  /\ CallsInit
  /\ tokens = 0 /\ last_refill_ms = 0 /\ expire_at = 0     \* no key yet
  /\ verdict = [price |-> 0, now_ms |-> 0, allowed |-> TRUE,
                remaining |-> 0, reset_at |-> 0, retry_after |-> 0]
  /\ exact = TRUE
  /\ mark = clock /\ spent = 0 /\ setback = 0

CheckTokenBucket(c) == Send(c) /\ UNCHANGED <<bucketVars, observer>>

RunScript(c) == Script(calls[c].now, Price(calls[c].cost)) /\ UNCHANGED mark

\* The script runs and its reply reaches the caller.
EvalSha(c) == Answered(c) /\ RunScript(c)

\* The script runs but its reply is lost: a retry runs it again.
ReplyLost(c) == NotAnswered(c) /\ RunScript(c)

\* The command never reaches Redis.
SendFails(c) == NotAnswered(c) /\ UNCHANGED <<bucketVars, observer>>

Tick == TimePasses /\ UNCHANGED <<bucketVars, observer>>

\* The observer starts measuring.
Observe ==
  /\ mark' = clock /\ spent' = 0 /\ setback' = 0
  /\ UNCHANGED <<callVars, bucketVars>>

Next ==
  \/ \E c \in Callers :
       CheckTokenBucket(c) \/ EvalSha(c) \/ ReplyLost(c) \/ SendFails(c)
  \/ Tick
  \/ Observe

Spec == Init /\ [][Next]_vars

-----------------------------------------------------------------------------
Verdicts == [price : Nat, now_ms : Nat, allowed : BOOLEAN, remaining : Nat,
             reset_at : Nat, retry_after : Nat]

(***************************************************************************)
(* Types.  The bucket holds between nothing and its capacity, and what the *)
(* script reports is never negative.                                       *)
(***************************************************************************)
TypeOK ==
  /\ CallsTypeOK
  /\ tokens \in 0..Full
  /\ last_refill_ms \in Nat
  /\ expire_at \in Nat
  /\ verdict \in Verdicts
  /\ exact \in BOOLEAN
  /\ mark \in Nat /\ mark <= clock
  /\ spent \in Nat
  /\ setback \in Nat

(***************************************************************************)
(* The limit.  In any interval the admitted requests cost at most the      *)
(* capacity plus the refill of the interval, stretched by what the time    *)
(* stamps can be off: late by MaxDelay at its start, MaxSkew at either     *)
(* end, and all that scripts have set the bucket's time back, which is     *)
(* refilled twice.  Retried commands and expired keys are included         *)
(* (token_bucket.lua 19-45).                                               *)
(***************************************************************************)
AdmissionBound ==
  spent <= Full + RefillRate * (clock - mark + setback + MaxDelay + 2 * MaxSkew)

(***************************************************************************)
(* The limit without what is refilled twice, as the documentation claims   *)
(* it for any number of instances: the code does not keep it.              *)
(***************************************************************************)
NeverOverAllows ==
  spent <= Full + RefillRate * (clock - mark + MaxDelay + 2 * MaxSkew)

(***************************************************************************)
(* Expiry forgets nothing: once the key is gone, any script that can still *)
(* arrive would have found the bucket full (token_bucket.lua 43-45).       *)
(***************************************************************************)
ExpiryForgetsNothing ==
  (expire_at > 0 /\ ~Live) =>
    tokens + RefillRate * (clock - MaxDelay - MaxSkew - last_refill_ms) >= Full

(***************************************************************************)
(* retry_after is enough: when a refused request that the bucket could     *)
(* ever pay for is the next one to run, retry_after seconds later or more, *)
(* it is admitted, whether or not the key has expired meanwhile            *)
(* (token_bucket.lua 36-38).                                               *)
(***************************************************************************)
RetryAfterEnough ==
  [][\A c \in Callers :
       ( /\ EvalSha(c) /\ RefillRate > 0
         /\ ~verdict.allowed /\ verdict.price <= Full
         /\ Price(calls[c].cost) <= verdict.price
         /\ calls[c].now >= verdict.now_ms + verdict.retry_after * PerSecond )
       => verdict'.allowed]_vars

(***************************************************************************)
(* reset_at is right to the second: one second after it a request for the  *)
(* whole capacity is admitted, and one second before it such a request is  *)
(* refused unless the bucket is full already (token_bucket.lua 47-52).     *)
(***************************************************************************)
ResetAtWithinASecond ==
  [][\A c \in Callers :
       ( /\ EvalSha(c) /\ RefillRate > 0 /\ Live
         /\ Price(calls[c].cost) = Full
         /\ calls[c].now >= last_refill_ms )
       => /\ (calls[c].now >= (verdict.reset_at + 1) * PerSecond
                => verdict'.allowed)
          /\ (( /\ tokens < Full
                /\ calls[c].now <= (verdict.reset_at - 1) * PerSecond )
                => ~verdict'.allowed)]_vars

-----------------------------------------------------------------------------
(***************************************************************************)
(* For as long as stamps are Redis's own time the bucket implements        *)
(* EagerBucket: a lazily refilled hash with an expiry looks like a level   *)
(* that grows at every tick.                                               *)
(***************************************************************************)
Level == Refilled(clock)

Eager == INSTANCE EagerBucket WITH
           Full <- Full, Rate <- RefillRate, Prices <- Prices,
           level <- Level,
           answer <- [price |-> verdict.price, allowed |-> verdict.allowed]

ImplementsEagerBucket ==
  Eager!EInit /\ [][exact' => Eager!ENext]_(Eager!evars)
=============================================================================
