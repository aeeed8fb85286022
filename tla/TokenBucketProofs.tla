------------------------- MODULE TokenBucketProofs -------------------------
(***************************************************************************)
(* Proofs about TokenBucket, for every capacity, rate, number of callers,  *)
(* delay, skew and expiry margin that BucketAssumption allows.             *)
(***************************************************************************)
EXTENDS TokenBucket, TLAPS

(***************************************************************************)
(* Arithmetic.                                                             *)
(***************************************************************************)
\* The product of naturals is a natural.
LEMMA NatProduct == \A a, b \in Nat : a * b \in Nat
  BY Z3

\* A factor that is not negative keeps the order.
LEMMA ProductMonotone ==
  \A r \in Nat, a, b \in Int : a <= b => r * a <= r * b
  BY Z3

\* Products distribute over sums.
LEMMA ProductSum ==
  \A r, a, b \in Int : r * (a + b) = r * a + r * b
  BY Z3

\* Rounding up is never short, and short of one more than it needs.
LEMMA CeilDivBounds ==
  ASSUME NEW a \in Nat, NEW b \in Nat \ {0}
  PROVE  /\ CeilDiv(a, b) \in Nat
         /\ CeilDiv(a, b) * b >= a
  BY Z3 DEF CeilDiv

-----------------------------------------------------------------------------
(***************************************************************************)
(* Types.                                                                  *)
(***************************************************************************)
\* The bucket's capacity and prices in units are naturals.
LEMMA UnitTypes ==
  /\ Full \in Nat \ {0}
  /\ \A cost \in Costs \cup {0} : Price(cost) \in Nat \ {0}
<1>1. Full \in Nat \ {0}
  BY BucketAssumption, CallAssumption, Z3 DEF BucketAssumption, CallAssumption, Full
<1>2. ASSUME NEW cost \in Costs \cup {0} PROVE Price(cost) \in Nat \ {0}
  <2>1. EffectiveCost(cost) \in Nat \ {0}
    BY BucketAssumption, CallAssumption
       DEF BucketAssumption, CallAssumption, EffectiveCost
  <2> QED BY <2>1, BucketAssumption, CallAssumption, Z3
             DEF BucketAssumption, CallAssumption, Price
<1> QED BY <1>1, <1>2

\* The refill step returns between nothing and the capacity.
LEMMA RefilledRange ==
  ASSUME TypeOK, NEW now_ms \in Nat
  PROVE  Refilled(now_ms) \in 0..Full
<1> DEFINE elapsed_ms == IF now_ms > last_refill_ms THEN now_ms - last_refill_ms ELSE 0
<1>1. elapsed_ms \in Nat
  BY DEF TypeOK, CallsTypeOK
<1>2. RefillRate * elapsed_ms \in Nat
  BY <1>1, NatProduct, BucketAssumption, CallAssumption
     DEF BucketAssumption, CallAssumption
<1> HIDE DEF elapsed_ms
<1>3. tokens + RefillRate * elapsed_ms \in Nat
  BY <1>2 DEF TypeOK, CallsTypeOK
<1>4. Full \in Nat
  BY UnitTypes
<1>5. (IF tokens + RefillRate * elapsed_ms < Full
       THEN tokens + RefillRate * elapsed_ms ELSE Full) \in 0..Full
  BY <1>3, <1>4
<1> QED BY <1>4, <1>5 DEF Refilled, elapsed_ms

\* What a script run leaves in the key is well typed.
LEMMA ScriptTypes ==
  ASSUME TypeOK, NEW now_ms \in Nat, NEW price \in Nat \ {0}, Script(now_ms, price)
  PROVE  /\ tokens' \in 0..Full
         /\ last_refill_ms' \in Nat
         /\ expire_at' \in Nat
         /\ verdict' \in Verdicts
         /\ exact' \in BOOLEAN
         /\ spent' \in Nat
         /\ setback' \in Nat
<1> DEFINE have == Refilled(now_ms)
           left == IF have >= price THEN have - price ELSE have
<1>1. have \in 0..Full /\ Full \in Nat
  BY RefilledRange, UnitTypes
<1> HIDE DEF have
<1>2. left \in 0..Full
  BY <1>1
<1>3. RefillRate > 0 => RefillRate * PerSecond \in Nat \ {0}
  BY BucketAssumption, CallAssumption, Z3 DEF BucketAssumption, CallAssumption
<1>4. expire_at' \in Nat
  <2>1. CASE RefillRate > 0
    <3>1. CeilDiv(Full, RefillRate * PerSecond) \in Nat
      BY <1>1, <1>3, <2>1, CeilDivBounds
    <3>2. PerSecond * (CeilDiv(Full, RefillRate * PerSecond) + ExpirySlack) \in Nat
      BY <3>1, NatProduct, BucketAssumption, CallAssumption
         DEF BucketAssumption, CallAssumption
    <3> QED BY <3>2, <2>1, BucketAssumption, CallAssumption
               DEF BucketAssumption, CallAssumption, Script, Expiry, TypeOK,
                   CallsTypeOK
  <2>2. CASE ~(RefillRate > 0)
    BY <2>2, BucketAssumption, CallAssumption
       DEF BucketAssumption, CallAssumption, Script, Expiry, Never
  <2> QED BY <2>1, <2>2
<1>5. left \div Unit \in Nat
  BY <1>2, <1>1, BucketAssumption, CallAssumption, Z3
     DEF BucketAssumption, CallAssumption
<1>6. now_ms \div PerSecond \in Nat
  BY BucketAssumption, CallAssumption, Z3 DEF BucketAssumption, CallAssumption
<1>7. ResetAt(now_ms, left) \in Nat
  <2> HIDE DEF left
  <2>1. CASE RefillRate > 0 /\ left < Full
    <3>1. CeilDiv(Full - left, RefillRate * PerSecond) \in Nat
      <4>1. Full - left \in Nat
        BY <1>1, <1>2
      <4> QED BY <4>1, <1>3, <2>1, CeilDivBounds
    <3> QED BY <3>1, <1>6, <2>1 DEF ResetAt
  <2>2. CASE ~(RefillRate > 0 /\ left < Full)
    BY <1>6, <2>2 DEF ResetAt
  <2> QED BY <2>1, <2>2
<1>8. ~(have >= price) => RetryAfter(price, have) \in Nat
  <2> SUFFICES ASSUME ~(have >= price) PROVE RetryAfter(price, have) \in Nat
    OBVIOUS
  <2>1. price - have \in Nat
    BY <1>1
  <2>2. CASE RefillRate > 0
    BY <2>1, <2>2, <1>3, CeilDivBounds DEF RetryAfter
  <2>3. CASE ~(RefillRate > 0)
    BY <2>3 DEF RetryAfter
  <2> QED BY <2>2, <2>3
<1>9. verdict' = [price |-> price, now_ms |-> now_ms, allowed |-> have >= price,
                  remaining |-> left \div Unit,
                  reset_at |-> ResetAt(now_ms, left),
                  retry_after |-> IF have >= price THEN 0 ELSE RetryAfter(price, have)]
  BY DEF Script, have
<1>10. verdict' \in Verdicts
  <2> HIDE DEF left
  <2>1. (IF have >= price THEN 0 ELSE RetryAfter(price, have)) \in Nat
    BY <1>8
  <2>2. (have >= price) \in BOOLEAN
    OBVIOUS
  <2> QED BY <1>9, <2>1, <2>2, <1>5, <1>7 DEF Verdicts
<1>11. spent' \in Nat /\ setback' \in Nat /\ exact' \in BOOLEAN
  BY DEF Script, TypeOK, CallsTypeOK
<1> QED BY <1>2, <1>4, <1>10, <1>11 DEF Script, have

\* A script run by a caller keeps the types, whether or not its reply arrives.
LEMMA RunTypes ==
  ASSUME TypeOK, NEW c \in Callers, EvalSha(c) \/ ReplyLost(c)
  PROVE  TypeOK'
<1>1. calls[c] \in Calls
  BY DEF TypeOK, CallsTypeOK
<1>2. calls[c].now \in Nat /\ Price(calls[c].cost) \in Nat \ {0}
  BY <1>1, UnitTypes DEF Calls
<1>3. Script(calls[c].now, Price(calls[c].cost)) /\ UNCHANGED <<clock, mark>>
  BY DEF EvalSha, ReplyLost, RunScript, Answered, NotAnswered
<1>4. calls' \in [Callers -> Calls]
  <2>1. Idle \in Calls
    BY BucketAssumption, CallAssumption
       DEF Idle, Calls, BucketAssumption, CallAssumption
  <2>2. AfterFailure(calls[c]) \in Calls
    BY <1>1, <2>1, BucketAssumption, CallAssumption
       DEF Calls, BucketAssumption, CallAssumption, AfterFailure
  <2> QED BY <2>1, <2>2
             DEF EvalSha, ReplyLost, RunScript, Answered, NotAnswered, TypeOK,
                 CallsTypeOK
<1> QED BY <1>2, <1>3, <1>4, ScriptTypes DEF TypeOK, CallsTypeOK

(***************************************************************************)
(* TypeOK holds in every reachable state: the script never leaves a bucket *)
(* with negative tokens or more than its capacity, and never reports a     *)
(* negative number, whatever the time stamps it is given.                  *)
(***************************************************************************)
THEOREM TypeCorrect == Spec => []TypeOK
<1>1. Init => TypeOK
  <2> SUFFICES ASSUME Init PROVE TypeOK
    OBVIOUS
  <2>1. Idle \in Calls
    BY BucketAssumption, CallAssumption
       DEF Idle, Calls, BucketAssumption, CallAssumption
  <2>2. verdict \in Verdicts
    BY DEF Init, CallsInit, Verdicts
  <2> QED BY <2>1, <2>2, UnitTypes, BucketAssumption, CallAssumption
             DEF Init, CallsInit, TypeOK, CallsTypeOK, BucketAssumption,
                 CallAssumption
<1>2. TypeOK /\ [Next]_vars => TypeOK'
  <2> SUFFICES ASSUME TypeOK, [Next]_vars PROVE TypeOK'
    OBVIOUS
  <2>1. ASSUME NEW c \in Callers, CheckTokenBucket(c) PROVE TypeOK'
    <3>1. PICK cost \in Costs, skew \in Skews : calls' = [calls EXCEPT ![c] =
             [pc |-> "sent", now |-> clock + skew, cost |-> cost,
              since |-> clock, retries |-> MaxRetries]]
      BY <2>1 DEF CheckTokenBucket, Send
    <3>2. clock + skew \in Nat
      BY BucketAssumption, CallAssumption
         DEF TypeOK, CallsTypeOK, Skews, BucketAssumption, CallAssumption
    <3>3. [pc |-> "sent", now |-> clock + skew, cost |-> cost,
           since |-> clock, retries |-> MaxRetries] \in Calls
      BY <3>2, BucketAssumption, CallAssumption
         DEF Calls, TypeOK, CallsTypeOK, BucketAssumption, CallAssumption
    <3>4. calls' \in [Callers -> Calls]
      BY <3>1, <3>3 DEF TypeOK, CallsTypeOK
    <3> QED BY <2>1, <3>4
               DEF CheckTokenBucket, Send, TypeOK, CallsTypeOK, bucketVars,
                   observer
  <2>2. ASSUME NEW c \in Callers, EvalSha(c) \/ ReplyLost(c) PROVE TypeOK'
    BY <2>2, RunTypes
  <2>3. ASSUME NEW c \in Callers, SendFails(c) PROVE TypeOK'
    <3>1. calls[c] \in Calls /\ Idle \in Calls
      BY BucketAssumption, CallAssumption
         DEF TypeOK, CallsTypeOK, Idle, Calls, BucketAssumption, CallAssumption
    <3>2. AfterFailure(calls[c]) \in Calls
      BY <3>1, BucketAssumption, CallAssumption
         DEF Calls, BucketAssumption, CallAssumption, AfterFailure
    <3> QED BY <2>3, <3>1, <3>2
               DEF SendFails, NotAnswered, TypeOK, CallsTypeOK, bucketVars,
                   observer
  <2>4. CASE Tick
    BY <2>4, BucketAssumption, CallAssumption
       DEF Tick, TimePasses, TypeOK, CallsTypeOK, bucketVars, observer,
           BucketAssumption, CallAssumption
  <2>5. CASE Observe
    BY <2>5, BucketAssumption, CallAssumption
       DEF Observe, callVars, TypeOK, CallsTypeOK, bucketVars, BucketAssumption,
           CallAssumption
  <2>6. CASE UNCHANGED vars
    BY <2>6 DEF vars, callVars, bucketVars, observer, TypeOK, CallsTypeOK
  <2> QED BY <2>1, <2>2, <2>3, <2>4, <2>5, <2>6 DEF Next
<1> QED BY <1>1, <1>2, PTL DEF Spec

-----------------------------------------------------------------------------
(***************************************************************************)
(* The inductive invariant behind the limit.                               *)
(***************************************************************************)
\* How long a key lives after its last script, in ticks (when it refills).
TimeToLive == PerSecond * (CeilDiv(Full, RefillRate * PerSecond) + ExpirySlack)

\* The key carries a stamp of at most MaxSkew ahead, and outlives it by
\* TimeToLive.
ExpiryInv ==
  expire_at > 0 =>
    /\ last_refill_ms <= clock + MaxSkew
    /\ RefillRate > 0 => expire_at >= last_refill_ms - MaxSkew + TimeToLive
    /\ ~(RefillRate > 0) => expire_at = Never

\* What was admitted and what is left are paid for by a full bucket and the
\* refill up to the bucket's own time stamp, the time that was set back twice.
PaidForInv ==
  \/ spent = 0
  \/ /\ expire_at > 0
     /\ spent + tokens <=
          Full + RefillRate * (last_refill_ms - mark + setback + MaxDelay + MaxSkew)

\* With stamps that were Redis's time the key is not from the future, and
\* outlives its stamp by the whole of TimeToLive.
ExactInv ==
  exact /\ expire_at > 0 =>
    /\ last_refill_ms <= clock
    /\ RefillRate > 0 => expire_at >= last_refill_ms + TimeToLive

IInv == TypeOK /\ StampsInv /\ ExpiryInv /\ ExactInv /\ PaidForInv

\* A time to live that refills an empty bucket, with the margin on top.
LEMMA TimeToLiveEnough ==
  ASSUME RefillRate > 0
  PROVE  /\ TimeToLive \in Nat
         /\ RefillRate * TimeToLive >=
              Full + RefillRate * (MaxDelay + 2 * MaxSkew)
<1> DEFINE fill == CeilDiv(Full, RefillRate * PerSecond)
<1>1. RefillRate * PerSecond \in Nat \ {0}
  BY BucketAssumption, CallAssumption, Z3 DEF BucketAssumption, CallAssumption
<1>2. fill \in Nat /\ fill * (RefillRate * PerSecond) >= Full
  BY <1>1, UnitTypes, CeilDivBounds
<1> HIDE DEF fill
<1>3. PerSecond * fill \in Nat /\ PerSecond * ExpirySlack \in Nat
  BY <1>2, NatProduct, BucketAssumption, CallAssumption
     DEF BucketAssumption, CallAssumption
<1>4. PerSecond * (fill + ExpirySlack) = PerSecond * fill + PerSecond * ExpirySlack
  BY <1>2, ProductSum, BucketAssumption, CallAssumption
     DEF BucketAssumption, CallAssumption
<1>5. RefillRate * (PerSecond * fill + PerSecond * ExpirySlack)
        = RefillRate * (PerSecond * fill) + RefillRate * (PerSecond * ExpirySlack)
  BY <1>3, ProductSum, BucketAssumption, CallAssumption
     DEF BucketAssumption, CallAssumption
<1>6. RefillRate * (PerSecond * fill) = fill * (RefillRate * PerSecond)
  BY <1>2, BucketAssumption, CallAssumption, Z3 DEF BucketAssumption, CallAssumption
<1>7. RefillRate * (PerSecond * ExpirySlack) >= RefillRate * (MaxDelay + 2 * MaxSkew)
  <2>1. MaxDelay + 2 * MaxSkew <= PerSecond * ExpirySlack
    BY BucketAssumption, CallAssumption, Z3 DEF BucketAssumption, CallAssumption
  <2>2. MaxDelay + 2 * MaxSkew \in Nat
    BY BucketAssumption, CallAssumption DEF BucketAssumption, CallAssumption
  <2> QED BY <2>1, <2>2, <1>3, ProductMonotone, BucketAssumption, CallAssumption
             DEF BucketAssumption, CallAssumption
<1>8. /\ RefillRate * (PerSecond * fill) \in Int
      /\ RefillRate * (PerSecond * ExpirySlack) \in Int
      /\ RefillRate * (MaxDelay + 2 * MaxSkew) \in Int
      /\ fill * (RefillRate * PerSecond) \in Int
      /\ Full \in Int
  BY <1>1, <1>2, <1>3, NatProduct, UnitTypes, BucketAssumption, CallAssumption
     DEF BucketAssumption, CallAssumption
<1>9. TimeToLive = PerSecond * (fill + ExpirySlack)
  BY DEF TimeToLive, fill
<1>10. TimeToLive \in Nat
  BY <1>9, <1>4, <1>3
<1>11. RefillRate * TimeToLive =
         RefillRate * (PerSecond * fill) + RefillRate * (PerSecond * ExpirySlack)
  BY <1>9, <1>4, <1>5
<1> QED BY <1>2, <1>6, <1>7, <1>8, <1>10, <1>11

(***************************************************************************)
(* ExpiryForgetsNothing follows from the invariant: an expired key had at  *)
(* least TimeToLive since its last script.                                 *)
(***************************************************************************)
LEMMA ExpiryHarmless == TypeOK /\ ExpiryInv => ExpiryForgetsNothing
<1> SUFFICES ASSUME TypeOK, ExpiryInv, expire_at > 0, ~Live
             PROVE  tokens + RefillRate * (clock - MaxDelay - MaxSkew - last_refill_ms) >= Full
  BY DEF ExpiryForgetsNothing
<1>1. RefillRate > 0
  BY BucketAssumption, CallAssumption
     DEF ExpiryInv, Live, Never, TypeOK, CallsTypeOK, BucketAssumption,
         CallAssumption
<1>2. TimeToLive \in Nat
      /\ RefillRate * TimeToLive >= Full + RefillRate * (MaxDelay + 2 * MaxSkew)
  BY <1>1, TimeToLiveEnough
<1> DEFINE gap == clock - MaxDelay - MaxSkew - last_refill_ms
           drift == MaxDelay + 2 * MaxSkew
<1>3. gap \in Int /\ drift \in Nat /\ clock \in Int
  BY BucketAssumption, CallAssumption
     DEF BucketAssumption, CallAssumption, TypeOK, CallsTypeOK
<1>4. TimeToLive <= gap + drift
  BY <1>1, <1>2, BucketAssumption, CallAssumption
     DEF ExpiryInv, Live, TypeOK, CallsTypeOK, BucketAssumption, CallAssumption
<1> HIDE DEF gap, drift
<1>5. RefillRate * TimeToLive <= RefillRate * (gap + drift)
  BY <1>2, <1>3, <1>4, ProductMonotone, BucketAssumption, CallAssumption
     DEF BucketAssumption, CallAssumption
<1>6. RefillRate * (gap + drift) = RefillRate * gap + RefillRate * drift
  BY <1>3, ProductSum, BucketAssumption, CallAssumption
     DEF BucketAssumption, CallAssumption
<1>7. RefillRate * gap >= Full
  <2>1. RefillRate * gap \in Int /\ RefillRate * drift \in Int
        /\ RefillRate * TimeToLive \in Int /\ Full \in Int
    BY <1>2, <1>3, UnitTypes, BucketAssumption, CallAssumption
       DEF BucketAssumption, CallAssumption
  <2> QED BY <1>2, <1>5, <1>6, <2>1 DEF drift
<1>8. RefillRate * gap \in Int /\ tokens \in Nat /\ Full \in Nat
  BY <1>3, UnitTypes, BucketAssumption, CallAssumption
     DEF BucketAssumption, CallAssumption, TypeOK, CallsTypeOK
<1> QED BY <1>7, <1>8 DEF gap

\* A script that runs with stamp now_ms pays for what it admits: the heart of
\* the limit.
LEMMA ScriptPays ==
  ASSUME IInv, NEW now_ms \in Nat, NEW price \in Nat \ {0}, Script(now_ms, price),
         now_ms >= clock - MaxDelay - MaxSkew,
         UNCHANGED <<clock, mark>>, expire_at' > 0
  PROVE  PaidForInv'
<1> DEFINE have == Refilled(now_ms)
           lead == last_refill_ms - mark + setback + MaxDelay + MaxSkew
           lead2 == now_ms - mark + setback' + MaxDelay + MaxSkew
<1> SUFFICES ASSUME spent' # 0
             PROVE  spent' + tokens' <= Full + RefillRate * lead2
  BY DEF PaidForInv, Script
<1>1. have \in 0..Full /\ Full \in Nat
  BY RefilledRange, UnitTypes DEF IInv
<1>2. spent' + tokens' = spent + have
  BY <1>1 DEF Script, IInv, TypeOK, CallsTypeOK
<1>3. setback' = IF Live /\ now_ms < last_refill_ms
                 THEN setback + last_refill_ms - now_ms ELSE setback
  BY DEF Script
<1>4. setback \in Nat /\ setback' \in Nat /\ last_refill_ms \in Nat
      /\ clock \in Nat /\ mark \in Nat /\ mark <= clock
      /\ MaxDelay \in Nat /\ MaxSkew \in Nat /\ RefillRate \in Nat
  BY <1>3, BucketAssumption, CallAssumption
     DEF IInv, TypeOK, CallsTypeOK, BucketAssumption, CallAssumption
<1>5. lead \in Int /\ lead2 \in Nat
  <2> DEFINE margin == now_ms - mark + MaxDelay + MaxSkew
  <2>1. margin \in Nat
    BY <1>4
  <2>2. lead2 = margin + setback'
    BY <1>4
  <2>3. lead \in Int
    BY <1>4
  <2>4. setback' \in Nat
    BY <1>4
  <2>5. margin + setback' \in Nat
    <3>1. \A a, b \in Nat : a + b \in Nat
      OBVIOUS
    <3> HIDE DEF margin
    <3> QED BY <2>1, <2>4, <3>1, Zenon
  <2> QED BY <2>2, <2>3, <2>5
<1>6. RefillRate * lead \in Int /\ RefillRate * lead2 \in Nat
  <2> HIDE DEF lead, lead2
  <2> QED BY <1>4, <1>5, NatProduct
<1>7. CASE spent = 0
  BY <1>1, <1>2, <1>6, <1>7
<1>8. CASE spent # 0
  <2>1. expire_at > 0 /\ spent + tokens <= Full + RefillRate * lead
    BY <1>8 DEF IInv, PaidForInv
  <2>2. CASE Live
    <3> DEFINE gap == IF now_ms > last_refill_ms THEN now_ms - last_refill_ms ELSE 0
    <3>1. gap \in Nat
      BY <1>4
    <3>2. have <= tokens + RefillRate * gap
      <4>1. tokens + RefillRate * gap \in Nat
        BY <1>4, <3>1, NatProduct DEF IInv, TypeOK
      <4>2. have = IF tokens + RefillRate * gap < Full THEN tokens + RefillRate * gap ELSE Full
        BY <2>2 DEF Refilled
      <4> HIDE DEF gap, have
      <4> QED BY <4>1, <4>2, <1>1
    \* What is taken off the stamp is added to the setback.
    <3>3. lead2 = lead + gap
      BY <1>3, <1>4, <2>2
    <3> HIDE DEF have, lead, lead2, gap
    <3>4. RefillRate * lead2 = RefillRate * lead + RefillRate * gap
      BY <1>4, <1>5, <3>1, <3>3, ProductSum
    <3>5. RefillRate * gap \in Nat
      BY <1>4, <3>1, NatProduct
    <3>6. spent \in Nat /\ tokens \in Nat
      BY UnitTypes DEF IInv, TypeOK, CallsTypeOK
    <3> QED BY <1>1, <1>2, <1>6, <2>1, <3>2, <3>4, <3>5, <3>6
  <2>3. CASE ~Live
    <3> DEFINE gap == clock - MaxDelay - MaxSkew - last_refill_ms
    <3>1. have = Full
      BY <2>3 DEF Refilled
    <3>2. tokens + RefillRate * gap >= Full
      BY <2>1, <2>3, ExpiryHarmless DEF IInv, ExpiryForgetsNothing
    <3>3. gap \in Int /\ lead + gap <= lead2
      BY <1>3, <1>4, <2>3
    <3> HIDE DEF have, lead, lead2, gap
    <3>4. RefillRate * (lead + gap) <= RefillRate * lead2
      BY <1>4, <1>5, <3>3, ProductMonotone
    <3>5. RefillRate * (lead + gap) = RefillRate * lead + RefillRate * gap
      BY <1>4, <1>5, <3>3, ProductSum
    <3>6. RefillRate * gap \in Int
      BY <3>3, BucketAssumption, CallAssumption DEF BucketAssumption, CallAssumption
    <3>7. spent \in Nat /\ tokens \in Nat
      BY UnitTypes DEF IInv, TypeOK, CallsTypeOK
    <3> QED BY <1>1, <1>2, <1>6, <2>1, <3>1, <3>2, <3>4, <3>5, <3>6, <3>7
  <2> QED BY <2>2, <2>3
<1> QED BY <1>7, <1>8

\* A script run by a caller keeps the whole invariant.
LEMMA RunKeepsIInv ==
  ASSUME IInv, NEW c \in Callers, EvalSha(c) \/ ReplyLost(c)
  PROVE  IInv'
<1> DEFINE now == calls[c].now
           price == Price(calls[c].cost)
<1>1. TypeOK'
  BY RunTypes DEF IInv
<1>2. calls[c] \in Calls
  BY DEF IInv, TypeOK, CallsTypeOK
<1>3. now \in Nat /\ price \in Nat \ {0}
  BY <1>2, UnitTypes DEF Calls
<1>4. Script(now, price) /\ UNCHANGED <<clock, mark>>
  BY DEF EvalSha, ReplyLost, RunScript, Answered, NotAnswered
<1>5. clock - MaxDelay - MaxSkew <= now /\ now <= clock + MaxSkew
  BY <1>2, BucketAssumption, CallAssumption
     DEF IInv, TypeOK, CallsTypeOK, StampsInv, EvalSha, ReplyLost, RunScript,
         Answered, NotAnswered, Calls, Skews, BucketAssumption, CallAssumption
<1>6. StampsInv'
  <2>1. \A d \in Callers : \/ calls'[d] = calls[d]
                          \/ calls'[d] = Idle
                          \/ /\ calls[d].pc = "sent"
                             /\ calls'[d].cost = calls[d].cost
                             /\ calls'[d].now = calls[d].now
                             /\ calls'[d].since = calls[d].since
    BY DEF EvalSha, ReplyLost, RunScript, Answered, NotAnswered, AfterFailure,
       IInv, TypeOK, CallsTypeOK
  <2> QED BY <2>1, <1>4 DEF IInv, StampsInv, Idle
<1>7. ExpiryInv' /\ ExactInv' /\ expire_at' > 0
  <2>1. last_refill_ms' = now /\ expire_at' = Expiry /\ (exact' => now = clock)
    BY <1>4 DEF Script
  <2>2. CASE RefillRate > 0
    <3>1. expire_at' = clock + TimeToLive
      BY <2>1, <2>2 DEF Expiry, TimeToLive
    <3>2. TimeToLive \in Nat
      BY <2>2, TimeToLiveEnough
    <3>3. TimeToLive # 0
      <4>1. RefillRate * TimeToLive > 0
        <5>1. RefillRate * (MaxDelay + 2 * MaxSkew) \in Nat
          BY NatProduct, BucketAssumption, CallAssumption
             DEF BucketAssumption, CallAssumption
        <5>2. RefillRate * TimeToLive \in Nat
          BY <3>2, NatProduct, BucketAssumption, CallAssumption
             DEF BucketAssumption, CallAssumption
        <5> QED BY <5>1, <5>2, <2>2, TimeToLiveEnough, UnitTypes
      <4> QED BY <4>1, <3>2, BucketAssumption, CallAssumption
                 DEF BucketAssumption, CallAssumption
    <3>4. TimeToLive' = TimeToLive
      BY DEF TimeToLive
    <3> HIDE DEF now
    <3> QED BY <2>1, <2>2, <3>1, <3>2, <3>3, <3>4, <1>3, <1>4, <1>5,
               BucketAssumption, CallAssumption
            DEF ExpiryInv, ExactInv, IInv, TypeOK, CallsTypeOK, BucketAssumption,
                CallAssumption
  <2>3. CASE ~(RefillRate > 0)
    <3> HIDE DEF now
    <3> QED BY <2>1, <2>3, <1>3, <1>4, <1>5, BucketAssumption, CallAssumption
            DEF Expiry, Never, ExpiryInv, ExactInv, IInv, TypeOK, CallsTypeOK,
                BucketAssumption, CallAssumption
  <2> QED BY <2>2, <2>3
<1>8. PaidForInv'
  <2> HIDE DEF now, price
  <2> QED BY <1>3, <1>4, <1>5, <1>7, ScriptPays DEF now, price
<1> QED BY <1>1, <1>6, <1>7, <1>8 DEF IInv

\* Every step keeps the invariant.
LEMMA Invariance == Spec => []IInv
<1>1. Init => IInv
  <2> SUFFICES ASSUME Init PROVE IInv
    OBVIOUS
  <2>1. TypeOK
    <3>1. Idle \in Calls /\ verdict \in Verdicts
      BY BucketAssumption, CallAssumption
         DEF Init, CallsInit, Idle, Calls, Verdicts, BucketAssumption,
             CallAssumption
    <3> QED BY <3>1, UnitTypes, BucketAssumption, CallAssumption
               DEF Init, CallsInit, TypeOK, CallsTypeOK, BucketAssumption,
                   CallAssumption
  <2>2. StampsInv /\ ExpiryInv /\ ExactInv /\ PaidForInv
    BY DEF Init, CallsInit, StampsInv, ExpiryInv, ExactInv, PaidForInv, Idle
  <2> QED BY <2>1, <2>2 DEF IInv
<1>2. TypeOK /\ TypeOK' /\ IInv /\ [Next]_vars => IInv'
  <2> SUFFICES ASSUME TypeOK, TypeOK', IInv, [Next]_vars PROVE IInv'
    OBVIOUS
  <2>1. TimeToLive' = TimeToLive
    BY DEF TimeToLive
  <2>2. ASSUME NEW c \in Callers, CheckTokenBucket(c) PROVE IInv'
    <3>1. StampsInv'
      <4>1. PICK cost \in Costs, skew \in Skews : calls' = [calls EXCEPT ![c] =
               [pc |-> "sent", now |-> clock + skew, cost |-> cost,
                since |-> clock, retries |-> MaxRetries]]
        BY <2>2 DEF CheckTokenBucket, Send
      <4>2. \A d \in Callers : calls'[d] =
               IF d = c THEN [pc |-> "sent", now |-> clock + skew, cost |-> cost,
                              since |-> clock, retries |-> MaxRetries]
                        ELSE calls[d]
        BY <4>1 DEF TypeOK, CallsTypeOK
      <4>3. clock' = clock
        BY <2>2 DEF CheckTokenBucket, Send
      <4> QED BY <4>2, <4>3, BucketAssumption, CallAssumption
                 DEF StampsInv, IInv, TypeOK, CallsTypeOK, Skews, BucketAssumption,
                     CallAssumption
    <3>2. ExpiryInv' /\ ExactInv' /\ PaidForInv'
      BY <2>1, <2>2
         DEF CheckTokenBucket, Send, bucketVars, observer, IInv, ExpiryInv,
             ExactInv, PaidForInv
    <3> QED BY <3>1, <3>2 DEF IInv
  <2>3. ASSUME NEW c \in Callers, EvalSha(c) \/ ReplyLost(c) PROVE IInv'
    BY <2>3, RunKeepsIInv
  <2>4. ASSUME NEW c \in Callers, SendFails(c) PROVE IInv'
    <3>1. \A d \in Callers : \/ calls'[d] = calls[d]
                            \/ calls'[d] = Idle
                            \/ /\ calls[d].pc = "sent"
                               /\ calls'[d].cost = calls[d].cost
                               /\ calls'[d].now = calls[d].now
                               /\ calls'[d].since = calls[d].since
      BY <2>4 DEF SendFails, NotAnswered, AfterFailure, TypeOK, CallsTypeOK
    <3>2. clock' = clock
      BY <2>4 DEF SendFails, NotAnswered
    <3>3. StampsInv'
      BY <3>1, <3>2 DEF StampsInv, IInv, Idle
    <3>4. ExpiryInv' /\ ExactInv' /\ PaidForInv'
      BY <2>1, <2>4
         DEF SendFails, NotAnswered, bucketVars, observer, IInv, ExpiryInv,
             ExactInv, PaidForInv
    <3> QED BY <3>3, <3>4 DEF IInv
  <2>5. CASE Tick
    <3>1. StampsInv'
      <4>1. \A c \in Callers : calls[c] \in Calls
        BY DEF TypeOK, CallsTypeOK
      <4> QED BY <2>5, <4>1, BucketAssumption, CallAssumption
              DEF Tick, TimePasses, StampsInv, IInv, TypeOK, CallsTypeOK, Calls,
                  BucketAssumption, CallAssumption
    <3>2. ExpiryInv' /\ ExactInv' /\ PaidForInv'
      BY <2>1, <2>5, BucketAssumption, CallAssumption
         DEF Tick, TimePasses, bucketVars, observer, IInv, TypeOK, CallsTypeOK,
             ExpiryInv, ExactInv, PaidForInv, BucketAssumption, CallAssumption
    <3> QED BY <3>1, <3>2 DEF IInv
  <2>6. CASE Observe
    BY <2>1, <2>6
       DEF Observe, callVars, bucketVars, IInv, StampsInv, ExpiryInv, ExactInv,
           PaidForInv
  <2>7. CASE UNCHANGED vars
    BY <2>1, <2>7
       DEF vars, callVars, bucketVars, observer, IInv, StampsInv, ExpiryInv,
           ExactInv, PaidForInv
  <2> QED BY <2>2, <2>3, <2>4, <2>5, <2>6, <2>7 DEF Next
<1> QED BY <1>1, <1>2, TypeCorrect, PTL DEF Spec

(***************************************************************************)
(* The limit holds: in every interval, and whatever the order of the time  *)
(* stamps, what the script admitted costs at most the capacity and the     *)
(* refill of the interval and of the time that was set back                *)
(* (AdmissionBound; token_bucket.lua 19-45).                               *)
(***************************************************************************)
THEOREM AdmissionIsBounded == Spec => []AdmissionBound
<1>1. IInv => AdmissionBound
  <2> DEFINE lead == last_refill_ms - mark + setback + MaxDelay + MaxSkew
             span == clock - mark + setback + MaxDelay + 2 * MaxSkew
  <2> SUFFICES ASSUME IInv PROVE spent <= Full + RefillRate * span
    BY DEF AdmissionBound
  <2>1. span \in Nat /\ lead \in Int /\ Full \in Nat /\ spent \in Nat /\ tokens \in Nat
    BY UnitTypes, BucketAssumption, CallAssumption
       DEF IInv, TypeOK, CallsTypeOK, BucketAssumption, CallAssumption
  <2>2. RefillRate * span \in Nat /\ RefillRate * lead \in Int
    BY <2>1, NatProduct, BucketAssumption, CallAssumption
       DEF BucketAssumption, CallAssumption
  <2>3. CASE spent = 0
    BY <2>1, <2>2, <2>3
  <2>4. CASE spent # 0
    <3>1. expire_at > 0 /\ spent + tokens <= Full + RefillRate * lead
      BY <2>4 DEF IInv, PaidForInv
    <3>2. lead <= span
      BY <3>1, BucketAssumption, CallAssumption
         DEF IInv, TypeOK, CallsTypeOK, ExpiryInv, BucketAssumption,
             CallAssumption
    <3> HIDE DEF lead, span
    <3>3. RefillRate * lead <= RefillRate * span
      BY <3>2, <2>1, ProductMonotone, BucketAssumption, CallAssumption
         DEF BucketAssumption, CallAssumption
    <3> QED BY <3>1, <3>3, <2>1, <2>2
  <2> QED BY <2>3, <2>4
<1> QED BY <1>1, Invariance, PTL

(***************************************************************************)
(* The key's expiry is harmless in every reachable state.                  *)
(***************************************************************************)
THEOREM ExpiryIsHarmless == Spec => []ExpiryForgetsNothing
<1>1. IInv => ExpiryForgetsNothing
  BY ExpiryHarmless DEF IInv
<1> QED BY <1>1, Invariance, PTL

-----------------------------------------------------------------------------
(***************************************************************************)
(* The lazily refilled, expiring hash implements a bucket that refills at  *)
(* every tick, for as long as time stamps are Redis's own time.            *)
(***************************************************************************)
\* The refill step at or after the bucket's stamp, written with one minimum.
LEMMA LevelOf ==
  ASSUME TypeOK, NEW t \in Nat, last_refill_ms <= t
  PROVE  Refilled(t) =
           IF ~Live THEN Full
           ELSE IF tokens + RefillRate * (t - last_refill_ms) < Full
                THEN tokens + RefillRate * (t - last_refill_ms) ELSE Full
<1>1. (IF t > last_refill_ms THEN t - last_refill_ms ELSE 0) = t - last_refill_ms
  BY DEF TypeOK, CallsTypeOK
<1> QED BY <1>1 DEF Refilled

\* A tick gives the bucket one tick's refill, also when its key expires.
LEMMA TickGains ==
  ASSUME exact, IInv, IInv', Tick
  PROVE  Eager!Gain
<1>1. clock \in Nat /\ clock' = clock + 1 /\ clock' \in Nat /\ last_refill_ms \in Nat
      /\ tokens \in Nat /\ Full \in Nat /\ Full' = Full /\ RefillRate \in Nat
  BY UnitTypes, BucketAssumption, CallAssumption
     DEF Tick, TimePasses, IInv, TypeOK, CallsTypeOK, BucketAssumption,
         CallAssumption, Full
<1>2. UNCHANGED <<tokens, last_refill_ms, expire_at, verdict, exact>>
  BY DEF Tick, TimePasses, bucketVars
<1>3. CASE expire_at > 0
  <2>1. last_refill_ms <= clock
    BY <1>1, <1>3 DEF IInv, ExactInv
  <2> DEFINE was == RefillRate * (clock - last_refill_ms)
             is == RefillRate * (clock + 1 - last_refill_ms)
  <2>2. was \in Nat /\ is \in Nat /\ is = was + RefillRate
    <3>1. clock - last_refill_ms \in Nat
      BY <1>1, <2>1
    <3>2. clock + 1 - last_refill_ms = (clock - last_refill_ms) + 1
      BY <1>1
    <3>3. RefillRate * ((clock - last_refill_ms) + 1) = was + RefillRate * 1
      BY <3>1, <1>1, ProductSum
    <3> QED BY <3>1, <3>2, <3>3, <1>1, NatProduct
  <2>3. Level = IF ~Live THEN Full ELSE IF tokens + was < Full THEN tokens + was ELSE Full
    BY <1>1, <2>1, LevelOf DEF Level, IInv
  <2>4. Level' = IF ~Live' THEN Full ELSE IF tokens + is < Full THEN tokens + is ELSE Full
    <3>1. (IF clock' > last_refill_ms' THEN clock' - last_refill_ms' ELSE 0)
            = clock + 1 - last_refill_ms
      BY <1>1, <1>2, <2>1
    <3> QED BY <1>1, <1>2, <3>1 DEF Level, Refilled
  <2>5. ~Live' => tokens + is >= Full
    <3> SUFFICES ASSUME ~Live' PROVE tokens + is >= Full
      OBVIOUS
    <3>1. RefillRate > 0
      BY <1>1, <1>2, <1>3, BucketAssumption, CallAssumption
         DEF IInv, ExpiryInv, Live, Never, TypeOK, CallsTypeOK, BucketAssumption,
             CallAssumption
    <3>2. /\ TimeToLive \in Nat
          /\ RefillRate * TimeToLive >= Full + RefillRate * (MaxDelay + 2 * MaxSkew)
      BY <3>1, TimeToLiveEnough
    <3>3. TimeToLive <= clock + 1 - last_refill_ms
      BY <3>1, <3>2, <1>1, <1>2, <1>3
         DEF IInv, ExactInv, Live, TypeOK, CallsTypeOK
    <3>4. RefillRate * TimeToLive <= is
      BY <3>2, <3>3, <1>1, ProductMonotone
    <3>5. RefillRate * TimeToLive \in Nat /\ RefillRate * (MaxDelay + 2 * MaxSkew) \in Nat
      BY <3>2, NatProduct, BucketAssumption, CallAssumption
         DEF BucketAssumption, CallAssumption
    <3> HIDE DEF is
    <3> QED BY <3>2, <3>4, <3>5, <1>1, <2>2
  <2>6. ~Live => ~Live'
    BY <1>1, <1>2 DEF Live, IInv, TypeOK, CallsTypeOK
  <2> HIDE DEF was, is
  <2>7. Level' = IF Level + RefillRate < Full THEN Level + RefillRate ELSE Full
    BY <1>1, <2>2, <2>3, <2>4, <2>5, <2>6
  <2> QED BY <2>7, <1>2 DEF Eager!Gain
<1>4. CASE ~(expire_at > 0)
  <2>1. ~Live /\ ~Live'
    BY <1>1, <1>2, <1>4 DEF Live, IInv, TypeOK, CallsTypeOK
  <2>2. Level = Full /\ Level' = Full
    BY <2>1, <1>1 DEF Level, Refilled
  <2> QED BY <2>2, <1>1, <1>2 DEF Eager!Gain
<1> QED BY <1>3, <1>4

\* A script run is an Admit or a Refuse of the eager bucket.
LEMMA RunDecides ==
  ASSUME IInv, IInv', exact', NEW c \in Callers, EvalSha(c) \/ ReplyLost(c)
  PROVE  \E p \in Prices : Eager!Admit(p) \/ Eager!Refuse(p)
<1> DEFINE price == Price(calls[c].cost)
           have == Refilled(clock)
<1>1. calls[c] \in Calls /\ calls[c].pc = "sent"
  BY DEF IInv, TypeOK, CallsTypeOK, EvalSha, ReplyLost, RunScript, Answered,
     NotAnswered
<1>2. calls[c].now = clock /\ clock \in Nat
  BY <1>1, BucketAssumption, CallAssumption
     DEF IInv, TypeOK, CallsTypeOK, EvalSha, ReplyLost, RunScript, Script,
         BucketAssumption, CallAssumption
<1>3. Script(clock, price) /\ clock' = clock
  BY <1>2 DEF EvalSha, ReplyLost, RunScript, Answered, NotAnswered
<1>4. have \in 0..Full /\ Full \in Nat /\ Full' = Full
  BY <1>2, RefilledRange, UnitTypes DEF IInv, Full
<1>5. Live'
  <2>1. CASE RefillRate > 0
    <3>1. expire_at' = clock + TimeToLive /\ TimeToLive \in Nat
      BY <1>3, <2>1, TimeToLiveEnough DEF Script, Expiry, TimeToLive
    <3>2. TimeToLive # 0
      <4>1. RefillRate * TimeToLive \in Nat /\ RefillRate * (MaxDelay + 2 * MaxSkew) \in Nat
        BY <3>1, NatProduct, BucketAssumption, CallAssumption
           DEF BucketAssumption, CallAssumption
      <4>2. RefillRate * TimeToLive > 0
        BY <4>1, <2>1, TimeToLiveEnough, UnitTypes
      <4> QED BY <4>2, <3>1, BucketAssumption, CallAssumption
                 DEF BucketAssumption, CallAssumption
    <3> QED BY <3>1, <3>2, <1>2, <1>3 DEF Live
  <2>2. CASE ~(RefillRate > 0)
    BY <2>2, <1>3, BucketAssumption, CallAssumption
       DEF Script, Expiry, Never, Live, IInv, TypeOK, CallsTypeOK,
           BucketAssumption, CallAssumption
  <2> QED BY <2>1, <2>2
<1>6. Level' = tokens'
  <2>1. last_refill_ms' = clock /\ tokens' \in 0..Full
    BY <1>3, <1>4 DEF Script, IInv, TypeOK, CallsTypeOK
  <2>2. (IF clock' > last_refill_ms' THEN clock' - last_refill_ms' ELSE 0) = 0
    BY <2>1, <1>2, <1>3
  <2>3. tokens' + RefillRate * 0 = tokens'
    <3>1. RefillRate * 0 = 0
      BY BucketAssumption, CallAssumption DEF BucketAssumption, CallAssumption
    <3>2. tokens' \in Nat
      BY <2>1, <1>4
    <3> QED BY <3>1, <3>2
  <2>4. Level' = IF tokens' < Full THEN tokens' ELSE Full
    BY <2>2, <2>3, <1>4, <1>5 DEF Level, Refilled
  <2> QED BY <2>1, <2>4, <1>4
<1>7. Level = have
  BY DEF Level
<1>8. verdict'.price = price /\ verdict'.allowed = (have >= price)
  BY <1>3 DEF Script
<1>9. price \in Prices
  BY <1>1 DEF IInv, StampsInv, Prices
<1>10. price \in Nat \ {0}
  BY <1>1, UnitTypes DEF Calls
<1> HIDE DEF have, price
<1>11. CASE have >= price
  <2>1. tokens' = have - price /\ verdict'.price = price /\ verdict'.allowed = TRUE
    BY <1>3, <1>8, <1>11 DEF Script, have
  <2>2. Eager!Admit(price)
    BY <2>1, <1>4, <1>6, <1>7, <1>10, <1>11 DEF Eager!Admit
  <2> QED BY <2>2, <1>9
<1>12. CASE ~(have >= price)
  <2>1. tokens' = have
    BY <1>3, <1>12 DEF Script, have
  <2>3. verdict'.allowed = FALSE
    <3>1. verdict'.allowed \in BOOLEAN
      BY DEF IInv, TypeOK, CallsTypeOK, Verdicts
    <3>2. verdict'.allowed # TRUE
      BY <1>8, <1>12
    <3> QED BY <3>1, <3>2
  <2>2. Eager!Refuse(price)
    <3>1. price > Level
      BY <1>4, <1>7, <1>10, <1>12
    <3>2. Level' = Level
      BY <2>1, <1>6, <1>7
    <3>3. [price |-> verdict'.price, allowed |-> verdict'.allowed]
            = [price |-> price, allowed |-> FALSE]
      BY <1>8, <2>3
    <3> QED BY <3>1, <3>2, <3>3 DEF Eager!Refuse
  <2> QED BY <2>2, <1>9
<1> QED BY <1>11, <1>12

(***************************************************************************)
(* ImplementsEagerBucket, for every capacity, rate, cost, number of        *)
(* callers, delay, skew and expiry margin: for as long as time stamps are  *)
(* Redis's time, a request is admitted exactly when a bucket that gains    *)
(* RefillRate at every tick could pay for it.                              *)
(***************************************************************************)
THEOREM RefinesEagerBucket == Spec => ImplementsEagerBucket
<1>1. Init => Eager!EInit
  <2> SUFFICES ASSUME Init PROVE Eager!EInit
    OBVIOUS
  <2>1. ~Live
    BY BucketAssumption, CallAssumption
       DEF Init, CallsInit, Live, BucketAssumption, CallAssumption
  <2> QED BY <2>1 DEF Init, Eager!EInit, Level, Refilled
<1>2. IInv /\ IInv' /\ [Next]_vars => [exact' => Eager!ENext]_(Eager!evars)
  <2> SUFFICES ASSUME IInv, IInv', [Next]_vars, exact'
               PROVE  Eager!ENext \/ UNCHANGED Eager!evars
    OBVIOUS
  <2>1. ASSUME UNCHANGED <<clock, tokens, last_refill_ms, expire_at, verdict>>
        PROVE  UNCHANGED Eager!evars
    BY <2>1 DEF Eager!evars, Level, Refilled, Live, Full
  <2>2. ASSUME NEW c \in Callers, EvalSha(c) \/ ReplyLost(c) PROVE Eager!ENext
    BY <2>2, RunDecides DEF Eager!ENext
  <2>3. ASSUME Tick PROVE Eager!ENext
    <3>1. exact
      BY <2>3 DEF Tick, bucketVars
    <3> QED BY <2>3, <3>1, TickGains DEF Eager!ENext
  <2>4. ASSUME \/ \E c \in Callers : CheckTokenBucket(c) \/ SendFails(c)
               \/ Observe \/ UNCHANGED vars
        PROVE  UNCHANGED Eager!evars
    BY <2>1, <2>4
       DEF CheckTokenBucket, Send, SendFails, NotAnswered, Observe, callVars,
           vars, bucketVars, observer
  <2> QED BY <2>2, <2>3, <2>4 DEF Next
<1> QED BY <1>1, <1>2, Invariance, PTL DEF Spec, ImplementsEagerBucket

-----------------------------------------------------------------------------
(***************************************************************************)
(* What the script reports.                                                *)
(***************************************************************************)
\* The last verdict is about the bucket as it still is.
VerdictInv ==
  /\ ~verdict.allowed => /\ tokens < verdict.price
                         /\ verdict.now_ms = last_refill_ms
                         /\ verdict.retry_after = RetryAfter(verdict.price, tokens)
  /\ expire_at > 0 => verdict.reset_at = ResetAt(last_refill_ms, tokens)

\* Constants, as the arithmetic below uses them.
LEMMA Rates ==
  ASSUME RefillRate > 0
  PROVE  /\ RefillRate \in Nat \ {0} /\ PerSecond \in Nat \ {0}
         /\ RefillRate * PerSecond \in Nat \ {0}
<1>1. RefillRate \in Nat \ {0} /\ PerSecond \in Nat \ {0}
  BY BucketAssumption, CallAssumption DEF BucketAssumption, CallAssumption
<1> QED BY <1>1, Z3

LEMMA RunReports ==
  ASSUME TypeOK, NEW c \in Callers, EvalSha(c) \/ ReplyLost(c)
  PROVE  VerdictInv'
<1> DEFINE now == calls[c].now
           price == Price(calls[c].cost)
           have == Refilled(now)
           left == IF have >= price THEN have - price ELSE have
<1>1. Script(now, price)
  BY DEF EvalSha, ReplyLost, RunScript
<1>2. now \in Nat /\ price \in Nat \ {0}
  <2>1. calls[c] \in Calls
    BY DEF TypeOK, CallsTypeOK
  <2> QED BY <2>1, UnitTypes DEF Calls
<1>3. have \in Nat
  BY <1>2, RefilledRange, UnitTypes
<1>4. /\ tokens' = left /\ last_refill_ms' = now
      /\ verdict'.price = price /\ verdict'.now_ms = now
      /\ verdict'.reset_at = ResetAt(now, left)
      /\ verdict'.allowed = (have >= price)
      /\ verdict'.retry_after = IF have >= price THEN 0 ELSE RetryAfter(price, have)
  BY <1>1 DEF Script
<1> HIDE DEF now, price, have
<1>5. verdict'.reset_at = ResetAt(last_refill_ms', tokens')
  BY <1>4
<1>6. ASSUME ~verdict'.allowed
      PROVE  /\ tokens' < verdict'.price /\ verdict'.now_ms = last_refill_ms'
             /\ verdict'.retry_after = RetryAfter(verdict'.price, tokens')
  <2>1. ~(have >= price)
    BY <1>4, <1>6
  <2>2. tokens' = have /\ verdict'.retry_after = RetryAfter(price, have)
    BY <1>4, <2>1
  <2>3. have < price
    BY <2>1, <1>2, <1>3
  <2> QED BY <2>2, <2>3, <1>4
<1> QED BY <1>5, <1>6 DEF VerdictInv, ResetAt, RetryAfter

LEMMA VerdictInvariance == Spec => []VerdictInv
<1>1. Init => VerdictInv
  BY DEF Init, VerdictInv
<1>2. TypeOK /\ VerdictInv /\ [Next]_vars => VerdictInv'
  <2> SUFFICES ASSUME TypeOK, VerdictInv, [Next]_vars PROVE VerdictInv'
    OBVIOUS
  <2>1. CASE \E c \in Callers : EvalSha(c) \/ ReplyLost(c)
    BY <2>1, RunReports
  <2>2. CASE ~\E c \in Callers : EvalSha(c) \/ ReplyLost(c)
    <3>1. UNCHANGED <<tokens, last_refill_ms, expire_at, verdict>>
      BY <2>2 DEF Next, vars, bucketVars, CheckTokenBucket, SendFails, Tick, Observe
    <3> QED BY <3>1 DEF VerdictInv, ResetAt, RetryAfter
  <2> QED BY <2>1, <2>2
<1> QED BY <1>1, <1>2, TypeCorrect, PTL DEF Spec

\* A bucket that lives gains what its rate gives in the time between stamps.
LEMMA RefilledBy ==
  ASSUME TypeOK, Live, NEW now \in Nat, now >= last_refill_ms
  PROVE  LET more == tokens + RefillRate * (now - last_refill_ms)
         IN Refilled(now) = IF more < Full THEN more ELSE Full
<1>1. last_refill_ms \in Nat
  BY DEF TypeOK
<1>2. (IF now > last_refill_ms THEN now - last_refill_ms ELSE 0) = now - last_refill_ms
  BY <1>1
<1> QED BY <1>2 DEF Refilled

\* d rounded up to seconds of refill: enough after that many seconds, and not
\* yet one second earlier.
LEMMA SecondsOfRefill ==
  ASSUME RefillRate > 0, NEW d \in Nat \ {0}, NEW e \in Int
  PROVE  LET s == CeilDiv(d, RefillRate * PerSecond)
         IN /\ s \in Nat
            /\ e >= s * PerSecond => RefillRate * e >= d
            /\ e <= (s - 1) * PerSecond => RefillRate * e < d
<1> DEFINE b == RefillRate * PerSecond
           s == CeilDiv(d, b)
<1>1. b \in Nat \ {0} /\ RefillRate \in Nat \ {0} /\ PerSecond \in Nat \ {0}
  BY Rates
<1>2. s \in Nat /\ s * b >= d /\ (s - 1) * b < d
  <2>1. \A x, y \in Nat \ {0} : /\ CeilDiv(x, y) \in Nat /\ CeilDiv(x, y) * y >= x
                                /\ (CeilDiv(x, y) - 1) * y < x
    BY Z3 DEF CeilDiv
  <2> HIDE DEF b
  <2> QED BY <1>1, <2>1
<1> HIDE DEF s
<1>3. \A k \in Int : RefillRate * (k * PerSecond) = k * b
  BY <1>1, Z3
<1>4. \A x, y \in Int : x <= y => RefillRate * x <= RefillRate * y
  BY <1>1, ProductMonotone
<1>5. s * PerSecond \in Int /\ (s - 1) * PerSecond \in Int /\ RefillRate * e \in Int
      /\ s * b \in Int /\ (s - 1) * b \in Int
  BY <1>1, <1>2, Z3
<1>6. e >= s * PerSecond => RefillRate * e >= s * b
  BY <1>2, <1>3, <1>4, <1>5
<1>7. e <= (s - 1) * PerSecond => RefillRate * e <= (s - 1) * b
  BY <1>2, <1>3, <1>4, <1>5
<1> HIDE DEF b
<1> QED BY <1>2, <1>5, <1>6, <1>7 DEF s, b

\* The request a script runs for, and its verdict.
LEMMA RunVerdict ==
  ASSUME TypeOK, NEW c \in Callers, EvalSha(c)
  PROVE  /\ calls[c].now \in Nat /\ Price(calls[c].cost) \in Nat
         /\ Refilled(calls[c].now) \in Nat
         /\ verdict'.allowed <=> Refilled(calls[c].now) >= Price(calls[c].cost)
<1>1. calls[c] \in Calls
  BY DEF TypeOK, CallsTypeOK
<1>2. calls[c].now \in Nat /\ Price(calls[c].cost) \in Nat
  BY <1>1, UnitTypes DEF Calls
<1>3. Refilled(calls[c].now) \in Nat
  BY <1>2, RefilledRange, UnitTypes
<1>4. verdict'.allowed = (Refilled(calls[c].now) >= Price(calls[c].cost))
  BY DEF EvalSha, RunScript, Script
<1> QED BY <1>2, <1>3, <1>4

(***************************************************************************)
(* A refused request that comes back after retry_after, with no other in   *)
(* between, is admitted: RetryAfterEnough (token_bucket.lua 36-38).        *)
(***************************************************************************)
THEOREM RetryAfterSuffices == Spec => RetryAfterEnough
<1> DEFINE Suffices ==
      \A c \in Callers :
        ( /\ EvalSha(c) /\ RefillRate > 0
          /\ ~verdict.allowed /\ verdict.price <= Full
          /\ Price(calls[c].cost) <= verdict.price
          /\ calls[c].now >= verdict.now_ms + verdict.retry_after * PerSecond )
        => verdict'.allowed
<1>1. TypeOK /\ VerdictInv => Suffices
  <2> SUFFICES ASSUME TypeOK, VerdictInv, NEW c \in Callers,
                      EvalSha(c), RefillRate > 0,
                      ~verdict.allowed, verdict.price <= Full,
                      Price(calls[c].cost) <= verdict.price,
                      calls[c].now >= verdict.now_ms + verdict.retry_after * PerSecond
               PROVE  verdict'.allowed
    OBVIOUS
  <2> DEFINE now == calls[c].now
             price == Price(calls[c].cost)
             asked == verdict.price
             d == asked - tokens
             wait == CeilDiv(d, RefillRate * PerSecond)
  <2>1. /\ now \in Nat /\ price \in Nat /\ Refilled(now) \in Nat
        /\ verdict'.allowed <=> Refilled(now) >= price
    BY RunVerdict
  <2>2. asked \in Nat /\ tokens \in Nat /\ Full \in Nat /\ last_refill_ms \in Nat
    BY UnitTypes DEF TypeOK, Verdicts
  <2>3. tokens < asked /\ verdict.now_ms = last_refill_ms /\ verdict.retry_after = wait
    BY DEF VerdictInv, RetryAfter
  <2>4. d \in Nat \ {0}
    BY <2>2, <2>3
  <2>5. CASE ~Live
    BY <2>1, <2>2, <2>5 DEF Refilled
  <2>6. CASE Live
    <3> DEFINE e == now - last_refill_ms
    <3>1. e \in Int /\ wait \in Nat /\ (e >= wait * PerSecond => RefillRate * e >= d)
      BY <2>1, <2>2, <2>4, SecondsOfRefill
    <3> HIDE DEF wait, d
    <3>2. wait * PerSecond \in Nat
      BY <3>1, NatProduct, Rates
    <3>3. e >= wait * PerSecond /\ now >= last_refill_ms
      BY <2>1, <2>2, <2>3, <3>1, <3>2
    <3>4. RefillRate * e >= d /\ RefillRate * e \in Int
      BY <3>1, <3>3, Rates
    <3>5. Refilled(now) = IF tokens + RefillRate * e < Full THEN tokens + RefillRate * e ELSE Full
      BY <2>1, <2>6, <3>3, RefilledBy
    <3> DEFINE gain == RefillRate * e
    <3>6. gain \in Int /\ gain >= asked - tokens
      BY <3>4 DEF d
    <3> HIDE DEF e, gain
    <3>7. Refilled(now) >= asked
      BY <2>2, <3>5, <3>6 DEF gain
    <3> QED BY <2>1, <2>2, <3>7
  <2> QED BY <2>5, <2>6
<1> QED BY <1>1, TypeCorrect, VerdictInvariance, PTL DEF RetryAfterEnough

(***************************************************************************)
(* reset_at is right to the second: ResetAtWithinASecond (token_bucket.lua *)
(* 47-52).                                                                 *)
(***************************************************************************)
THEOREM ResetAtIsRight == Spec => ResetAtWithinASecond
<1> DEFINE Right ==
      \A c \in Callers :
        ( /\ EvalSha(c) /\ RefillRate > 0 /\ Live
          /\ Price(calls[c].cost) = Full
          /\ calls[c].now >= last_refill_ms )
        => /\ (calls[c].now >= (verdict.reset_at + 1) * PerSecond
                 => verdict'.allowed)
           /\ (( /\ tokens < Full
                 /\ calls[c].now <= (verdict.reset_at - 1) * PerSecond )
                 => ~verdict'.allowed)
<1>1. TypeOK /\ VerdictInv => Right
  <2> SUFFICES ASSUME TypeOK, VerdictInv, NEW c \in Callers,
                      EvalSha(c), RefillRate > 0, Live,
                      Price(calls[c].cost) = Full, calls[c].now >= last_refill_ms
               PROVE  /\ (calls[c].now >= (verdict.reset_at + 1) * PerSecond
                            => verdict'.allowed)
                      /\ (( /\ tokens < Full
                            /\ calls[c].now <= (verdict.reset_at - 1) * PerSecond )
                            => ~verdict'.allowed)
    OBVIOUS
  <2> DEFINE now == calls[c].now
             e == now - last_refill_ms
             gain == RefillRate * e
             sec == last_refill_ms \div PerSecond
             reset == verdict.reset_at
  <2>1. now \in Nat /\ (verdict'.allowed <=> Refilled(now) >= Full)
    BY RunVerdict
  <2>2. /\ tokens \in Nat /\ tokens <= Full /\ Full \in Nat /\ last_refill_ms \in Nat
        /\ clock \in Nat /\ expire_at \in Nat
    BY UnitTypes, CallAssumption DEF TypeOK, CallsTypeOK, CallAssumption
  <2>3. PerSecond \in Nat \ {0} /\ RefillRate \in Nat \ {0}
    BY Rates
  <2>4. e \in Nat /\ gain \in Nat
    BY <2>1, <2>2, <2>3, NatProduct
  <2>5. Refilled(now) = IF tokens + gain < Full THEN tokens + gain ELSE Full
    BY <2>1, RefilledBy
  <2>6. /\ sec \in Nat /\ sec * PerSecond <= last_refill_ms
        /\ last_refill_ms < sec * PerSecond + PerSecond /\ sec * PerSecond \in Nat
    <3>1. \A x \in Nat, n \in Nat \ {0} :
            /\ x \div n \in Nat /\ (x \div n) * n <= x
            /\ x < (x \div n) * n + n /\ (x \div n) * n \in Nat
      BY Z3
    <3> QED BY <2>2, <2>3, <3>1
  <2>7. reset = ResetAt(last_refill_ms, tokens)
    BY <2>2 DEF VerdictInv, Live
  <2> HIDE DEF gain
  <2>8. verdict'.allowed <=> tokens + gain >= Full
    BY <2>1, <2>2, <2>4, <2>5
  <2>9. CASE tokens = Full
    BY <2>2, <2>4, <2>8, <2>9
  <2>10. CASE tokens < Full
    <3> DEFINE d == Full - tokens
               s == CeilDiv(d, RefillRate * PerSecond)
    <3>1. d \in Nat \ {0}
      BY <2>2, <2>10
    <3>2. /\ s \in Nat
          /\ e >= s * PerSecond => gain >= d
          /\ e <= (s - 1) * PerSecond => gain < d
      BY <2>4, <3>1, SecondsOfRefill DEF gain
    <3>3. reset = sec + s
      BY <2>7, <2>10 DEF ResetAt
    <3> HIDE DEF s
    <3>4. /\ (sec + s + 1) * PerSecond = sec * PerSecond + s * PerSecond + PerSecond
          /\ (sec + s - 1) * PerSecond = sec * PerSecond + (s - 1) * PerSecond
          /\ s * PerSecond \in Int /\ (s - 1) * PerSecond \in Int
      <4>1. \A x, y, n \in Int :
              /\ (x + y + 1) * n = x * n + y * n + n
              /\ (x + y - 1) * n = x * n + (y - 1) * n
              /\ y * n \in Int /\ (y - 1) * n \in Int
        BY Z3
      <4> QED BY <2>3, <2>6, <3>2, <4>1
    <3> HIDE DEF sec, e
    <3>5. now = e + last_refill_ms
      BY <2>1, <2>2 DEF e
    <3>6. now >= (reset + 1) * PerSecond => e >= s * PerSecond
      BY <2>2, <2>3, <2>4, <2>6, <3>3, <3>4, <3>5
    <3>7. now <= (reset - 1) * PerSecond => e <= (s - 1) * PerSecond
      <4> DEFINE x == (s - 1) * PerSecond
                 y == sec * PerSecond
                 z == (reset - 1) * PerSecond
      <4>1. z = y + x
        <5> DEFINE k == sec + s
        <5>1. (k - 1) * PerSecond = y + x
          <6>1. k - 1 = sec + (s - 1)
            BY <2>6, <3>2
          <6> HIDE DEF k
          <6> QED BY <3>4, <6>1
        <5>2. reset = k /\ k \in Int
          BY <2>6, <3>2, <3>3
        <5> HIDE DEF k, x, y
        <5> QED BY <2>3, <5>1, <5>2
      <4>2. x \in Int /\ y \in Nat /\ y <= last_refill_ms
        BY <2>6, <3>4
      <4> HIDE DEF x, y, z, reset
      <4>3. now <= z => e <= x
        BY <2>1, <2>2, <2>4, <3>5, <4>1, <4>2
      <4> QED BY <4>3 DEF x, z
    <3>8. (gain >= d => tokens + gain >= Full) /\ (gain < d => ~(tokens + gain >= Full))
      BY <2>2, <2>4
    <3> HIDE DEF d
    <3> QED BY <2>8, <3>2, <3>6, <3>7, <3>8
  <2> QED BY <2>2, <2>9, <2>10
<1> QED BY <1>1, TypeCorrect, VerdictInvariance, PTL DEF ResetAtWithinASecond
=============================================================================
