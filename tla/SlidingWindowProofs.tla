------------------------ MODULE SlidingWindowProofs ------------------------
(***************************************************************************)
(* Proofs about SlidingWindow, for every limit, window, number of callers, *)
(* set of costs, delay, skew and number of retries.                        *)
(***************************************************************************)
EXTENDS SlidingWindow, TLAPS

(***************************************************************************)
(* The inductive invariant.                                                *)
(***************************************************************************)
\* The first second of window k.
Start(k) == Window * k

\* How far ahead of Redis's clock a stamp so far was, and how late.
Lead == IF exact THEN 0 ELSE MaxSkew
Lag == IF exact THEN 0 ELSE MaxDelay + MaxSkew

\* The keys are in no window of the future, and outlive it by another one.
KeysInv ==
  /\ Start(idx) <= clock + Lead
  /\ expire_at > 0 => Start(idx) + 2 * Window <= expire_at + Lead
  /\ expire_at = 0 => idx = 0 /\ \A w \in Windows : charged[w] = 0

\* The keys hold what the history says was charged.
ChargedInv ==
  /\ charged[idx] = curr
  /\ \A w \in Windows : w > idx => charged[w] = 0
  /\ WindowNeverOvercharged
  /\ exact => prev = IF idx - 1 \in Windows THEN charged[idx - 1] ELSE 0

\* reset_at is the end of a window.
ResetInv == verdict.price > 0 => \E w \in Windows : verdict.reset_at = Start(w) + Window

\* A count c that grew while the window before it held p: p had a weight of at
\* least one second.
Tight(p, c) == c > 0 => p + Window * c <= Window * Limit

\* What was admitted since mark is in the counts of the window a of the first
\* admission and of the two windows after it.
SpentFrom(a, first) ==
  /\ a <= idx
  /\ mark < Start(a) + Window + Lag
  /\ \/ idx = a /\ spent <= curr
     \/ idx = a + 1 /\ spent <= prev + curr /\ Tight(prev, curr)
     \/ idx = a + 2 /\ spent <= first + prev + curr /\ Tight(first, prev) /\ Tight(prev, curr)

SpentWhile ==
  spent > 0 /\ clock < mark + Window =>
    \E a \in Windows, first \in 0..Limit : SpentFrom(a, first)

\* The keys outlive the measurement of what they admitted.
SpentInv == RollingBound /\ SpentWhile /\ (spent > 0 => mark + 2 * Window <= expire_at)

IInv == TypeOK /\ StampsInv /\ KeysInv /\ ChargedInv /\ ResetInv /\ SpentInv

-----------------------------------------------------------------------------
(***************************************************************************)
(* Arithmetic.                                                             *)
(***************************************************************************)
LEMMA Constants ==
  /\ Limit \in Nat \ {0} /\ Window \in Nat \ {0}
  /\ MaxSkew \in Nat /\ MaxDelay \in Nat /\ MaxRetries \in Nat /\ MaxClock \in Nat
  /\ MaxDelay + 2 * MaxSkew <= Window
  /\ MaxSkew + MaxDelay <= MaxClock
  /\ Costs \subseteq Int
BY WindowAssumption, CallAssumption DEF WindowAssumption, CallAssumption

LEMMA StartStep ==
  /\ \A k \in Int : Start(k) \in Int /\ Start(k + 1) = Start(k) + Window
  /\ \A k \in Nat : Start(k) \in Nat
  /\ Start(0) = 0
<1>1. Window \in Nat
  BY Constants
<1> QED BY <1>1, Z3 DEF Start

\* Windows start in their order.
LEMMA StartOrder == \A j, k \in Int : j <= k => Start(j) <= Start(k)
<1>1. Window \in Nat
  BY Constants
<1>2. \A r \in Nat, j, k \in Int : j <= k => r * j <= r * k
  BY Z3
<1> QED BY <1>1, <1>2 DEF Start

\* The window of a time and the time's place in it.
LEMMA InItsWindow ==
  \A t \in Int : /\ t \div Window \in Int /\ t % Window \in 0..(Window - 1)
                 /\ t = Start(t \div Window) + (t % Window)
<1>1. Window \in Nat \ {0}
  BY Constants
<1>2. \A n \in Nat \ {0}, t \in Int : /\ t \div n \in Int /\ t % n \in 0..(n - 1)
                                      /\ t = n * (t \div n) + (t % n)
  BY Z3
<1> QED BY <1>1, <1>2 DEF Start

LEMMA WindowBounds ==
  ASSUME NEW t \in Int
  PROVE  Start(t \div Window) <= t /\ t < Start(t \div Window) + Window
<1> DEFINE w == t \div Window
           e == t % Window
<1>1. w \in Int /\ e \in 0..(Window - 1) /\ t = Start(w) + e
  BY InItsWindow
<1> HIDE DEF w, e
<1>2. Start(w) \in Int /\ Window \in Nat
  BY <1>1, StartStep, Constants
<1> QED BY <1>1, <1>2 DEF w

\* A time is in window k or a later one exactly when window k has started.
LEMMA Started ==
  ASSUME NEW t \in Int, NEW k \in Int
  PROVE  Start(k) <= t <=> k <= t \div Window
<1> DEFINE w == t \div Window
<1>1. w \in Int /\ Start(w) <= t /\ t < Start(w) + Window
  BY InItsWindow, WindowBounds
<1> HIDE DEF w
<1>2. k <= w => Start(k) <= Start(w)
  BY <1>1, StartOrder
<1>3. ~(k <= w) => Start(w) + Window <= Start(k)
  <2>1. Start(w + 1) = Start(w) + Window
    BY <1>1, StartStep
  <2>2. ~(k <= w) => Start(w + 1) <= Start(k)
    BY <1>1, StartOrder
  <2> QED BY <2>1, <2>2
<1> QED BY <1>1, <1>2, <1>3, StartStep DEF w

\* Times that are not negative and up to MaxClock + MaxSkew are in Windows.
LEMMA WindowOfTime ==
  ASSUME NEW t \in Nat, t <= MaxClock + MaxSkew
  PROVE  t \div Window \in Windows
<1> DEFINE last == MaxClock + MaxSkew
           w == t \div Window
           z == last \div Window
<1>1. last \in Int /\ t \in Int
  BY Constants
<1>2. w \in Int /\ z \in Int /\ Start(w) <= t
  BY <1>1, InItsWindow, WindowBounds
<1>3. 0 <= w
  BY <1>1, Started, StartStep
<1>4. Start(w) <= last
  BY <1>2, <1>1, StartStep
<1>5. w <= z
  BY <1>4, <1>1, <1>2, Started
<1> QED BY <1>2, <1>3, <1>5 DEF Windows

LEMMA Products ==
  /\ \A a, b \in Nat : a * b \in Nat
  /\ \A a, b \in Int : a * b \in Int /\ a * b = b * a
  /\ \A n, a, b \in Int : n * (a + b) = n * a + n * b
BY Z3

LEMMA ProductOrder ==
  /\ \A n \in Nat, a, b \in Int : a <= b => n * a <= n * b
  /\ \A n \in Nat \ {0}, a, b \in Int : n * a <= n * b => a <= b
BY Z3

\* A previous count p with e seconds of the window gone weighs at least one
\* second: what is admitted on top of c is Tight.
LEMMA Weight ==
  ASSUME NEW p \in Nat, NEW c \in Nat, NEW x \in Nat, NEW e \in 0..(Window - 1),
         p * (Window - e) + c * Window + x * Window <= Limit * Window
  PROVE  p + Window * (c + x) <= Window * Limit
<1>1. Window \in Nat /\ Limit \in Nat /\ Window - e \in Nat /\ 1 <= Window - e
  BY Constants
<1>2. p * 1 <= p * (Window - e) /\ p * (Window - e) \in Nat
  BY <1>1, ProductOrder, Products
<1>3. /\ Window * (c + x) = Window * c + Window * x
      /\ c * Window = Window * c /\ x * Window = Window * x
      /\ Limit * Window = Window * Limit
      /\ Window * c \in Nat /\ Window * x \in Nat /\ Window * Limit \in Nat
  BY <1>1, Products
<1> QED BY <1>2, <1>3

-----------------------------------------------------------------------------
(***************************************************************************)
(* The calls.                                                              *)
(***************************************************************************)
LEMMA IdleIsCall == Idle \in Calls
BY Constants DEF Idle, Calls

LEMMA SendKeeps ==
  ASSUME CallsTypeOK, StampsInv, NEW c \in Callers, Send(c)
  PROVE  CallsTypeOK' /\ StampsInv'
<1>1. PICK cost \in Costs, skew \in Skews : calls' = [calls EXCEPT ![c] =
         [pc |-> "sent", now |-> clock + skew, cost |-> cost,
          since |-> clock, retries |-> MaxRetries]]
  BY DEF Send
<1> DEFINE call == [pc |-> "sent", now |-> clock + skew, cost |-> cost,
                    since |-> clock, retries |-> MaxRetries]
<1>2. /\ clock \in Nat /\ skew \in Int /\ -MaxSkew <= skew /\ skew <= MaxSkew
      /\ clock + skew \in Nat /\ clock' = clock
  BY Constants DEF CallsTypeOK, Skews, Send
<1>3. call \in Calls
  BY <1>2, Constants DEF Calls
<1>4. CallsTypeOK'
  BY <1>1, <1>2, <1>3 DEF CallsTypeOK
<1>5. calls'[c] = call /\ \A d \in Callers : d # c => calls'[d] = calls[d]
  BY <1>1 DEF CallsTypeOK
<1>6. /\ call.cost \in Costs /\ call.since <= clock' /\ clock' <= call.since + MaxDelay
      /\ call.since - MaxSkew <= call.now /\ call.now <= call.since + MaxSkew
  BY <1>2, Constants
<1> QED BY <1>2, <1>4, <1>5, <1>6 DEF StampsInv

LEMMA EndKeeps ==
  ASSUME CallsTypeOK, StampsInv, NEW c \in Callers, Answered(c) \/ NotAnswered(c)
  PROVE  CallsTypeOK' /\ StampsInv' /\ clock' = clock
<1>1. calls[c] \in Calls /\ calls[c].pc = "sent" /\ clock' = clock
  BY DEF CallsTypeOK, Answered, NotAnswered
<1>2. PICK call \in Calls :
        /\ calls' = [calls EXCEPT ![c] = call]
        /\ call.pc = "sent" => call.now = calls[c].now /\ call.cost = calls[c].cost
                               /\ call.since = calls[c].since
  <2>1. Idle.pc # "sent" /\ Idle \in Calls
    BY IdleIsCall DEF Idle
  <2>2. CASE Answered(c) \/ ~(calls[c].retries > 0)
    BY <2>1, <2>2 DEF Answered, NotAnswered, AfterFailure
  <2>3. CASE NotAnswered(c) /\ calls[c].retries > 0
    <3> DEFINE call == [pc |-> "sent", now |-> calls[c].now, cost |-> calls[c].cost,
                        since |-> calls[c].since, retries |-> calls[c].retries - 1]
    <3>1. calls' = [calls EXCEPT ![c] = call]
      BY <2>3 DEF NotAnswered, AfterFailure
    <3>2. call \in Calls
      BY <1>1, <2>3, Constants DEF Calls
    <3> QED BY <3>1, <3>2
  <2> QED BY <2>2, <2>3
<1>3. calls'[c] = call /\ \A d \in Callers : d # c => calls'[d] = calls[d]
  BY <1>2 DEF CallsTypeOK
<1>4. CallsTypeOK'
  BY <1>1, <1>2 DEF CallsTypeOK
<1> QED BY <1>1, <1>2, <1>3, <1>4 DEF StampsInv

LEMMA TimeKeeps ==
  ASSUME CallsTypeOK, StampsInv, TimePasses
  PROVE  CallsTypeOK' /\ StampsInv' /\ clock' = clock + 1
<1>1. clock \in Nat /\ clock' = clock + 1 /\ clock < MaxClock /\ MaxSkew <= clock /\ calls' = calls
  BY Constants DEF CallsTypeOK, TimePasses
<1>2. CallsTypeOK'
  BY <1>1, Constants DEF CallsTypeOK
<1>3. \A c \in Callers : calls[c].since \in Nat /\ calls[c].now \in Nat
  BY DEF CallsTypeOK, Calls
<1> QED BY <1>1, <1>2, <1>3, Constants DEF StampsInv, TimePasses

\* The stamp and the price a script is run with.
LEMMA StampFacts ==
  ASSUME CallsTypeOK, StampsInv, NEW c \in Callers, calls[c].pc = "sent"
  PROVE  /\ calls[c].now \in Nat
         /\ clock - (MaxDelay + MaxSkew) <= calls[c].now
         /\ calls[c].now <= clock + MaxSkew
         /\ calls[c].now \div Window \in Windows
         /\ EffectiveCost(calls[c].cost) \in Prices
         /\ EffectiveCost(calls[c].cost) \in Nat \ {0}
<1>1. /\ calls[c].now \in Nat /\ calls[c].since \in Nat /\ clock \in Nat
      /\ clock <= MaxClock
  BY Constants DEF CallsTypeOK, Calls
<1>2. /\ calls[c].cost \in Costs
      /\ calls[c].since <= clock /\ clock <= calls[c].since + MaxDelay
      /\ calls[c].since - MaxSkew <= calls[c].now
      /\ calls[c].now <= calls[c].since + MaxSkew
  BY DEF StampsInv
<1>3. /\ clock - (MaxDelay + MaxSkew) <= calls[c].now
      /\ calls[c].now <= clock + MaxSkew
      /\ calls[c].now <= MaxClock + MaxSkew
  BY <1>1, <1>2, Constants
<1>4. calls[c].now \div Window \in Windows
  BY <1>1, <1>3, WindowOfTime
<1>5. EffectiveCost(calls[c].cost) \in Nat \ {0}
  <2>1. calls[c].cost \in Int
    BY <1>2, Constants
  <2> QED BY <2>1 DEF EffectiveCost
<1> QED BY <1>1, <1>2, <1>3, <1>4, <1>5 DEF Prices

-----------------------------------------------------------------------------
(***************************************************************************)
(* The script.                                                             *)
(***************************************************************************)
LEMMA CountTypes ==
  ASSUME TypeOK, NEW w
  PROVE  PrevCount(w) \in 0..Limit /\ CurrCount(w) \in 0..Limit
<1>1. 0 \in 0..Limit
  BY Constants
<1> QED BY <1>1 DEF TypeOK, PrevCount, CurrCount

LEMMA EstimateFacts ==
  ASSUME TypeOK, NEW now \in Nat, NEW price \in Nat
  PROVE  /\ Estimate(Window, now) \in Nat
         /\ Estimate(Window, now) + price * Window <= Limit * Window =>
              PrevCount(now \div Window) + Window * (CurrCount(now \div Window) + price)
                <= Window * Limit
<1> DEFINE w == now \div Window
           e == now % Window
           p == PrevCount(w)
           c == CurrCount(w)
<1>1. p \in Nat /\ c \in Nat
  BY CountTypes
<1>2. w \in Int /\ e \in 0..(Window - 1) /\ Window \in Nat /\ Window - e \in Nat
  BY InItsWindow, Constants
<1>3. Estimate(Window, now) = p * (Window - e) + c * Window
  BY DEF Estimate
<1> HIDE DEF w, e, p, c
<1>4. p * (Window - e) \in Nat /\ c * Window \in Nat
  BY <1>1, <1>2, Products
<1>5. p * (Window - e) + c * Window + price * Window <= Limit * Window =>
        p + Window * (c + price) <= Window * Limit
  BY <1>1, <1>2, Weight
<1> QED BY <1>3, <1>4, <1>5 DEF w, p, c

\* What the floor of what is left is.
LEMMA LeftFacts ==
  ASSUME NEW x \in Nat
  PROVE  Left(Limit, Window, x) \in 0..Limit
<1> DEFINE y == Limit * Window - x
           r == y \div Window
<1>1. Limit * Window \in Nat /\ Limit * Window = Window * Limit /\ Limit \in Nat
  BY Products, Constants
<1>2. y \in Int /\ y <= Start(Limit)
  BY <1>1 DEF Start
<1> HIDE DEF y
<1>3. r \in Int /\ Start(r) <= y
  BY <1>2, InItsWindow, WindowBounds
<1>4. r <= Limit
  <2>1. Start(r) <= Start(Limit)
    BY <1>1, <1>2, <1>3, StartStep
  <2> HIDE DEF r
  <2> QED BY <2>1, <1>1, <1>3, ProductOrder, Constants DEF Start
<1> QED BY <1>1, <1>3, <1>4 DEF Left, y

Verdicts == [price : Nat, allowed : BOOLEAN, remaining : 0..Limit,
             reset_at : Nat, retry_after : 0..Window]

\* What a run of the script leaves in the keys and answers.
LEMMA ScriptFacts ==
  ASSUME TypeOK, NEW now \in Nat, NEW price \in Nat \ {0}, NEW w, w = now \div Window,
         w \in Windows, Script(Limit, Window, now, price)
  PROVE  /\ prev' = PrevCount(w) /\ prev' \in 0..Limit
         /\ curr' = CurrCount(w) + Admitted /\ curr' \in 0..Limit
         /\ Admitted \in Nat
         /\ Admitted > 0 => prev' + Window * curr' <= Window * Limit
         /\ Admitted > 0 => expire_at' = clock + 2 * Window
         /\ Admitted = 0 \/ Admitted = price
         /\ idx' = IF RollsOver(w) THEN w ELSE idx
         /\ RollsOver(w) => expire_at' = clock + 2 * Window
         /\ expire_at' = expire_at \/ expire_at' = clock + 2 * Window
         /\ verdict' \in Verdicts
         /\ verdict'.price = price
         /\ verdict'.reset_at = Start(w) + Window
         /\ verdict'.allowed <=> Estimate(Window, now) + price * Window <= Limit * Window
         /\ Admitted = IF verdict'.allowed THEN price ELSE 0
<1> DEFINE est == Estimate(Window, now)
           allowed == est + price * Window <= Limit * Window
           taken == IF allowed THEN price ELSE 0
           left == Left(Limit, Window, est + (IF allowed THEN price * Window ELSE 0))
           wait == IF allowed THEN 0 ELSE Window - (now % Window)
<1>1. /\ est \in Nat
      /\ allowed => PrevCount(w) + Window * (CurrCount(w) + price) <= Window * Limit
      /\ PrevCount(w) \in 0..Limit /\ CurrCount(w) \in 0..Limit
      /\ Limit \in Nat /\ Window \in Nat \ {0} /\ clock \in Nat
  BY EstimateFacts, CountTypes, Constants DEF TypeOK, CallsTypeOK
<1>2. allowed \in BOOLEAN
  OBVIOUS
<1>3. verdict' = [price |-> price, allowed |-> allowed, remaining |-> left,
                  reset_at |-> w * Window + Window, retry_after |-> wait]
  BY DEF Script
<1>4. left \in 0..Limit
  <2>1. price * Window \in Nat
    BY Products, Constants
  <2>2. est + (IF allowed THEN price * Window ELSE 0) \in Nat
    BY <1>1, <2>1
  <2> QED BY <2>2, LeftFacts
<1>5. wait \in 0..Window
  BY <1>1, InItsWindow
<1>6. w \in Nat /\ w * Window = Start(w) /\ Start(w) \in Nat
  <2>1. w \in Nat
    BY DEF Windows
  <2> QED BY <2>1, <1>1, Products, StartStep DEF Start
<1> HIDE DEF left, wait, est
<1>7. /\ verdict' \in Verdicts /\ verdict'.price = price
      /\ verdict'.reset_at = Start(w) + Window
  BY <1>1, <1>2, <1>3, <1>4, <1>5, <1>6 DEF Verdicts
<1>8. verdict'.allowed <=> allowed
  BY <1>2, <1>3
<1>9. Admitted = taken /\ Admitted = IF verdict'.allowed THEN price ELSE 0
  BY <1>7, <1>8 DEF Admitted
<1>10. /\ prev' = PrevCount(w) /\ curr' = CurrCount(w) + taken
       /\ idx' = IF RollsOver(w) THEN w ELSE idx
       /\ expire_at' = IF RollsOver(w) \/ allowed THEN clock + 2 * Window ELSE expire_at
  BY DEF Script, est, TimeToLive
<1> HIDE DEF allowed
<1>11. taken > 0 => allowed
  OBVIOUS
<1>12. allowed => PrevCount(w) + Window * (CurrCount(w) + taken) <= Window * Limit
  BY <1>1
<1>13. CurrCount(w) + taken <= Limit
  <2>1. CASE allowed
    <3> DEFINE c == CurrCount(w) + price
    <3>1. c \in Nat /\ PrevCount(w) \in Nat /\ Window * c \in Int /\ Window * Limit \in Int
      BY <1>1, Products
    <3>2. PrevCount(w) + Window * c <= Window * Limit
      BY <1>1, <2>1
    <3> HIDE DEF c
    <3>3. Window * c <= Window * Limit
      BY <3>1, <3>2
    <3>4. c <= Limit
      BY <3>1, <3>3, <1>1, ProductOrder
    <3> QED BY <3>4, <2>1 DEF c
  <2>2. CASE ~allowed
    BY <1>1, <2>2
  <2> QED BY <2>1, <2>2
<1>14. taken \in Nat /\ CurrCount(w) + taken \in 0..Limit
  BY <1>1, <1>13
<1> QED BY <1>1, <1>7, <1>8, <1>9, <1>10, <1>11, <1>12, <1>14 DEF est, allowed

-----------------------------------------------------------------------------
(***************************************************************************)
(* A run of the script by a caller, answered or not.                       *)
(***************************************************************************)
LEMMA Types ==
  ASSUME TypeOK
  PROVE  /\ clock \in Nat /\ clock <= MaxClock /\ MaxSkew <= clock
         /\ curr \in Nat /\ curr <= Limit /\ prev \in Nat /\ prev <= Limit
         /\ idx \in Windows /\ idx \in Nat /\ Start(idx) \in Nat
         /\ expire_at \in Nat /\ verdict \in Verdicts
         /\ charged \in [Windows -> Nat] /\ exact \in BOOLEAN
         /\ mark \in Nat /\ mark <= clock /\ spent \in Nat
         /\ Lead \in Nat /\ Lead <= MaxSkew /\ Lag \in Nat /\ Lag <= MaxDelay + MaxSkew
<1>1. clock \in Nat /\ clock <= MaxClock /\ MaxSkew <= clock
  BY Constants DEF TypeOK, CallsTypeOK
<1>2. idx \in Windows /\ idx \in Nat /\ Start(idx) \in Nat
  BY StartStep DEF TypeOK, Windows
<1>3. Lead \in Nat /\ Lead <= MaxSkew /\ Lag \in Nat /\ Lag <= MaxDelay + MaxSkew
  BY Constants DEF Lead, Lag
<1>4. verdict \in Verdicts
  BY DEF TypeOK, Verdicts
<1> QED BY <1>1, <1>2, <1>3, <1>4, Constants DEF TypeOK

\* The stamps of a run, as far as the invariant knows them.
LEMMA RunStamp ==
  ASSUME IInv, NEW c \in Callers, EvalSha(c) \/ ReplyLost(c), NEW now, now = calls[c].now
  PROVE  /\ calls[c].pc = "sent" /\ now \in Nat /\ UNCHANGED <<clock, mark>>
         /\ now <= clock + MaxSkew /\ clock - (MaxDelay + MaxSkew) <= now
         /\ exact' \in BOOLEAN /\ (exact' => exact /\ now = clock)
         /\ now <= clock + Lead' /\ clock <= now + Lag'
         /\ Lead <= Lead' /\ Lag <= Lag' /\ Lead' \in Nat /\ Lag' \in Nat
         /\ Lead' <= MaxSkew /\ Lag' <= MaxDelay + MaxSkew
<1>1. /\ calls[c].pc = "sent" /\ UNCHANGED <<clock, mark>>
      /\ exact' = (exact /\ now = clock)
  BY DEF EvalSha, ReplyLost, RunScript, Answered, NotAnswered
<1>2. /\ now \in Nat /\ now <= clock + MaxSkew /\ clock - (MaxDelay + MaxSkew) <= now
      /\ clock \in Nat
  BY <1>1, StampFacts, Types DEF IInv, TypeOK
<1>3. exact' \in BOOLEAN /\ (exact' => exact /\ now = clock)
  BY <1>1
<1>4. CASE exact'
  <2>1. Lead' = 0 /\ Lag' = 0 /\ Lead = 0 /\ Lag = 0 /\ now = clock
    BY <1>3, <1>4 DEF Lead, Lag
  <2> QED BY <1>1, <1>2, <1>3, <2>1, Constants
<1>5. CASE ~exact'
  <2>1. Lead' = MaxSkew /\ Lag' = MaxDelay + MaxSkew
    BY <1>5 DEF Lead, Lag
  <2>2. Lead <= MaxSkew /\ Lag <= MaxDelay + MaxSkew /\ Lead \in Nat /\ Lag \in Nat
    BY Types DEF IInv
  <2> QED BY <1>1, <1>2, <1>3, <2>1, <2>2, Constants
<1> QED BY <1>3, <1>4, <1>5

\* A missing or older window is always replaced by one that was never charged.
LEMMA RollsForward ==
  ASSUME IInv, NEW c \in Callers, EvalSha(c) \/ ReplyLost(c),
         NEW w, w = calls[c].now \div Window, RollsOver(w)
  PROVE  idx < w \/ (idx = 0 /\ 0 <= w /\ expire_at = 0)
<1> DEFINE now == calls[c].now
<1>1. now \in Nat /\ clock - (MaxDelay + MaxSkew) <= now
  BY RunStamp
<1>2. /\ idx \in Nat /\ Start(idx) \in Nat /\ clock \in Nat /\ expire_at \in Nat
      /\ Lead \in Nat /\ Lead <= MaxSkew /\ idx + 1 \in Int
  BY Types DEF IInv
<1>3. w \in Int /\ now \in Int
  BY <1>1, InItsWindow
<1> HIDE DEF now
<1>4. CASE expire_at = 0
  <2>1. idx = 0
    BY <1>4 DEF IInv, KeysInv
  <2>2. Start(0) <= now
    BY <1>1, StartStep
  <2>3. 0 <= w
    BY <1>3, <2>2, Started DEF now
  <2> QED BY <1>4, <2>1, <2>3
<1>5. CASE expire_at > 0 /\ ~Live
  <2>1. Start(idx) + 2 * Window <= expire_at + Lead /\ expire_at <= clock
    BY <1>2, <1>5 DEF IInv, KeysInv, Live
  <2>2. Start(idx) + Window <= now
    BY <1>1, <1>2, <2>1, Constants
  <2>3. Start(idx + 1) <= now
    BY <1>2, <2>2, StartStep
  <2>4. idx + 1 <= w
    BY <1>2, <1>3, <2>3, Started DEF now
  <2> QED BY <2>4, <1>2, <1>3
<1>6. CASE Live
  BY <1>6 DEF RollsOver
<1> QED BY <1>2, <1>4, <1>5, <1>6

\* Where the keys are after a run.
LEMMA RunTimes ==
  ASSUME IInv, NEW c \in Callers, EvalSha(c) \/ ReplyLost(c),
         NEW w, w = calls[c].now \div Window
  PROVE  /\ w \in Windows /\ idx' \in Windows
         /\ idx' = IF RollsOver(w) THEN w ELSE idx
         /\ idx <= idx' /\ w <= idx'
         /\ Start(idx') \in Nat /\ Start(idx') <= clock + Lead'
         /\ clock < Start(idx') + Window + Lag'
<1> DEFINE now == calls[c].now
           price == EffectiveCost(calls[c].cost)
<1>1. /\ now \in Nat /\ calls[c].pc = "sent" /\ now <= clock + Lead'
      /\ clock <= now + Lag' /\ Lead <= Lead' /\ Lead' \in Nat /\ Lag' \in Nat
  BY RunStamp
<1>2. w \in Windows /\ price \in Nat \ {0} /\ w \in Nat
  BY <1>1, StampFacts DEF IInv, TypeOK, Windows
<1>3. Script(Limit, Window, now, price)
  BY DEF EvalSha, ReplyLost, RunScript
<1>4. /\ idx \in Windows /\ idx \in Nat /\ Start(idx) \in Nat /\ clock \in Nat
      /\ Lead \in Nat /\ Start(idx) <= clock + Lead
  BY Types DEF IInv, KeysInv
<1>5. idx' = IF RollsOver(w) THEN w ELSE idx
  BY <1>3 DEF Script
<1>6. Start(w) \in Nat /\ Start(w) <= now /\ now < Start(w) + Window
  BY <1>1, <1>2, WindowBounds, StartStep
<1> HIDE DEF now
<1>7. idx <= idx' /\ w <= idx' /\ idx' \in Windows /\ idx' \in Nat
  <2>1. CASE RollsOver(w)
    BY <1>2, <1>4, <1>5, <2>1, RollsForward DEF now
  <2>2. CASE ~RollsOver(w)
    BY <1>2, <1>4, <1>5, <2>2 DEF RollsOver
  <2> QED BY <2>1, <2>2
<1>8. Start(idx') \in Nat /\ Start(w) <= Start(idx')
  BY <1>2, <1>7, StartStep, StartOrder
<1>9. Start(idx') <= clock + Lead'
  <2> DEFINE lead == Lead'
  <2>1. /\ lead \in Nat /\ now \in Nat /\ now <= clock + lead /\ Lead <= lead
        /\ clock \in Nat
    BY <1>1, <1>4
  <2> HIDE DEF lead
  <2>2. CASE RollsOver(w)
    <3>1. Start(w) <= clock + lead
      BY <2>1, <1>6
    <3> QED BY <3>1, <1>5, <2>2 DEF lead
  <2>3. CASE ~RollsOver(w)
    <3>1. Start(idx) <= clock + lead
      BY <2>1, <1>4
    <3> QED BY <3>1, <1>5, <2>3 DEF lead
  <2> QED BY <2>2, <2>3
<1>10. clock < Start(idx') + Window + Lag'
  <2> DEFINE lag == Lag'
             s == Start(idx')
  <2>1. /\ lag \in Nat /\ now \in Nat /\ clock <= now + lag /\ clock \in Nat
        /\ s \in Nat /\ Start(w) <= s
    BY <1>1, <1>4, <1>8
  <2> HIDE DEF lag, s
  <2>2. clock < s + Window + lag
    BY <2>1, <1>6, Constants
  <2> QED BY <2>2 DEF s, lag
<1> QED BY <1>2, <1>5, <1>7, <1>8, <1>9, <1>10

\* What a run does to the keys and to the history.
LEMMA RunFacts ==
  ASSUME IInv, NEW c \in Callers, EvalSha(c) \/ ReplyLost(c),
         NEW w, w = calls[c].now \div Window
  PROVE  /\ prev' = PrevCount(w) /\ prev' \in 0..Limit
         /\ curr' = CurrCount(w) + Admitted /\ curr' \in 0..Limit
         /\ Admitted \in Nat
         /\ Admitted > 0 => prev' + Window * curr' <= Window * Limit
         /\ Admitted > 0 => expire_at' = clock + 2 * Window
         /\ RollsOver(w) => expire_at' = clock + 2 * Window
         /\ expire_at' = expire_at \/ expire_at' = clock + 2 * Window
         /\ verdict' \in Verdicts
         /\ verdict'.reset_at = Start(w) + Window
         /\ charged' = [charged EXCEPT ![idx'] = @ + Admitted]
         /\ spent' = IF clock < mark + Window THEN spent + Admitted ELSE spent
<1> DEFINE now == calls[c].now
           price == EffectiveCost(calls[c].cost)
<1>1. now \in Nat /\ calls[c].pc = "sent"
  BY RunStamp
<1>2. w \in Windows /\ price \in Nat \ {0}
  BY <1>1, StampFacts DEF IInv, TypeOK
<1>3. Script(Limit, Window, now, price)
  BY DEF EvalSha, ReplyLost, RunScript
<1>4. TypeOK
  BY DEF IInv
<1>5. /\ charged' = [charged EXCEPT ![idx'] = @ + Admitted]
      /\ spent' = IF clock < mark + Window THEN spent + Admitted ELSE spent
  BY DEF EvalSha, ReplyLost, RunScript
<1> HIDE DEF price
<1> QED BY <1>1, <1>2, <1>3, <1>4, <1>5, ScriptFacts

LEMMA RunTypes ==
  ASSUME IInv, NEW c \in Callers, EvalSha(c) \/ ReplyLost(c)
  PROVE  TypeOK' /\ StampsInv'
<1> DEFINE w == calls[c].now \div Window
<1>1. CallsTypeOK' /\ StampsInv' /\ clock' = clock
  BY EndKeeps DEF IInv, TypeOK, EvalSha, ReplyLost
<1>2. idx' \in Windows /\ exact' \in BOOLEAN /\ mark' = mark
  BY RunTimes, RunStamp
<1>3. /\ prev' \in 0..Limit /\ curr' \in 0..Limit /\ Admitted \in Nat
      /\ expire_at' = expire_at \/ expire_at' = clock + 2 * Window
      /\ verdict' \in Verdicts
      /\ charged' = [charged EXCEPT ![idx'] = @ + Admitted]
      /\ spent' = IF clock < mark + Window THEN spent + Admitted ELSE spent
  BY RunFacts
<1> HIDE DEF w
<1>4. /\ clock \in Nat /\ expire_at \in Nat /\ charged \in [Windows -> Nat]
      /\ mark \in Nat /\ mark <= clock /\ spent \in Nat
  BY Types DEF IInv
<1>5. expire_at' \in Nat /\ spent' \in Nat
  BY <1>3, <1>4, Constants
<1>6. charged' \in [Windows -> Nat]
  <2>1. charged[idx'] + Admitted \in Nat
    BY <1>2, <1>3, <1>4
  <2> QED BY <1>2, <1>3, <1>4, <2>1
<1> QED BY <1>1, <1>2, <1>3, <1>4, <1>5, <1>6 DEF TypeOK, Verdicts

LEMMA RunKeys ==
  ASSUME IInv, NEW c \in Callers, EvalSha(c) \/ ReplyLost(c)
  PROVE  KeysInv' /\ expire_at' > 0 /\ ResetInv'
<1> DEFINE w == calls[c].now \div Window
<1>1. /\ w \in Windows /\ idx' = IF RollsOver(w) THEN w ELSE idx
      /\ Start(idx') \in Nat /\ Start(idx') <= clock + Lead'
  BY RunTimes
<1>2. /\ RollsOver(w) => expire_at' = clock + 2 * Window
      /\ expire_at' = expire_at \/ expire_at' = clock + 2 * Window
      /\ verdict'.reset_at = Start(w) + Window
  BY RunFacts
<1>3. Lead <= Lead' /\ Lead' \in Nat /\ clock' = clock
  BY RunStamp
<1> HIDE DEF w
<1>4. clock \in Nat /\ expire_at \in Nat /\ Lead \in Nat /\ Start(idx) \in Nat
  BY Types DEF IInv
<1>5. ~RollsOver(w) => expire_at > 0
  BY <1>4 DEF RollsOver, Live
<1>6. expire_at' > 0
  BY <1>2, <1>4, <1>5, Constants
<1>7. Start(idx') + 2 * Window <= expire_at' + Lead'
  <2> DEFINE lead == Lead'
             s == Start(idx')
             x == expire_at'
  <2>1. s \in Nat /\ lead \in Nat /\ Window \in Nat /\ s <= clock + lead /\ Lead <= lead
    BY <1>1, <1>3, Constants
  <2>2. CASE x = clock + 2 * Window
    <3> HIDE DEF s, lead, x
    <3>1. s + 2 * Window <= x + lead
      BY <2>1, <2>2, <1>4
    <3> QED BY <3>1 DEF s, lead, x
  <2>3. CASE x = expire_at /\ ~RollsOver(w)
    <3>1. Start(idx) + 2 * Window <= expire_at + Lead /\ s = Start(idx)
      BY <1>1, <1>5, <2>3 DEF IInv, KeysInv
    <3> HIDE DEF s, lead, x
    <3>2. s + 2 * Window <= x + lead
      BY <2>1, <2>3, <3>1, <1>4
    <3> QED BY <3>2 DEF s, lead, x
  <2> QED BY <1>2, <2>2, <2>3
<1>8. ResetInv'
  BY <1>1, <1>2 DEF ResetInv
<1>9. expire_at' # 0
  BY <1>6
<1> QED BY <1>1, <1>3, <1>6, <1>7, <1>8, <1>9 DEF KeysInv

\* What was charged to the window before w.
Before(w) == IF w - 1 \in Windows THEN charged[w - 1] ELSE 0

\* A window that is entered was not charged.
LEMMA EnteredUncharged ==
  ASSUME IInv, NEW c \in Callers, EvalSha(c) \/ ReplyLost(c),
         NEW w, w = calls[c].now \div Window
  PROVE  w \in Windows /\ (RollsOver(w) => charged[w] = 0)
<1>1. w \in Windows
  BY RunTimes
<1>2. RollsOver(w) => idx < w \/ expire_at = 0
  BY RollsForward
<1> QED BY <1>1, <1>2 DEF IInv, ChargedInv, KeysInv

\* While stamps are Redis's time the keys are in the stamp's window, and hold
\* the counts of that window and of the one before.
LEMMA ExactCounts ==
  ASSUME IInv, NEW c \in Callers, EvalSha(c) \/ ReplyLost(c), exact',
         NEW w, w = calls[c].now \div Window
  PROVE  /\ w = clock \div Window /\ idx' = w
         /\ CurrCount(w) = charged[w] /\ PrevCount(w) = Before(w)
<1>1. /\ w \in Windows /\ idx' = IF RollsOver(w) THEN w ELSE idx
      /\ (RollsOver(w) => charged[w] = 0)
  BY RunTimes, EnteredUncharged
<1>2. exact /\ calls[c].now = clock /\ clock \in Int
  BY RunStamp, Types DEF IInv
<1>3. w = clock \div Window
  BY <1>2
<1>4. /\ idx \in Nat /\ idx \in Windows /\ w \in Nat /\ Start(idx) \in Nat /\ Lead = 0
      /\ Start(idx) <= clock + Lead /\ expire_at \in Nat
      /\ charged[idx] = curr /\ prev = Before(idx)
      /\ \A v \in Windows : v > idx => charged[v] = 0
      /\ expire_at = 0 => \A v \in Windows : charged[v] = 0
      /\ expire_at > 0 => Start(idx) + 2 * Window <= expire_at + Lead
  BY <1>1, <1>2, Types DEF IInv, KeysInv, ChargedInv, Before, Lead, Windows
<1>5. idx <= w
  BY <1>2, <1>3, <1>4, Started
<1>6. CASE ~RollsOver(w)
  <2>1. idx = w
    BY <1>4, <1>5, <1>6 DEF RollsOver
  <2> QED BY <1>1, <1>3, <1>4, <1>6, <2>1 DEF CurrCount, PrevCount
<1>7. CASE RollsOver(w)
  <2>1. CurrCount(w) = charged[w] /\ idx' = w
    BY <1>1, <1>7 DEF CurrCount
  <2>2. PrevCount(w) = Before(w)
    <3>1. CASE Live /\ idx = w - 1
      BY <1>4, <1>7, <3>1 DEF PrevCount, Before
    <3>2. CASE Live /\ idx # w - 1
      <4>1. idx < w
        BY <1>7, <3>2 DEF RollsOver
      <4>2. w - 1 > idx
        BY <4>1, <3>2, <1>4
      <4>3. Before(w) = 0
        BY <4>2, <1>4 DEF Before
      <4> QED BY <4>3, <1>7, <3>2 DEF PrevCount
    <3>3. CASE ~Live
      <4>1. Before(w) = 0
        <5>1. CASE expire_at = 0
          BY <5>1, <1>4 DEF Before
        <5>2. CASE expire_at > 0
          <6>1. expire_at <= clock
            BY <3>3, <1>2, <1>4 DEF Live
          <6>2. Start(idx) + Window + Window <= clock
            BY <6>1, <5>2, <1>2, <1>4, Constants
          <6>3. Start(idx + 1) = Start(idx) + Window /\ Start(idx + 1 + 1) = Start(idx + 1) + Window
            BY <1>4, StartStep
          <6>4. Start(idx + 1 + 1) <= clock
            BY <6>2, <6>3
          <6>5. idx + 1 + 1 <= w
            BY <6>4, <1>2, <1>3, <1>4, Started
          <6>6. w - 1 > idx
            BY <6>5, <1>4
          <6> QED BY <6>6, <1>4 DEF Before
        <5> QED BY <5>1, <5>2, <1>4
      <4> QED BY <4>1, <1>7, <3>3 DEF PrevCount
    <3> QED BY <3>1, <3>2, <3>3
  <2> QED BY <1>3, <2>1, <2>2
<1> QED BY <1>6, <1>7

LEMMA RunCharged ==
  ASSUME IInv, NEW c \in Callers, EvalSha(c) \/ ReplyLost(c)
  PROVE  ChargedInv'
<1> DEFINE w == calls[c].now \div Window
<1>1. /\ w \in Windows /\ idx' = (IF RollsOver(w) THEN w ELSE idx)
      /\ idx' \in Windows /\ idx <= idx' /\ (RollsOver(w) => charged[w] = 0)
  BY RunTimes, EnteredUncharged
<1>2. /\ prev' = PrevCount(w) /\ curr' = CurrCount(w) + Admitted
      /\ curr' \in 0..Limit /\ Admitted \in Nat
      /\ charged' = [charged EXCEPT ![idx'] = @ + Admitted]
  BY RunFacts
<1>3. exact' => idx' = w /\ PrevCount(w) = Before(w)
  BY ExactCounts
<1> HIDE DEF w
<1>4. /\ charged \in [Windows -> Nat] /\ charged[idx] = curr
      /\ \A v \in Windows : v > idx => charged[v] = 0
      /\ \A v \in Windows : charged[v] <= Limit
      /\ idx \in Nat /\ idx' \in Nat /\ w \in Nat /\ \A v \in Windows : v \in Nat
  BY <1>1, Types DEF IInv, ChargedInv, WindowNeverOvercharged, Windows
<1>5. charged[idx'] = CurrCount(w)
  BY <1>1, <1>4 DEF CurrCount
<1>6. charged'[idx'] = curr' /\ \A v \in Windows : v # idx' => charged'[v] = charged[v]
  BY <1>1, <1>2, <1>4, <1>5
<1>7. \A v \in Windows : v > idx' => charged'[v] = 0
  <2> SUFFICES ASSUME NEW v \in Windows, v > idx' PROVE charged'[v] = 0
    OBVIOUS
  <2>1. v > idx /\ v # idx'
    BY <1>1, <1>4
  <2> QED BY <2>1, <1>4, <1>6
<1>8. WindowNeverOvercharged'
  <2> SUFFICES ASSUME NEW v \in Windows PROVE charged'[v] <= Limit
    BY DEF WindowNeverOvercharged
  <2>1. CASE v = idx'
    BY <2>1, <1>2, <1>6, Constants
  <2>2. CASE v # idx'
    BY <2>2, <1>4, <1>6
  <2> QED BY <2>1, <2>2
<1>9. exact' => prev' = IF idx' - 1 \in Windows THEN charged'[idx' - 1] ELSE 0
  <2> SUFFICES ASSUME exact' PROVE prev' = IF idx' - 1 \in Windows THEN charged'[idx' - 1] ELSE 0
    OBVIOUS
  <2>1. idx' = w /\ prev' = Before(w) /\ w - 1 # idx'
    BY <1>2, <1>3, <1>4
  <2> QED BY <2>1, <1>6 DEF Before
<1> QED BY <1>6, <1>7, <1>8, <1>9 DEF ChargedInv

-----------------------------------------------------------------------------
(***************************************************************************)
(* How much a stretch of a window's length admits.                         *)
(***************************************************************************)
\* The bound for three windows is no tighter than the one for two.
LEMMA WithinLooser ==
  ASSUME NEW s \in Nat, NEW l \in Nat, NEW n \in Nat \ {0}, s * n <= l * (2 * n - 1)
  PROVE  s * n * n <= l * (3 * n * n - 2 * n + 1)
<1>1. s * n * n <= l * (2 * n - 1) * n
  BY Z3
<1>2. (2 * n - 1) * n <= 3 * n * n - 2 * n + 1
  BY Z3
<1>3. l * ((2 * n - 1) * n) <= l * (3 * n * n - 2 * n + 1)
  BY <1>2, Z3
<1> QED BY <1>1, <1>3, Z3

LEMMA BoundOfTwo ==
  ASSUME NEW s \in Nat, NEW p \in 0..Limit, NEW c \in 0..Limit, s <= p + c, Tight(p, c)
  PROVE  s * Window <= Limit * (2 * Window - 1)
<1>1. Limit \in Nat /\ Window \in Nat \ {0}
  BY Constants
<1>2. \A n \in Nat \ {0}, l, q \in Nat : q <= l /\ s <= q => s * n <= l * (2 * n - 1)
  BY Z3
<1>3. \A n \in Nat \ {0}, l, q, r \in Nat :
        q <= l /\ s <= q + r /\ q + n * r <= n * l => s * n <= l * (2 * n - 1)
  <2> SUFFICES ASSUME NEW n \in Nat \ {0}, NEW l \in Nat, NEW q \in Nat, NEW r \in Nat,
                      q <= l, s <= q + r, q + n * r <= n * l
               PROVE  s * n <= l * (2 * n - 1)
    OBVIOUS
  <2>1. s * n <= q * n + r * n
    BY Z3
  <2>2. q * (n - 1) <= l * (n - 1)
    BY Z3
  <2> QED BY <2>1, <2>2, Z3
<1>4. CASE c = 0
  BY <1>1, <1>2, <1>4
<1>5. CASE c > 0
  BY <1>1, <1>3, <1>5 DEF Tight
<1> QED BY <1>4, <1>5

LEMMA BoundOfThree ==
  ASSUME NEW s \in Nat, NEW a \in 0..Limit, NEW p \in 0..Limit, NEW c \in 0..Limit,
         s <= a + p + c, Tight(a, p), Tight(p, c)
  PROVE  s * Window * Window <= Limit * (3 * Window * Window - 2 * Window + 1)
<1>1. Limit \in Nat /\ Window \in Nat \ {0}
  BY Constants
<1>2. \A n \in Nat \ {0}, l \in Nat : 2 * l * n * n <= l * (3 * n * n - 2 * n + 1)
  <2> SUFFICES ASSUME NEW n \in Nat \ {0}, NEW l \in Nat
               PROVE  2 * l * n * n <= l * (3 * n * n - 2 * n + 1)
    OBVIOUS
  <2>1. (n - 1) * (n - 1) >= 0
    BY Z3
  <2>2. 2 * n * n <= 3 * n * n - 2 * n + 1
    BY <2>1, Z3
  <2>3. l * (2 * n * n) <= l * (3 * n * n - 2 * n + 1)
    BY <2>2, Z3
  <2> QED BY <2>3, Z3
<1>3. CASE c = 0
  <2>1. s * Window <= Limit * (2 * Window - 1)
    BY <1>3, BoundOfTwo
  <2> QED BY <1>1, <2>1, WithinLooser
<1>4. CASE p = 0
  <2>1. s <= 2 * Limit
    BY <1>1, <1>4
  <2>2. \A n \in Nat \ {0}, l \in Nat : s <= 2 * l => s * n * n <= 2 * l * n * n
    BY Z3
  <2>3. \A n \in Nat \ {0}, l \in Nat : s <= 2 * l =>
           s * n * n <= l * (3 * n * n - 2 * n + 1)
    BY <2>2, <1>2, Z3
  <2> QED BY <1>1, <2>1, <2>3
<1>5. CASE c > 0 /\ p > 0
  <2>1. \A n \in Nat \ {0}, l \in Nat :
          a <= l /\ a + n * p <= n * l /\ p + n * c <= n * l =>
            s * n * n <= l * (3 * n * n - 2 * n + 1)
    <3> SUFFICES ASSUME NEW n \in Nat \ {0}, NEW l \in Nat,
                        a <= l, a + n * p <= n * l, p + n * c <= n * l
                 PROVE  s * n * n <= l * (3 * n * n - 2 * n + 1)
      OBVIOUS
    <3> DEFINE m == n - 1
    <3>1. m \in Nat /\ n = m + 1
      OBVIOUS
    <3>2. n * s <= n * a + n * p + n * c
      BY Z3
    <3>3. n * s <= n * a + n * p + n * l - p
      BY <3>2, Z3
    <3>4. n * (n * s) <= n * (n * a + n * p + n * l - p)
      BY <3>3, Z3
    <3>5. m * (a + n * p) <= m * (n * l)
      BY <3>1, Z3
    <3>6. (n * n - m) * a <= (n * n - m) * l
      <4>1. n * n - m >= 0
        BY Z3
      <4> QED BY <4>1, Z3
    <3> QED BY <3>4, <3>5, <3>6, Z3
  <2> QED BY <1>1, <1>5, <2>1 DEF Tight
<1> QED BY <1>3, <1>4, <1>5

\* No bound is lost when stamps stop being exact.
LEMMA BoundStays ==
  ASSUME TypeOK, RollingBound, spent' = spent, exact' => exact, exact' \in BOOLEAN
  PROVE  RollingBound'
<1>1. spent \in Nat /\ Limit \in Nat /\ Window \in Nat \ {0}
  BY Types, Constants
<1>2. spent * Window <= Limit * (2 * Window - 1) =>
        spent * Window * Window <= Limit * (3 * Window * Window - 2 * Window + 1)
  BY <1>1, WithinLooser
<1>3. CASE exact' \/ ~exact
  BY <1>3 DEF RollingBound
<1>4. CASE exact /\ ~exact'
  <2>1. spent * Window <= Limit * (2 * Window - 1)
    BY <1>4 DEF RollingBound
  <2> QED BY <1>2, <1>4, <2>1 DEF RollingBound
<1> QED BY <1>3, <1>4

\* Nothing spent is within every bound.
LEMMA NothingSpent == spent = 0 => RollingBound
<1>1. Limit \in Nat /\ Window \in Nat \ {0}
  BY Constants
<1>2. \A l \in Nat, n \in Nat \ {0} :
        0 * n <= l * (2 * n - 1) /\ 0 * n * n <= l * (3 * n * n - 2 * n + 1)
  <2> SUFFICES ASSUME NEW l \in Nat, NEW n \in Nat \ {0}
               PROVE  0 * n <= l * (2 * n - 1) /\ 0 * n * n <= l * (3 * n * n - 2 * n + 1)
    OBVIOUS
  <2>1. 2 * n - 1 \in Nat /\ 3 * n * n - 2 * n + 1 \in Nat
    BY Z3
  <2> QED BY <2>1, Z3
<1> QED BY <1>1, <1>2 DEF RollingBound

\* While it is measured, what was spent is in the counts of two windows, or of
\* three when stamps drift by two seconds or more.
LEMMA WhileBounded == TypeOK /\ KeysInv /\ SpentWhile /\ clock < mark + Window => RollingBound
<1> SUFFICES ASSUME TypeOK, KeysInv, SpentWhile, clock < mark + Window, spent > 0
             PROVE  RollingBound
  BY NothingSpent, Types
<1>1. PICK a \in Windows, first \in 0..Limit : SpentFrom(a, first)
  BY DEF SpentWhile
<1>2. /\ spent \in Nat /\ curr \in 0..Limit /\ prev \in 0..Limit /\ idx \in Nat
      /\ clock \in Nat /\ mark \in Nat /\ Lead \in Nat /\ Lag \in Nat
      /\ Start(idx) \in Nat /\ Start(idx) <= clock + Lead /\ exact \in BOOLEAN
  BY Types, Constants DEF KeysInv
<1>3. CASE idx = a \/ idx = a + 1
  <2>1. spent * Window <= Limit * (2 * Window - 1)
    <3>1. CASE idx = a
      <4>1. spent <= curr + 0 /\ curr \in 0..Limit /\ 0 \in 0..Limit
        BY <1>1, <1>2, <3>1, Constants DEF SpentFrom, Windows
      <4>2. Tight(curr, 0)
        BY DEF Tight
      <4> QED BY <1>2, <4>1, <4>2, BoundOfTwo
    <3>2. CASE idx = a + 1
      <4>1. spent <= prev + curr /\ Tight(prev, curr)
        BY <1>1, <1>2, <3>2 DEF SpentFrom, Windows
      <4> QED BY <1>2, <4>1, BoundOfTwo
    <3> QED BY <1>3, <3>1, <3>2
  <2> QED BY <1>2, <2>1, WithinLooser, Constants DEF RollingBound
<1>4. CASE idx = a + 2
  <2>1. spent <= first + prev + curr /\ Tight(first, prev) /\ Tight(prev, curr)
    BY <1>1, <1>4 DEF SpentFrom, Windows
  <2>2. spent * Window * Window <= Limit * (3 * Window * Window - 2 * Window + 1)
    BY <1>2, <2>1, BoundOfThree
  <2>3. Start(idx) = Start(a) + 2 * Window /\ Start(a) \in Nat
    <3>1. a \in Nat /\ a + 2 = a + 1 + 1
      BY DEF Windows
    <3>2. Start(a) \in Nat /\ Start(a + 1) = Start(a) + Window /\ Start(a + 1 + 1) = Start(a + 1) + Window
      BY <3>1, StartStep
    <3> QED BY <3>1, <3>2, <1>4, Constants
  <2>4. mark < Start(a) + Window + Lag
    BY <1>1 DEF SpentFrom
  <2>5. 2 <= Lag + Lead
    BY <1>2, <2>3, <2>4, Constants
  <2>6. ~exact
    BY <2>5 DEF Lag, Lead
  <2>7. ~(MaxDelay + 2 * MaxSkew < 2)
    BY <2>5, <2>6, Constants DEF Lag, Lead
  <2> QED BY <2>2, <2>6, <2>7 DEF RollingBound
<1> QED BY <1>1, <1>3, <1>4 DEF SpentFrom

LEMMA WhileBoundedNext ==
  (TypeOK /\ KeysInv /\ SpentWhile /\ clock < mark + Window)' => RollingBound'
BY WhileBounded, PTL

\* From the window of the first admission a measurement reaches two windows on.
LEMMA TwoWindowsOn ==
  ASSUME NEW a \in Nat, NEW i \in Nat, NEW t \in Nat, NEW m \in Nat,
         NEW lag \in Nat, NEW lead \in Nat, lag + lead <= Window,
         m < Start(a) + Window + lag, t < m + Window, Start(i) <= t + lead
  PROVE  i <= a + 2
<1>1. a + 1 \in Nat /\ a + 1 + 1 \in Nat /\ a + 1 + 1 + 1 \in Nat
  OBVIOUS
<1>2. /\ Start(a) \in Int /\ Start(a + 1) = Start(a) + Window
      /\ Start(a + 1 + 1) = Start(a + 1) + Window
      /\ Start(a + 1 + 1 + 1) = Start(a + 1 + 1) + Window
  BY <1>1, StartStep
<1>3. Start(i) \in Int /\ Window \in Nat
  BY StartStep, Constants
<1>4. Start(i) < Start(a + 1 + 1 + 1)
  BY <1>2, <1>3
<1>5. ~(a + 1 + 1 + 1 <= i)
  BY <1>1, <1>2, <1>3, <1>4, StartOrder
<1> QED BY <1>5

LEMMA RunWhile ==
  ASSUME IInv, NEW c \in Callers, EvalSha(c) \/ ReplyLost(c), clock < mark + Window
  PROVE  SpentWhile'
<1> DEFINE w == calls[c].now \div Window
           lag == Lag'
           lead == Lead'
           more == Admitted
<1> SUFFICES ASSUME spent' > 0
             PROVE  (\E a \in Windows, first \in 0..Limit : SpentFrom(a, first))'
  BY DEF SpentWhile
<1>1. /\ w \in Windows /\ idx' \in Windows /\ idx' = (IF RollsOver(w) THEN w ELSE idx)
      /\ idx <= idx' /\ Start(idx') \in Nat /\ Start(idx') <= clock + lead
      /\ clock < Start(idx') + Window + lag
  BY RunTimes
<1>2. /\ prev' = PrevCount(w) /\ prev' \in 0..Limit
      /\ curr' = CurrCount(w) + more /\ curr' \in 0..Limit
      /\ more \in Nat
      /\ more > 0 => prev' + Window * curr' <= Window * Limit
      /\ spent' = spent + more
  BY RunFacts
<1>3. /\ UNCHANGED <<clock, mark>> /\ Lag <= lag /\ lag \in Nat /\ lead \in Nat
      /\ lead <= MaxSkew /\ lag <= MaxDelay + MaxSkew
  BY RunStamp
<1> HIDE DEF w, lag, lead, more
<1>4. /\ clock \in Nat /\ mark \in Nat /\ mark <= clock /\ spent \in Nat /\ idx \in Nat
      /\ idx \in Windows /\ prev \in 0..Limit /\ curr \in 0..Limit /\ Lag \in Nat
      /\ expire_at \in Nat /\ idx' \in Nat /\ w \in Nat /\ 0 \in 0..Limit
  BY <1>1, Types, Constants DEF IInv, Windows
<1>5. more > 0 => Tight(prev', curr')
  BY <1>2 DEF Tight
<1>6. CASE spent = 0
  <2>1. CurrCount(w) \in Nat
    BY CountTypes DEF IInv
  <2>2. spent' <= curr' /\ mark' < Start(idx') + Window + lag
    BY <1>1, <1>2, <1>3, <1>4, <1>6, <2>1, StartStep, Constants
  <2>3. PICK a \in Windows : a = idx'
    BY <1>1
  <2>4. a <= idx' /\ idx' = a /\ spent' <= curr'
    BY <1>4, <2>2, <2>3
  <2>5. mark' < Start(a) + Window + Lag'
    BY <2>2, <2>3 DEF lag
  <2>6. SpentFrom(a, 0)'
    BY <2>4, <2>5 DEF SpentFrom
  <2> QED BY <1>4, <2>6
<1>7. CASE spent > 0
  <2>1. PICK a \in Windows, first \in 0..Limit : SpentFrom(a, first)
    BY <1>7 DEF IInv, SpentInv, SpentWhile
  <2>2. Live
    BY <1>3, <1>4, <1>7, Constants DEF IInv, SpentInv, Live
  <2>3. a \in Nat /\ Start(a) \in Nat
    BY StartStep DEF Windows
  <2>4. a <= idx /\ mark < Start(a) + Window + lag
    BY <1>3, <1>4, <2>1, <2>3, Constants DEF SpentFrom
  <2>5. a <= idx' /\ mark' < Start(a) + Window + Lag'
    BY <1>1, <1>3, <1>4, <2>3, <2>4 DEF lag
  <2>6. CASE ~RollsOver(w)
    <3>1. idx' = idx /\ prev' = prev /\ curr' = curr + more
      BY <1>1, <1>2, <2>6 DEF PrevCount, CurrCount
    <3>2. Tight(prev, curr) => Tight(prev', curr')
      BY <1>2, <1>4, <1>5, <3>1 DEF Tight
    <3>3. SpentFrom(a, first)'
      BY <1>2, <1>4, <2>1, <2>3, <2>5, <3>1, <3>2 DEF SpentFrom
    <3> QED BY <3>3
  <2>7. CASE RollsOver(w)
    <3>1. idx < w /\ idx' = w
      BY <1>1, <2>2, <2>7 DEF RollsOver
    <3>2. curr' = more /\ prev' = IF idx = w - 1 THEN curr ELSE 0
      BY <1>2, <2>2, <2>7 DEF PrevCount, CurrCount
    <3>3. Tight(prev', curr')
      BY <1>2, <1>5, <3>2 DEF Tight
    <3>4. w <= a + 2
      <4>1. lag + lead <= Window
        BY <1>3, Constants
      <4>2. Start(w) <= clock + lead
        BY <1>1, <3>1
      <4> QED BY <1>3, <1>4, <2>3, <2>4, <4>1, <4>2, TwoWindowsOn
    <3>5. CASE idx = a /\ w = a + 1
      <4>1. prev' = curr /\ spent <= curr
        BY <2>1, <2>3, <3>2, <3>5 DEF SpentFrom
      <4>2. SpentFrom(a, first)'
        BY <1>2, <1>4, <2>5, <3>1, <3>2, <3>3, <3>5, <4>1 DEF SpentFrom
      <4> QED BY <4>2
    <3>6. CASE idx = a /\ w = a + 2
      <4>1. prev' = 0 /\ spent <= curr
        BY <2>1, <2>3, <3>2, <3>6 DEF SpentFrom
      <4>2. Tight(curr, prev')
        BY <4>1 DEF Tight
      <4>3. \E f \in 0..Limit : SpentFrom(a, f)'
        <5> DEFINE f == curr
        <5>1. f \in 0..Limit /\ spent <= f /\ Tight(f, prev')
          BY <1>4, <4>1, <4>2
        <5> HIDE DEF f
        <5>2. idx' = a + 2 /\ spent' <= f + prev' + curr'
          BY <1>2, <1>4, <3>1, <3>2, <3>6, <4>1, <5>1
        <5> QED BY <2>5, <3>3, <5>1, <5>2 DEF SpentFrom
      <4> QED BY <4>3
    <3>7. CASE idx = a + 1
      <4>1. w = a + 2
        BY <1>4, <2>3, <3>1, <3>4, <3>7
      <4>2. prev' = curr /\ spent <= prev + curr /\ Tight(prev, curr)
        BY <2>1, <2>3, <3>2, <3>7, <4>1 DEF SpentFrom
      <4>3. \E f \in 0..Limit : SpentFrom(a, f)'
        <5> DEFINE f == prev
        <5>1. f \in 0..Limit /\ spent <= f + curr /\ Tight(f, prev')
          BY <1>4, <4>2
        <5> HIDE DEF f
        <5>2. idx' = a + 2 /\ spent' <= f + prev' + curr'
          BY <1>2, <1>4, <3>1, <3>2, <4>1, <4>2, <5>1
        <5> QED BY <2>5, <3>3, <5>1, <5>2 DEF SpentFrom
      <4> QED BY <4>3
    <3>8. idx = a \/ idx = a + 1
      BY <1>4, <2>1, <2>3, <3>1, <3>4 DEF SpentFrom
    <3> QED BY <1>4, <2>3, <3>1, <3>4, <3>5, <3>6, <3>7, <3>8
  <2> QED BY <2>6, <2>7
<1> QED BY <1>4, <1>6, <1>7

LEMMA RunSpent ==
  ASSUME IInv, NEW c \in Callers, EvalSha(c) \/ ReplyLost(c)
  PROVE  SpentInv'
<1> DEFINE w == calls[c].now \div Window
<1>1. /\ Admitted \in Nat /\ (Admitted > 0 => expire_at' = clock + 2 * Window)
      /\ expire_at' = expire_at \/ expire_at' = clock + 2 * Window
      /\ spent' = IF clock < mark + Window THEN spent + Admitted ELSE spent
  BY RunFacts
<1>2. UNCHANGED <<clock, mark>> /\ exact' \in BOOLEAN /\ (exact' => exact)
  BY RunStamp
<1> HIDE DEF w
<1>3. /\ clock \in Nat /\ mark \in Nat /\ mark <= clock /\ spent \in Nat /\ expire_at \in Nat
      /\ TypeOK /\ RollingBound /\ (spent > 0 => mark + 2 * Window <= expire_at)
  BY Types DEF IInv, SpentInv
<1>4. spent' > 0 => mark' + 2 * Window <= expire_at'
  BY <1>1, <1>2, <1>3, Constants
<1>5. CASE clock < mark + Window
  <2>1. SpentWhile'
    BY <1>5, RunWhile
  <2>2. TypeOK' /\ KeysInv' /\ (clock < mark + Window)'
    BY <1>2, <1>5, RunTypes, RunKeys
  <2> QED BY <1>4, <2>1, <2>2, WhileBoundedNext DEF SpentInv
<1>6. CASE ~(clock < mark + Window)
  <2>1. spent' = spent /\ ~(clock' < mark' + Window)
    BY <1>1, <1>2, <1>6
  <2>2. RollingBound'
    BY <1>2, <1>3, <2>1, BoundStays
  <2> QED BY <1>4, <2>1, <2>2 DEF SpentInv, SpentWhile
<1> QED BY <1>5, <1>6

-----------------------------------------------------------------------------
(***************************************************************************)
(* The invariant holds.                                                    *)
(***************************************************************************)
LEMMA InvInit == Init => IInv
<1> SUFFICES ASSUME Init PROVE IInv
  OBVIOUS
<1>1. TypeOK
  <2>1. CallsTypeOK
    BY IdleIsCall, Constants DEF Init, CallsInit, CallsTypeOK
  <2>2. 0 \in Windows /\ 0 \in 0..Limit /\ 0 \in 0..Window
    BY Constants, WindowOfTime, Started, StartStep DEF Windows
  <2>3. verdict \in Verdicts
    BY <2>2 DEF Init, ScriptInit, Verdicts
  <2>4. clock \in Nat
    BY Constants DEF Init, CallsInit
  <2> QED BY <2>1, <2>2, <2>3, <2>4 DEF Init, ScriptInit, TypeOK, Verdicts
<1>2. StampsInv
  BY DEF Init, CallsInit, Idle, StampsInv
<1>3. KeysInv
  <2>1. clock \in Nat /\ Lead \in Nat
    BY <1>1, Types
  <2> QED BY <2>1, StartStep DEF Init, ScriptInit, KeysInv
<1>4. ChargedInv
  BY <1>1, Types, Constants DEF Init, ScriptInit, ChargedInv, WindowNeverOvercharged
<1>5. ResetInv
  BY DEF Init, ScriptInit, ResetInv
<1>6. SpentInv
  BY NothingSpent DEF Init, SpentInv, SpentWhile
<1> QED BY <1>1, <1>2, <1>3, <1>4, <1>5, <1>6 DEF IInv

\* Nothing of a counter changes.
LEMMA NoRunKeeps ==
  ASSUME IInv, UNCHANGED windowVars, CallsTypeOK', StampsInv', clock <= clock', clock' \in Nat
  PROVE  IInv'
<1>1. /\ UNCHANGED <<curr, prev, idx, expire_at, verdict, charged, exact, mark, spent>>
      /\ Lead' = Lead /\ Lag' = Lag
  BY DEF windowVars, keys, Lead, Lag
<1>2. /\ clock \in Nat /\ mark \in Nat /\ mark <= clock /\ Lead \in Nat /\ Start(idx) \in Nat
  BY Types DEF IInv
<1>3. TypeOK'
  BY <1>1, <1>2 DEF IInv, TypeOK
<1>4. KeysInv'
  <2>1. Start(idx) <= clock' + Lead
    BY <1>2 DEF IInv, KeysInv
  <2> QED BY <1>1, <2>1 DEF IInv, KeysInv
<1>5. ChargedInv' /\ ResetInv'
  BY <1>1 DEF IInv, ChargedInv, WindowNeverOvercharged, ResetInv
<1>6. RollingBound'
  BY <1>1 DEF IInv, SpentInv, RollingBound
<1>7. SpentWhile'
  <2>1. clock' < mark' + Window => clock < mark + Window
    BY <1>1, <1>2, Constants
  <2> QED BY <1>1, <2>1 DEF IInv, SpentInv, SpentWhile, SpentFrom
<1> QED BY <1>1, <1>3, <1>4, <1>5, <1>6, <1>7 DEF IInv, SpentInv

LEMMA NothingSpentNext == (spent = 0)' => RollingBound'
BY NothingSpent, PTL

LEMMA InvNext == IInv /\ [Next]_vars => IInv'
<1> SUFFICES ASSUME IInv, [Next]_vars PROVE IInv'
  OBVIOUS
<1>0. TypeOK /\ CallsTypeOK /\ StampsInv /\ clock \in Nat
  BY Types DEF IInv, TypeOK
<1>1. ASSUME NEW c \in Callers, CheckSlidingWindow(c) PROVE IInv'
  <2>1. CallsTypeOK' /\ StampsInv'
    BY <1>0, <1>1, SendKeeps DEF CheckSlidingWindow
  <2>2. clock' = clock /\ UNCHANGED windowVars
    BY <1>1 DEF CheckSlidingWindow, Send
  <2> QED BY <1>0, <2>1, <2>2, NoRunKeeps
<1>2. ASSUME NEW c \in Callers, EvalSha(c) \/ ReplyLost(c) PROVE IInv'
  BY <1>2, RunTypes, RunKeys, RunCharged, RunSpent DEF IInv
<1>3. ASSUME NEW c \in Callers, SendFails(c) PROVE IInv'
  <2>1. CallsTypeOK' /\ StampsInv' /\ clock' = clock
    BY <1>0, <1>3, EndKeeps DEF SendFails
  <2> QED BY <1>0, <1>3, <2>1, NoRunKeeps DEF SendFails
<1>4. CASE Tick
  <2>1. CallsTypeOK' /\ StampsInv' /\ clock' = clock + 1
    BY <1>0, <1>4, TimeKeeps DEF Tick
  <2> QED BY <1>0, <1>4, <2>1, NoRunKeeps DEF Tick
<1>5. CASE Observe
  <2>1. /\ UNCHANGED <<clock, calls, curr, prev, idx, expire_at, verdict, charged, exact>>
        /\ mark' = clock /\ spent' = 0
    BY <1>5 DEF Observe, callVars, keys
  <2>2. TypeOK' /\ StampsInv'
    BY <1>0, <2>1 DEF TypeOK, CallsTypeOK, StampsInv
  <2>3. KeysInv' /\ ChargedInv' /\ ResetInv'
    BY <2>1 DEF IInv, KeysInv, ChargedInv, ResetInv, WindowNeverOvercharged, Lead
  <2>4. SpentInv'
    BY <2>1, NothingSpentNext DEF SpentInv, SpentWhile
  <2> QED BY <2>2, <2>3, <2>4 DEF IInv
<1>6. CASE UNCHANGED vars
  <2>1. UNCHANGED <<clock, calls>> /\ UNCHANGED windowVars
    BY <1>6 DEF vars, callVars
  <2>2. CallsTypeOK' /\ StampsInv'
    BY <1>0, <2>1 DEF CallsTypeOK, StampsInv
  <2> QED BY <1>0, <2>1, <2>2, NoRunKeeps
<1> QED BY <1>1, <1>2, <1>3, <1>4, <1>5, <1>6 DEF Next

LEMMA Invariance == Spec => []IInv
BY InvInit, InvNext, PTL DEF Spec

-----------------------------------------------------------------------------
(***************************************************************************)
(* Types: no count leaves 0..Limit and nothing reported is negative,       *)
(* with stamps off by at most a window (sliding_window.lua 20-59).         *)
(***************************************************************************)
THEOREM TypeCorrect == Spec => []TypeOK
<1>1. IInv => TypeOK
  BY DEF IInv
<1> QED BY <1>1, Invariance, PTL

(***************************************************************************)
(* No window is ever charged more than the limit, with stamps off by at    *)
(* most a window, retries and expiry (sliding_window.lua 23-35, 51-55).    *)
(***************************************************************************)
THEOREM NeverOvercharged == Spec => []WindowNeverOvercharged
<1>1. IInv => WindowNeverOvercharged
  BY DEF IInv, ChargedInv
<1> QED BY <1>1, Invariance, PTL

(***************************************************************************)
(* What any Window consecutive seconds admit: less than twice the limit,   *)
(* or less than three times when stamps drift by two seconds or more       *)
(* (sliding_window.lua 37-44).                                             *)
(***************************************************************************)
THEOREM RollingBoundHolds == Spec => []RollingBound
<1>1. IInv => RollingBound
  BY DEF IInv, SpentInv
<1> QED BY <1>1, Invariance, PTL

(***************************************************************************)
(* Expired keys held nothing that counts beyond the drift of the stamps    *)
(* (sliding_window.lua 32-34, 53-55).                                      *)
(***************************************************************************)
THEOREM ExpiryHarmless == Spec => []ExpiryForgetsNothing
<1>1. IInv => ExpiryForgetsNothing
  <2> SUFFICES ASSUME IInv, expire_at > 0, ~Live,
                      NEW t \in (clock - MaxDelay - MaxSkew)..(clock + MaxSkew),
                      ~(t \div Window >= idx + 2)
               PROVE  Window - (t % Window) <= MaxDelay + 2 * MaxSkew
    BY DEF ExpiryForgetsNothing
  <2> DEFINE w == t \div Window
             e == t % Window
  <2>1. /\ clock \in Nat /\ idx \in Nat /\ Start(idx) \in Nat /\ expire_at \in Nat
        /\ Lead \in Nat /\ Lead <= MaxSkew
    BY Types DEF IInv
  <2>2. t \in Int /\ clock - MaxDelay - MaxSkew <= t
    BY <2>1, Constants
  <2>3. w \in Int /\ e \in 0..(Window - 1) /\ t = Start(w) + e
    BY <2>2, InItsWindow
  <2>4. Start(idx) + 2 * Window <= expire_at + Lead /\ expire_at <= clock
    BY <2>1 DEF IInv, KeysInv, Live
  <2>5. Start(idx) + 2 * Window <= t + (MaxDelay + 2 * MaxSkew)
    BY <2>1, <2>2, <2>4, Constants
  <2>6. Start(w) <= Start(idx) + Window /\ Start(w) \in Int
    <3>1. w <= idx + 1
      BY <2>1, <2>3
    <3>2. Start(idx + 1) = Start(idx) + Window
      BY <2>1, StartStep
    <3> HIDE DEF w
    <3> QED BY <2>1, <2>3, <3>1, <3>2, StartOrder, StartStep
  <2> HIDE DEF w, e
  <2>7. Window - e <= MaxDelay + 2 * MaxSkew
    BY <2>1, <2>2, <2>3, <2>5, <2>6, Constants
  <2> QED BY <2>7 DEF e
<1> QED BY <1>1, Invariance, PTL

\* The steps that run no script leave the keys alone.
LEMMA OtherSteps ==
  ASSUME [Next]_vars, ~\E c \in Callers : EvalSha(c) \/ ReplyLost(c)
  PROVE  UNCHANGED <<curr, prev, idx, expire_at, verdict, charged, exact>>
BY DEF Next, vars, windowVars, keys, CheckSlidingWindow, SendFails, Tick, Observe

(***************************************************************************)
(* The stored window never goes back, with stamps that are late by at most *)
(* a window (sliding_window.lua 20-35).                                    *)
(***************************************************************************)
THEOREM IndexOnlyForward == Spec => IndexNeverGoesBack
<1>1. IInv /\ [Next]_vars => [idx' >= idx]_vars
  <2> SUFFICES ASSUME IInv, [Next]_vars PROVE idx' >= idx
    OBVIOUS
  <2>1. idx \in Nat
    BY Types DEF IInv
  <2>2. CASE \E c \in Callers : EvalSha(c) \/ ReplyLost(c)
    <3>1. PICK c \in Callers : EvalSha(c) \/ ReplyLost(c)
      BY <2>2
    <3>2. idx <= idx' /\ idx' \in Windows
      BY <3>1, RunTimes
    <3> QED BY <2>1, <3>2 DEF Windows
  <2>3. CASE ~\E c \in Callers : EvalSha(c) \/ ReplyLost(c)
    BY <2>1, <2>3, OtherSteps
  <2> QED BY <2>2, <2>3
<1> QED BY <1>1, Invariance, PTL DEF Spec, IndexNeverGoesBack

(***************************************************************************)
(* A window after the reset_at of the last answer any request is admitted  *)
(* that the rule can admit at all (sliding_window.lua 23-31, 61-64).       *)
(***************************************************************************)
THEOREM ClearLater == Spec => ClearAfterAnotherWindow
<1> DEFINE Clear ==
      \A c \in Callers :
        ( /\ EvalSha(c) /\ verdict.price > 0
          /\ EffectiveCost(calls[c].cost) <= Limit
          /\ verdict.reset_at > idx * Window
          /\ calls[c].now >= verdict.reset_at + Window )
        => verdict'.allowed
<1>1. IInv => Clear
  <2> SUFFICES ASSUME IInv, NEW c \in Callers, EvalSha(c), verdict.price > 0,
                      EffectiveCost(calls[c].cost) <= Limit,
                      verdict.reset_at > idx * Window,
                      calls[c].now >= verdict.reset_at + Window
               PROVE  verdict'.allowed
    OBVIOUS
  <2> DEFINE now == calls[c].now
             price == EffectiveCost(calls[c].cost)
             w == now \div Window
  <2>1. now \in Nat /\ calls[c].pc = "sent"
    BY RunStamp
  <2>2. w \in Windows /\ w \in Nat /\ price \in Nat \ {0}
    BY <2>1, StampFacts DEF IInv, TypeOK, Windows
  <2>3. idx \in Nat /\ Start(idx) \in Nat /\ idx * Window = Start(idx)
    BY Types, Products, Constants DEF IInv, Start
  <2>4. PICK v \in Windows : verdict.reset_at = Start(v) + Window
    BY DEF IInv, ResetInv
  <2>5. v \in Nat /\ Start(v) \in Nat /\ Start(v + 1) = Start(v) + Window
        /\ Start(v + 1 + 1) = Start(v + 1) + Window
    <3>1. v \in Nat
      BY DEF Windows
    <3> QED BY <3>1, StartStep
  <2>6. idx <= v
    <3>1. Start(idx) < Start(v + 1)
      BY <2>3, <2>4, <2>5
    <3>2. v + 1 <= idx => Start(v + 1) <= Start(idx)
      BY <2>3, <2>5, StartOrder
    <3>3. ~(v + 1 <= idx)
      BY <2>3, <2>5, <3>1, <3>2, Constants
    <3> QED BY <2>3, <2>5, <3>3
  <2> HIDE DEF now, price
  <2>7. Start(v + 1 + 1) <= now
    BY <2>1, <2>4, <2>5 DEF now
  <2>8. v + 1 + 1 <= w
    BY <2>1, <2>5, <2>7, Started
  <2> HIDE DEF w
  <2>9. idx < w /\ idx # w - 1
    BY <2>2, <2>3, <2>5, <2>6, <2>8
  <2>10. RollsOver(w) /\ PrevCount(w) = 0 /\ CurrCount(w) = 0
    BY <2>9 DEF RollsOver, PrevCount, CurrCount
  <2>11. Estimate(Window, now) = 0
    <3>1. Window \in Int /\ Window - (now % Window) \in Int
      BY <2>1, InItsWindow, Constants
    <3>2. 0 * (Window - (now % Window)) + 0 * Window = 0
      BY <3>1, Z3
    <3> QED BY <2>10, <3>2 DEF Estimate, w
  <2>12. Estimate(Window, now) + price * Window <= Limit * Window
    <3>1. price <= Limit /\ price \in Nat /\ Limit \in Nat /\ Window \in Nat
      BY <2>2, Constants DEF price
    <3>2. Window * price <= Window * Limit
      <4>1. \A n \in Nat, a, b \in Int : a <= b => n * a <= n * b
        BY ProductOrder
      <4> QED BY <3>1, <4>1
    <3> QED BY <2>11, <3>1, <3>2, Products
  <2>13. Script(Limit, Window, now, price)
    BY DEF EvalSha, RunScript, now, price
  <2>14. TypeOK
    BY DEF IInv
  <2>15. w = now \div Window
    BY DEF w
  <2> QED BY <2>1, <2>2, <2>12, <2>13, <2>14, <2>15, ScriptFacts
<1> QED BY <1>1, Invariance, PTL DEF ClearAfterAnotherWindow

\* A run with Redis's own time admits exactly what counts kept for ever would.
LEMMA RunDecides ==
  ASSUME IInv, NEW c \in Callers, EvalSha(c) \/ ReplyLost(c), exact'
  PROVE  Counts!WNext
<1> DEFINE now == calls[c].now
           price == EffectiveCost(calls[c].cost)
           w == now \div Window
<1>1. now \in Nat /\ calls[c].pc = "sent" /\ now = clock /\ clock' = clock
  BY RunStamp
<1>2. w \in Windows /\ price \in Nat \ {0} /\ price \in Prices
  BY <1>1, StampFacts DEF IInv, TypeOK
<1>3. /\ w = clock \div Window /\ idx' = w
      /\ CurrCount(w) = charged[w] /\ PrevCount(w) = Before(w)
  BY ExactCounts
<1>4. charged' = [charged EXCEPT ![idx'] = @ + Admitted] /\ verdict' \in Verdicts
  BY RunFacts
<1>5. Script(Limit, Window, now, price)
  BY DEF EvalSha, ReplyLost, RunScript
<1>6. TypeOK
  BY DEF IInv
<1> HIDE DEF price
<1>7. /\ verdict'.price = price
      /\ verdict'.allowed <=> Estimate(Window, now) + price * Window <= Limit * Window
      /\ Admitted = IF verdict'.allowed THEN price ELSE 0
  BY <1>1, <1>2, <1>5, <1>6, ScriptFacts
<1>8. Estimate(Window, now) = Counts!Covered(clock)
  BY <1>1, <1>3 DEF Estimate, Counts!Covered, Before
<1>9. verdict'.allowed <=> Counts!Fits(price)
  BY <1>7, <1>8 DEF Counts!Fits
<1>10. verdict'.allowed \in BOOLEAN
  BY <1>4 DEF Verdicts
<1> HIDE DEF now, w
<1>11. CASE verdict'.allowed
  <2>1. verdict'.allowed = TRUE
    BY <1>10, <1>11
  <2>2. charged' = [charged EXCEPT ![clock \div Window] = @ + price]
    BY <1>3, <1>4, <1>7, <1>11
  <2>3. Counts!Admit(price)
    BY <1>1, <1>7, <1>9, <1>11, <2>1, <2>2 DEF Counts!Admit
  <2> QED BY <1>2, <2>3 DEF Counts!WNext
<1>12. CASE ~verdict'.allowed
  <2>1. verdict'.allowed = FALSE
    BY <1>10, <1>12
  <2>2. charged' = charged
    <3>1. charged \in [Windows -> Nat] /\ idx' \in Windows /\ Admitted = 0
      BY <1>2, <1>3, <1>6, <1>7, <1>12, Types
    <3>2. charged[idx'] + Admitted = charged[idx']
      BY <3>1
    <3> QED BY <1>4, <3>1, <3>2
  <2>3. [price |-> verdict'.price, allowed |-> verdict'.allowed]
          = [price |-> price, allowed |-> FALSE]
    BY <1>7, <2>1
  <2>4. Counts!Refuse(price)
    BY <1>1, <1>9, <1>12, <2>2, <2>3 DEF Counts!Refuse
  <2> QED BY <1>2, <2>4 DEF Counts!WNext
<1> QED BY <1>11, <1>12

(***************************************************************************)
(* ImplementsWindowCounts: while stamps are Redis's time, three keys that  *)
(* roll over and expire admit exactly what a count kept for ever for every *)
(* window would (sliding_window.lua 23-55).                                *)
(***************************************************************************)
THEOREM RefinesWindowCounts == Spec => ImplementsWindowCounts
<1>1. Init => Counts!WInit
  <2> SUFFICES ASSUME Init PROVE Counts!WInit
    OBVIOUS
  <2>1. clock \in Nat
    BY Constants DEF Init, CallsInit
  <2> QED BY <2>1 DEF Init, ScriptInit, Counts!WInit
<1>2. IInv /\ [Next]_vars => [exact' => Counts!WNext]_(Counts!wvars)
  <2> SUFFICES ASSUME IInv, [Next]_vars, exact'
               PROVE  Counts!WNext \/ UNCHANGED Counts!wvars
    OBVIOUS
  <2>1. ASSUME NEW c \in Callers, EvalSha(c) \/ ReplyLost(c) PROVE Counts!WNext
    BY <2>1, RunDecides
  <2>2. ASSUME Tick PROVE Counts!WNext
    BY <2>2 DEF Tick, TimePasses, windowVars, Counts!WNext, Counts!Pass
  <2>3. ASSUME \/ \E c \in Callers : CheckSlidingWindow(c) \/ SendFails(c)
               \/ Observe \/ UNCHANGED vars
        PROVE  UNCHANGED Counts!wvars
    BY <2>3 DEF CheckSlidingWindow, Send, SendFails, NotAnswered, Observe, callVars,
                vars, windowVars, Counts!wvars
  <2> QED BY <2>1, <2>2, <2>3 DEF Next
<1> QED BY <1>1, <1>2, Invariance, PTL DEF Spec, ImplementsWindowCounts
=============================================================================
