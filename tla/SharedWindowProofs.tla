------------------------- MODULE SharedWindowProofs -------------------------
(***************************************************************************)
(* Proofs about SharedWindow: what rules with the same window that share a *)
(* counter are guaranteed, for any number of them, any limits, and any     *)
(* callers, costs, delay, skew and retries.                                *)
(***************************************************************************)
EXTENDS SharedWindow, TLAPS

\* The window that the rules have in common.
Window == RuleOf[CHOOSE route \in Sharing : TRUE].window

\* The first second of window k.
Start(k) == Window * k

\* Types; unlike a counter that one rule uses, this one may exceed the limit of
\* the rule it is used with.
CountsOK ==
  /\ curr \in Nat /\ prev \in Nat /\ idx \in Indices /\ expire_at \in Nat
  /\ routes \in [Callers -> Sharing]
  /\ counted \in [Sharing -> [Indices -> Nat]]
  /\ together \in [Indices -> Nat]

\* The keys are in no window of the future, and outlive it by another one.
KeysInv ==
  /\ Start(idx) <= clock + MaxSkew
  /\ expire_at > 0 => Start(idx) + 2 * Window <= expire_at + MaxSkew
  /\ expire_at = 0 => /\ idx = 0 /\ together[0] = 0
                      /\ \A route \in Sharing : counted[route][0] = 0

\* The current count is what all routes were allowed in the current window, and
\* nobody has been allowed anything in a later one.
CountedInv ==
  /\ together[idx] = curr
  /\ \A route \in Sharing : counted[route][idx] <= curr
  /\ \A i \in Indices : i > idx =>
       together[i] = 0 /\ \A route \in Sharing : counted[route][i] = 0

IInv == SameWindow =>
  CallsTypeOK /\ StampsInv /\ CountsOK /\ KeysInv /\ CountedInv /\ EqualWindowsHold

-----------------------------------------------------------------------------
(* Arithmetic *)

LEMMA Constants ==
  /\ MaxSkew \in Nat /\ MaxDelay \in Nat /\ MaxRetries \in Nat /\ MaxClock \in Nat
  /\ MaxSkew + MaxDelay <= MaxClock
  /\ Costs \subseteq Int
  /\ 0 \in Indices /\ Indices \subseteq Nat
BY CallAssumption DEF CallAssumption, Indices

LEMMA CommonWindow ==
  ASSUME SameWindow
  PROVE  /\ Sharing # {} /\ \A route \in Sharing : RuleOf[route].limit \in Nat \ {0}
         /\ Window \in Nat \ {0} /\ MaxDelay + 2 * MaxSkew <= Window
         /\ \A route \in Sharing : RuleOf[route].window = Window
<1> DEFINE some == CHOOSE route \in Sharing : TRUE
<1>1. some \in Sharing
  BY DEF SameWindow
<1> QED BY <1>1 DEF SameWindow, Window

LEMMA Products ==
  /\ \A a, b \in Nat : a * b \in Nat
  /\ \A n \in Nat, a, b \in Int : a <= b => n * a <= n * b
  /\ \A n \in Nat \ {0}, a, b \in Int : a * n <= b * n => a <= b
  /\ \A n, a, b \in Int : a * n + b * n = (a + b) * n
BY Z3

LEMMA Starts ==
  ASSUME SameWindow
  PROVE  /\ \A k \in Int : Start(k) \in Int /\ Start(k + 1) = Start(k) + Window
         /\ \A j, k \in Int : j <= k => Start(j) <= Start(k)
         /\ Start(0) = 0
<1>1. Window \in Nat
  BY CommonWindow
<1>2. \A r \in Nat, k \in Int : r * k \in Int /\ r * (k + 1) = r * k + r /\ r * 0 = 0
  BY Z3
<1> QED BY <1>1, <1>2, Products DEF Start

\* The window of a time: it has started and the next one has not.
LEMMA WindowOf ==
  ASSUME SameWindow, NEW t \in Nat
  PROVE  /\ t \div Window \in Nat /\ t \div Window <= t
         /\ t % Window \in 0..(Window - 1)
         /\ Start(t \div Window) <= t
         /\ \A k \in Int : Start(k) <= t => k <= t \div Window
<1>1. Window \in Nat \ {0}
  BY CommonWindow
<1>2. \A n \in Nat \ {0}, u \in Nat :
        /\ u \div n \in Nat /\ u \div n <= u /\ u % n \in 0..(n - 1)
        /\ n * (u \div n) <= u /\ u < n * (u \div n) + n
  BY Z3
<1> DEFINE w == t \div Window
<1>3. /\ w \in Nat /\ w <= t /\ t % Window \in 0..(Window - 1)
      /\ Start(w) <= t /\ t < Start(w) + Window
  BY <1>1, <1>2 DEF Start
<1> HIDE DEF w
<1>4. \A k \in Int : Start(k) <= t => k <= w
  <2> SUFFICES ASSUME NEW k \in Int, Start(k) <= t, ~(k <= w) PROVE FALSE
    BY <1>3
  <2>1. Start(w + 1) <= Start(k) /\ Start(w + 1) = Start(w) + Window
    BY <1>3, Starts
  <2> QED BY <2>1, <1>1, <1>3, Starts
<1> QED BY <1>3, <1>4 DEF w

-----------------------------------------------------------------------------
(* The calls *)

LEMMA IdleIsCall == Idle \in Calls
BY Constants DEF Idle, Calls

LEMMA SendKeeps ==
  ASSUME CallsTypeOK, StampsInv, NEW c \in Callers, Send(c)
  PROVE  CallsTypeOK' /\ StampsInv'
<1>1. PICK cost \in Costs, skew \in Skews : calls' = [calls EXCEPT ![c] =
         [pc |-> "sent", now |-> clock + skew, cost |-> cost,
          since |-> clock, retries |-> MaxRetries]]
  BY DEF Send
<1> DEFINE call == [pc |-> "sent", now |-> clock + skew, cost |-> cost,
                    since |-> clock, retries |-> MaxRetries]
<1>2. /\ clock \in Nat /\ skew \in Int /\ -MaxSkew <= skew /\ skew <= MaxSkew
      /\ clock + skew \in Nat /\ clock' = clock
  BY Constants DEF CallsTypeOK, Skews, Send
<1>3. call \in Calls
  BY <1>2, Constants DEF Calls
<1>4. CallsTypeOK'
  BY <1>1, <1>2, <1>3 DEF CallsTypeOK
<1>5. calls'[c] = call /\ \A d \in Callers : d # c => calls'[d] = calls[d]
  BY <1>1 DEF CallsTypeOK
<1>6. /\ call.cost \in Costs /\ call.since <= clock' /\ clock' <= call.since + MaxDelay
      /\ call.since - MaxSkew <= call.now /\ call.now <= call.since + MaxSkew
  BY <1>2, Constants
<1> QED BY <1>2, <1>4, <1>5, <1>6 DEF StampsInv

LEMMA EndKeeps ==
  ASSUME CallsTypeOK, StampsInv, NEW c \in Callers, Answered(c) \/ NotAnswered(c)
  PROVE  CallsTypeOK' /\ StampsInv' /\ clock' = clock
<1>1. calls[c] \in Calls /\ calls[c].pc = "sent" /\ clock' = clock
  BY DEF CallsTypeOK, Answered, NotAnswered
<1>2. PICK call \in Calls :
        /\ calls' = [calls EXCEPT ![c] = call]
        /\ call.pc = "sent" => call.now = calls[c].now /\ call.cost = calls[c].cost
                               /\ call.since = calls[c].since
  <2>1. Idle.pc # "sent" /\ Idle \in Calls
    BY IdleIsCall DEF Idle
  <2>2. CASE Answered(c) \/ ~(calls[c].retries > 0)
    BY <2>1, <2>2 DEF Answered, NotAnswered, AfterFailure
  <2>3. CASE NotAnswered(c) /\ calls[c].retries > 0
    <3> DEFINE call == [pc |-> "sent", now |-> calls[c].now, cost |-> calls[c].cost,
                        since |-> calls[c].since, retries |-> calls[c].retries - 1]
    <3>1. calls' = [calls EXCEPT ![c] = call]
      BY <2>3 DEF NotAnswered, AfterFailure
    <3>2. call \in Calls
      BY <1>1, <2>3, Constants DEF Calls
    <3> QED BY <3>1, <3>2
  <2> QED BY <2>2, <2>3
<1>3. calls'[c] = call /\ \A d \in Callers : d # c => calls'[d] = calls[d]
  BY <1>2 DEF CallsTypeOK
<1>4. CallsTypeOK'
  BY <1>1, <1>2 DEF CallsTypeOK
<1> QED BY <1>1, <1>2, <1>3, <1>4 DEF StampsInv

LEMMA TimeKeeps ==
  ASSUME CallsTypeOK, StampsInv, TimePasses
  PROVE  CallsTypeOK' /\ StampsInv' /\ clock' = clock + 1
<1>1. clock \in Nat /\ clock' = clock + 1 /\ clock < MaxClock /\ MaxSkew <= clock /\ calls' = calls
  BY Constants DEF CallsTypeOK, TimePasses
<1>2. CallsTypeOK'
  BY <1>1, Constants DEF CallsTypeOK
<1>3. \A c \in Callers : calls[c].since \in Nat /\ calls[c].now \in Nat
  BY DEF CallsTypeOK, Calls
<1> QED BY <1>1, <1>2, <1>3, Constants DEF StampsInv, TimePasses

\* The stamp and the price a script is run with.
LEMMA StampFacts ==
  ASSUME SameWindow, CallsTypeOK, StampsInv, NEW c \in Callers, calls[c].pc = "sent"
  PROVE  /\ calls[c].now \in Nat
         /\ clock - (MaxDelay + MaxSkew) <= calls[c].now
         /\ calls[c].now <= clock + MaxSkew
         /\ calls[c].now \div Window \in Indices
         /\ EffectiveCost(calls[c].cost) \in Nat \ {0}
<1>1. /\ calls[c].now \in Nat /\ calls[c].since \in Nat /\ clock \in Nat
      /\ clock <= MaxClock
  BY Constants DEF CallsTypeOK, Calls
<1>2. /\ calls[c].cost \in Costs
      /\ calls[c].since <= clock /\ clock <= calls[c].since + MaxDelay
      /\ calls[c].since - MaxSkew <= calls[c].now
      /\ calls[c].now <= calls[c].since + MaxSkew
  BY DEF StampsInv
<1>3. /\ clock - (MaxDelay + MaxSkew) <= calls[c].now
      /\ calls[c].now <= clock + MaxSkew
      /\ calls[c].now <= MaxClock + MaxSkew
  BY <1>1, <1>2, Constants
<1>4. calls[c].now \div Window \in Indices
  BY <1>1, <1>3, WindowOf, Constants DEF Indices
<1>5. EffectiveCost(calls[c].cost) \in Nat \ {0}
  <2>1. calls[c].cost \in Int
    BY <1>2, Constants
  <2> QED BY <2>1 DEF EffectiveCost
<1> QED BY <1>1, <1>3, <1>4, <1>5

-----------------------------------------------------------------------------
(* The script *)

\* A rollover is to a window in which nobody has been allowed anything: keys that
\* have expired are those of a window that no stamp can be in any more.
LEMMA RollsToUnused ==
  ASSUME SameWindow, CallsTypeOK, StampsInv, CountsOK, KeysInv, CountedInv,
         NEW c \in Callers, calls[c].pc = "sent",
         NEW w, w = calls[c].now \div Window, RollsOver(w)
  PROVE  idx <= w /\ together[w] = 0 /\ \A route \in Sharing : counted[route][w] = 0
<1>1. /\ w \in Indices /\ w \in Nat /\ idx \in Nat /\ clock \in Nat
      /\ expire_at \in Nat /\ calls[c].now \in Nat /\ Start(idx) \in Int
  <2>1. w \in Indices /\ calls[c].now \in Nat
    BY StampFacts
  <2>2. idx \in Nat /\ expire_at \in Nat /\ clock \in Nat
    BY Constants DEF CallsTypeOK, CountsOK
  <2>3. Start(idx) \in Int
    BY <2>2, Starts
  <2> QED BY <2>1, <2>2, <2>3, Constants
<1>2. CASE w > idx
  BY <1>1, <1>2 DEF CountedInv
<1>3. CASE ~(w > idx) /\ expire_at = 0
  <2>1. w = 0
    BY <1>1, <1>3 DEF KeysInv
  <2> QED BY <1>1, <1>3, <2>1 DEF KeysInv
<1>4. CASE ~(w > idx) /\ expire_at > 0
  <2>1. expire_at <= clock
    BY <1>1, <1>4 DEF RollsOver, Live
  <2>2. Start(idx) + Window <= calls[c].now
    BY <1>1, <1>4, <2>1, StampFacts, CommonWindow, Constants DEF KeysInv
  <2>3. Start(idx + 1) <= calls[c].now
    BY <1>1, <2>2, Starts
  <2>4. idx + 1 <= w
    BY <1>1, <2>3, WindowOf
  <2> QED BY <1>1, <1>4, <2>4
<1> QED BY <1>1, <1>2, <1>3, <1>4

\* What a script that runs under a rule of the common window leaves behind: it
\* allows only what leaves the count within the rule's limit.
LEMMA ScriptFacts ==
  ASSUME SameWindow, CountsOK, NEW now \in Nat, NEW price \in Nat \ {0},
         NEW limit \in Nat \ {0}, NEW w, w = now \div Window,
         Script(limit, Window, now, price)
  PROVE  /\ Admitted \in Nat /\ prev' \in Nat
         /\ CurrCount(w) \in Nat /\ curr' = CurrCount(w) + Admitted
         /\ Admitted > 0 => CurrCount(w) + Admitted <= limit
         /\ idx' = IF RollsOver(w) THEN w ELSE idx
         /\ expire_at' = IF RollsOver(w) \/ Admitted > 0 THEN clock + 2 * Window ELSE expire_at
<1> DEFINE p == PrevCount(w)
           k == CurrCount(w)
           e == now % Window
           fits == p * (Window - e) + k * Window + price * Window <= limit * Window
<1>1. p \in Nat /\ k \in Nat
  BY DEF CountsOK, PrevCount, CurrCount
<1>2. Window \in Nat \ {0} /\ Window - e \in Nat
  <2>1. Window \in Nat \ {0}
    BY CommonWindow
  <2>2. e \in 0..(Window - 1)
    BY WindowOf
  <2> HIDE DEF e
  <2> QED BY <2>1, <2>2
<1>3. /\ prev' = p /\ curr' = k + (IF fits THEN price ELSE 0)
      /\ idx' = IF RollsOver(w) THEN w ELSE idx
      /\ expire_at' = IF RollsOver(w) \/ fits THEN clock + 2 * Window ELSE expire_at
      /\ Admitted = IF fits THEN price ELSE 0
  BY DEF Script, Estimate, TimeToLive, Admitted
<1> HIDE DEF p, k, e
<1>4. fits => k + price <= limit
  <2> SUFFICES ASSUME fits PROVE k + price <= limit
    OBVIOUS
  <2>1. p * (Window - e) \in Nat /\ k * Window \in Nat /\ price * Window \in Nat
        /\ limit * Window \in Nat
    BY <1>1, <1>2, Products
  <2>2. k * Window + price * Window <= limit * Window
    BY <2>1
  <2>3. k * Window + price * Window = (k + price) * Window
    BY <1>1, <1>2, Products
  <2>4. (k + price) * Window <= limit * Window
    BY <2>2, <2>3
  <2> QED BY <2>4, <1>1, <1>2, Products
<1> QED BY <1>1, <1>3, <1>4 DEF k

\* Only a script changes the counts, and the calls change by themselves.
RunOf(c) ==
  /\ (Answered(c) \/ NotAnswered(c)) /\ RunScript(c)

LEMMA RunCounts ==
  ASSUME SameWindow, IInv, NEW c \in Callers, RunOf(c)
  PROVE  CountsOK' /\ KeysInv' /\ CountedInv' /\ EqualWindowsHold'
<1> DEFINE now == calls[c].now
           w == now \div Window
           price == EffectiveCost(calls[c].cost)
           route == routes[c]
           limit == RuleOf[route].limit
           x == Admitted
<1>1. /\ CallsTypeOK /\ StampsInv /\ CountsOK /\ KeysInv /\ CountedInv
      /\ EqualWindowsHold /\ calls[c].pc = "sent" /\ clock' = clock
  BY DEF IInv, RunOf, Answered, NotAnswered
<1>2. /\ route \in Sharing /\ limit \in Nat \ {0} /\ RuleOf[route].window = Window
      /\ Window \in Nat \ {0}
  BY <1>1, CommonWindow DEF CountsOK
<1>3. /\ now \in Nat /\ now <= clock + MaxSkew /\ w \in Indices /\ w \in Nat
      /\ price \in Nat \ {0} /\ clock \in Nat
  <2>1. w \in Indices
    BY <1>1, StampFacts
  <2>2. now \in Nat /\ now <= clock + MaxSkew /\ price \in Nat \ {0}
    BY <1>1, StampFacts
  <2>3. clock \in Nat
    BY <1>1, Constants DEF CallsTypeOK
  <2> QED BY <2>1, <2>2, <2>3, Constants
<1>4. /\ Script(limit, Window, now, price)
      /\ counted' = [counted EXCEPT ![route][idx'] = @ + x]
      /\ together' = [together EXCEPT ![idx'] = @ + x]
      /\ routes' = routes
  BY <1>2 DEF RunOf, RunScript
<1>5. /\ x \in Nat /\ prev' \in Nat
      /\ CurrCount(w) \in Nat /\ curr' = CurrCount(w) + x
      /\ x > 0 => CurrCount(w) + x <= limit
      /\ idx' = IF RollsOver(w) THEN w ELSE idx
      /\ expire_at' = IF RollsOver(w) \/ x > 0 THEN clock + 2 * Window ELSE expire_at
  BY <1>1, <1>2, <1>3, <1>4, ScriptFacts
<1>6. RollsOver(w) => idx <= w /\ together[w] = 0 /\ \A r \in Sharing : counted[r][w] = 0
  BY <1>1, RollsToUnused
<1>7. Start(w) <= now /\ Start(w) \in Int
  <2>1. Start(w) <= now
    BY <1>3, WindowOf
  <2>2. w \in Int
    BY <1>3
  <2> HIDE DEF w
  <2> QED BY <2>1, <2>2, Starts
<1> HIDE DEF now, w, price, route, limit, x
<1>8. /\ idx' \in Indices /\ idx \in Indices /\ idx' \in Nat /\ idx \in Nat
      /\ idx <= idx' /\ expire_at \in Nat /\ curr' \in Nat
      /\ counted \in [Sharing -> [Indices -> Nat]] /\ together \in [Indices -> Nat]
  BY <1>1, <1>3, <1>5, <1>6, Constants DEF CountsOK
\* Before the script the window it counts in holds what CurrCount is.
<1>9. /\ together[idx'] = CurrCount(w)
      /\ \A r \in Sharing : counted[r][idx'] <= CurrCount(w)
  <2>1. CASE RollsOver(w)
    BY <2>1, <1>5, <1>6 DEF CurrCount
  <2>2. CASE ~RollsOver(w)
    BY <2>2, <1>1, <1>5 DEF CurrCount, CountedInv
  <2> QED BY <2>1, <2>2
<1>10. /\ together' \in [Indices -> Nat] /\ counted' \in [Sharing -> [Indices -> Nat]]
       /\ together'[idx'] = together[idx'] + x
       /\ \A i \in Indices : i # idx' => together'[i] = together[i]
       /\ counted'[route][idx'] = counted[route][idx'] + x
       /\ \A r \in Sharing, i \in Indices :
            r # route \/ i # idx' => counted'[r][i] = counted[r][i]
  <2>1. /\ together' \in [Indices -> Nat]
        /\ together'[idx'] = together[idx'] + x
        /\ \A i \in Indices : i # idx' => together'[i] = together[i]
    BY <1>4, <1>5, <1>8
  <2> DEFINE row == [counted[route] EXCEPT ![idx'] = @ + x]
  <2>2. /\ row \in [Indices -> Nat] /\ row[idx'] = counted[route][idx'] + x
        /\ \A i \in Indices : i # idx' => row[i] = counted[route][i]
    <3>1. counted[route] \in [Indices -> Nat]
      BY <1>2, <1>8
    <3>2. counted[route][idx'] + x \in Nat
      BY <3>1, <1>5, <1>8
    <3> QED BY <3>1, <3>2, <1>8
  <2>3. counted' = [counted EXCEPT ![route] = row]
    BY <1>4
  <2> HIDE DEF row
  <2>4. /\ counted' \in [Sharing -> [Indices -> Nat]]
        /\ counted'[route] = row
        /\ \A r \in Sharing : r # route => counted'[r] = counted[r]
    BY <2>2, <2>3, <1>2, <1>8
  <2> QED BY <2>1, <2>2, <2>4
<1>11. CountsOK'
  <2>1. routes' \in [Callers -> Sharing]
    BY <1>1, <1>4 DEF CountsOK
  <2>2. expire_at' \in Nat
    BY <1>2, <1>3, <1>5, <1>8
  <2> QED BY <2>1, <2>2, <1>5, <1>8, <1>10 DEF CountsOK
<1>12. CountedInv'
  <2>1. together'[idx'] = curr'
    BY <1>5, <1>9, <1>10
  <2>2. \A r \in Sharing : counted'[r][idx'] <= curr'
    <3> SUFFICES ASSUME NEW r \in Sharing PROVE counted'[r][idx'] <= curr'
      OBVIOUS
    <3>1. counted[r][idx'] \in Nat /\ counted[r][idx'] <= CurrCount(w)
      BY <1>8, <1>9
    <3>2. counted'[r][idx'] = counted[r][idx'] + x \/ counted'[r][idx'] = counted[r][idx']
      BY <1>8, <1>10
    <3> QED BY <3>1, <3>2, <1>5
  <2>3. \A i \in Indices : i > idx' =>
          together'[i] = 0 /\ \A r \in Sharing : counted'[r][i] = 0
    <3> SUFFICES ASSUME NEW i \in Indices, i > idx'
                 PROVE  together'[i] = 0 /\ \A r \in Sharing : counted'[r][i] = 0
      OBVIOUS
    <3>1. i \in Nat /\ i > idx /\ i # idx'
      BY <1>8, Constants
    <3> QED BY <3>1, <1>1, <1>10 DEF CountedInv
  <2> QED BY <2>1, <2>2, <2>3 DEF CountedInv
<1>13. KeysInv'
  <2>1. /\ Start(idx) \in Int /\ Start(idx') \in Int
        /\ Start(idx) <= clock + MaxSkew /\ MaxSkew \in Nat
        /\ expire_at > 0 => Start(idx) + 2 * Window <= expire_at + MaxSkew
    BY <1>1, <1>8, Starts, Constants DEF KeysInv
  <2>2. Start(idx') <= clock + MaxSkew
    BY <2>1, <1>3, <1>5, <1>7
  <2>3. expire_at' > 0 /\ Start(idx') + 2 * Window <= expire_at' + MaxSkew
    <3>1. CASE RollsOver(w) \/ x > 0
      BY <3>1, <2>1, <2>2, <1>2, <1>3, <1>5
    <3>2. CASE ~(RollsOver(w) \/ x > 0)
      BY <3>2, <2>1, <1>2, <1>3, <1>5, <1>8 DEF RollsOver, Live
    <3> QED BY <3>1, <3>2
  <2>4. Start(idx)' = Start(idx')
    BY DEF Start, Window
  <2> QED BY <1>1, <2>2, <2>3, <2>4 DEF KeysInv, Window
<1>14. EqualWindowsHold'
  <2> SUFFICES ASSUME NEW i \in Indices
               PROVE  /\ \A r \in Sharing : counted'[r][i] <= RuleOf[r].limit
                      /\ \E r \in Sharing : together'[i] <= RuleOf[r].limit
    BY DEF EqualWindowsHold
  <2>1. /\ \A r \in Sharing : counted[r][i] <= RuleOf[r].limit
        /\ \E r \in Sharing : together[i] <= RuleOf[r].limit
    BY <1>1 DEF EqualWindowsHold
  <2>2. CASE i # idx' \/ x = 0
    <3>1. together'[i] = together[i] /\ \A r \in Sharing : counted'[r][i] = counted[r][i]
      <4>1. CASE i # idx'
        BY <4>1, <1>10
      <4>2. CASE i = idx' /\ x = 0
        <5>1. together[i] \in Nat /\ counted[route][i] \in Nat
          BY <1>2, <1>8
        <5> QED BY <4>2, <5>1, <1>10
      <4> QED BY <2>2, <4>1, <4>2
    <3> QED BY <2>1, <3>1
  <2>3. CASE i = idx' /\ x > 0
    <3>1. together'[i] <= RuleOf[route].limit
      BY <2>3, <1>5, <1>9, <1>10 DEF limit
    <3>2. counted'[route][i] <= RuleOf[route].limit
      <4>1. counted[route][i] \in Nat /\ counted[route][i] <= CurrCount(w)
        BY <2>3, <1>2, <1>8, <1>9
      <4> QED BY <4>1, <2>3, <1>2, <1>5, <1>10 DEF limit
    <3> QED BY <3>1, <3>2, <2>1, <1>2, <1>10
  <2> QED BY <2>2, <2>3, <1>5
<1> QED BY <1>11, <1>12, <1>13, <1>14

-----------------------------------------------------------------------------
LEMMA InitIInv == Init => IInv
<1> SUFFICES ASSUME Init, SameWindow PROVE IInv
  BY DEF IInv
<1>1. clock = MaxSkew + MaxDelay /\ calls = [c \in Callers |-> Idle]
  BY DEF Init, CallsInit
<1>2. CallsTypeOK /\ StampsInv
  <2>1. Idle.pc # "sent" /\ Idle \in Calls
    BY IdleIsCall DEF Idle
  <2> QED BY <1>1, <2>1, Constants DEF CallsTypeOK, StampsInv
<1>3. /\ curr = 0 /\ prev = 0 /\ idx = 0 /\ expire_at = 0
      /\ routes \in [Callers -> Sharing]
      /\ counted = [route \in Sharing |-> [i \in Indices |-> 0]]
      /\ together = [i \in Indices |-> 0]
  BY DEF Init, ScriptInit
<1>4. CountsOK
  BY <1>3, Constants DEF CountsOK
<1>5. KeysInv
  BY <1>1, <1>3, Starts, Constants DEF KeysInv
<1>6. CountedInv
  BY <1>3, Constants DEF CountedInv
<1>7. EqualWindowsHold
  <2>1. Sharing # {} /\ \A route \in Sharing : 0 <= RuleOf[route].limit
    BY CommonWindow
  <2> QED BY <1>3, <2>1 DEF EqualWindowsHold
<1> QED BY <1>2, <1>4, <1>5, <1>6, <1>7 DEF IInv

\* Steps that run no script leave the counts alone; a caller may have turned to
\* another route, and time may have passed.
LEMMA QuietKeeps ==
  ASSUME SameWindow, IInv, UNCHANGED <<keys, counted, together>>,
         routes' \in [Callers -> Sharing], clock' = clock \/ clock' = clock + 1
  PROVE  CountsOK' /\ KeysInv' /\ CountedInv' /\ EqualWindowsHold'
<1>1. /\ CountsOK /\ KeysInv /\ CountedInv /\ EqualWindowsHold
      /\ clock \in Nat /\ clock <= clock'
  BY Constants DEF IInv, CallsTypeOK
<1>2. idx' = idx /\ expire_at' = expire_at /\ curr' = curr /\ prev' = prev
      /\ counted' = counted /\ together' = together
  BY DEF keys
<1>3. CountsOK' /\ CountedInv' /\ EqualWindowsHold'
  BY <1>1, <1>2 DEF CountsOK, CountedInv, EqualWindowsHold
<1>4. KeysInv'
  <2>1. idx \in Int
    BY <1>1, Constants DEF CountsOK
  <2>2. Start(idx) \in Int
    BY <2>1, Starts
  <2>3. Start(idx)' = Start(idx)
    BY <1>2 DEF Start, Window
  <2>4. Start(idx) <= clock' + MaxSkew
    BY <1>1, <2>2, Constants DEF KeysInv
  <2> QED BY <1>1, <1>2, <2>3, <2>4 DEF KeysInv, Window
<1> QED BY <1>3, <1>4

LEMMA NextIInv == IInv /\ [Next]_vars => IInv'
<1> SUFFICES ASSUME IInv, [Next]_vars, SameWindow
             PROVE  IInv'
  BY DEF IInv, SameWindow
<1>1. CallsTypeOK /\ StampsInv /\ CountsOK /\ routes \in [Callers -> Sharing]
  BY DEF IInv, CountsOK
<1>2. ASSUME NEW c \in Callers, CheckSlidingWindow(c) PROVE IInv'
  <2>1. Send(c) /\ UNCHANGED <<keys, counted, together>> /\ clock' = clock
    BY <1>2 DEF CheckSlidingWindow, history, Send
  <2>2. routes' \in [Callers -> Sharing]
    BY <1>1, <1>2 DEF CheckSlidingWindow
  <2> QED BY <1>1, <2>1, <2>2, SendKeeps, QuietKeeps DEF IInv
<1>3. ASSUME NEW c \in Callers, EvalSha(c) \/ ReplyLost(c) PROVE IInv'
  <2>1. RunOf(c) /\ (Answered(c) \/ NotAnswered(c))
    BY <1>3 DEF RunOf, EvalSha, ReplyLost
  <2> QED BY <1>1, <2>1, EndKeeps, RunCounts DEF IInv
<1>4. ASSUME NEW c \in Callers, SendFails(c) PROVE IInv'
  <2>1. NotAnswered(c) /\ UNCHANGED <<keys, counted, together>> /\ routes' = routes
    BY <1>4 DEF SendFails, sharedVars, history
  <2> QED BY <1>1, <2>1, EndKeeps, QuietKeeps DEF IInv
<1>5. CASE Tick
  <2>1. TimePasses /\ UNCHANGED <<keys, counted, together>> /\ routes' = routes
    BY <1>5 DEF Tick, sharedVars, history
  <2> QED BY <1>1, <2>1, TimeKeeps, QuietKeeps DEF IInv
<1>6. CASE UNCHANGED vars
  <2>1. /\ UNCHANGED <<keys, counted, together>> /\ routes' = routes
        /\ clock' = clock /\ calls' = calls
    BY <1>6 DEF vars, callVars, sharedVars, history
  <2>2. CallsTypeOK' /\ StampsInv'
    BY <1>1, <2>1 DEF CallsTypeOK, StampsInv
  <2> QED BY <1>1, <2>1, <2>2, QuietKeeps DEF IInv
<1> QED BY <1>2, <1>3, <1>4, <1>5, <1>6 DEF Next

(***************************************************************************)
(* Rules with the same window that share a counter are each held to their  *)
(* own limit in every window, and together to the limit of one of them:    *)
(* EqualWindowsHold (RouteHash, sliding_window.lua).  It takes all of      *)
(* IInv: that a window is not reopened needs that expired keys are old.    *)
(***************************************************************************)
THEOREM EqualWindowsShare == Spec => []EqualWindowsHold
<1>1. IInv => EqualWindowsHold
  BY DEF IInv, EqualWindowsHold
<1> QED BY <1>1, InitIInv, NextIInv, PTL DEF Spec
=============================================================================
