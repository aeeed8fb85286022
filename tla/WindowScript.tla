---------------------------- MODULE WindowScript ----------------------------
(***************************************************************************)
(* sliding_window.lua: the three Redis keys (current count, previous       *)
(* count, window index) of one counter and the script that Redis runs on   *)
(* them atomically.  The limit and the window are arguments of the script, *)
(* as they are in the code.                                                *)
(*                                                                         *)
(* Time is counted in seconds, as the script does; that a stamp drops the  *)
(* fraction of the second is part of MaxDelay.  The script's estimate is   *)
(* kept exact by multiplying it by the window.                             *)
(*                                                                         *)
(* Every write of the script gives the three keys the same time to live,   *)
(* so they expire together: one expire_at stands for the three.            *)
(***************************************************************************)
EXTENDS LimiterCalls

VARIABLES curr,        \* the key of the current window's count
          prev,        \* the key of the previous window's count
          idx,         \* the key of the window index
          expire_at,   \* when the three keys expire; keys in the past are absent
          verdict      \* what the last script run returned, and for what

keys == <<curr, prev, idx, expire_at>>

Prices == {EffectiveCost(cost) : cost \in Costs}

\* GET finds the keys: expired keys are gone to every reader.
Live == clock < expire_at

\* Mutant: the window rolls over whenever the indices differ, also backwards.
RollsOverEitherWay(w) == ~Live \/ idx # w

\* The stored window is missing or older than the request's.
RollsOver(w) == ~Live \/ idx < w

\* Mutant: the count of any older window becomes the previous count.
PrevOfAnyAge(w) == IF ~RollsOver(w) THEN prev ELSE IF Live THEN curr ELSE 0

\* The previous window's count after the rollover step: the current count if
\* that was the window just before, else nothing.
PrevCount(w) ==
  IF ~RollsOver(w) THEN prev
  ELSE IF Live /\ idx = w - 1 THEN curr ELSE 0

CurrCount(w) == IF RollsOver(w) THEN 0 ELSE curr

\* Mutant: the previous window is not counted.
EstimateCurrOnly(window, now) == CurrCount(now \div window) * window

\* The estimate times the window: the previous window counts for what is left
\* of it.
Estimate(window, now) ==
  LET w == now \div window
  IN PrevCount(w) * (window - (now % window)) + CurrCount(w) * window

\* Mutant: the keys live for one window only.
OneWindow(window) == window

TimeToLive(window) == 2 * window

\* Mutant: the floor without math.max.
LeftUnclamped(limit, window, x) == (limit * window - x) \div window

\* What floor(limit - x) is for an x given times window, never below zero.
Left(limit, window, x) ==
  LET r == (limit * window - x) \div window IN IF r < 0 THEN 0 ELSE r

\* The whole script, run atomically by Redis at Redis's time `clock'.
Script(limit, window, now, price) ==
  LET w == now \div window
      elapsed == now % window
      estimate == Estimate(window, now)
      allowed == estimate + price * window <= limit * window
  IN /\ prev' = PrevCount(w)
     /\ curr' = CurrCount(w) + (IF allowed THEN price ELSE 0)
     /\ idx' = IF RollsOver(w) THEN w ELSE idx
     \* A refusal that does not roll over leaves the time to live alone.
     /\ expire_at' = IF RollsOver(w) \/ allowed THEN clock + TimeToLive(window)
                                                ELSE expire_at
     /\ verdict' = [price |-> price, allowed |-> allowed,
                    remaining |-> Left(limit, window,
                                       estimate + (IF allowed THEN price * window ELSE 0)),
                    reset_at |-> w * window + window,
                    retry_after |-> IF allowed THEN 0 ELSE window - elapsed]

\* What the script that has just run admitted.
Admitted == IF verdict'.allowed THEN verdict'.price ELSE 0

\* No keys yet, and no script has run.
ScriptInit ==
  /\ curr = 0 /\ prev = 0 /\ idx = 0 /\ expire_at = 0
  /\ verdict = [price |-> 0, allowed |-> TRUE, remaining |-> 0, reset_at |-> 0,
                retry_after |-> 0]
=============================================================================
