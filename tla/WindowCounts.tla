---------------------------- MODULE WindowCounts ----------------------------
(***************************************************************************)
(* What the sliding window promises: a count for EVERY window of time that *)
(* was ever charged, never rolled over and never forgotten.  A request is  *)
(* admitted exactly when its window's count, plus the previous window's    *)
(* count weighted by the share of it that the sliding window still covers, *)
(* leaves room for it.                                                     *)
(***************************************************************************)
EXTENDS Integers

CONSTANTS Limit, Window, Windows, Prices

VARIABLES time,     \* the time of the last request, in seconds
          count,    \* count[w]: what was admitted in window w
          answer    \* the last request's price and whether it was admitted

wvars == <<time, count, answer>>

\* What the sliding window holds at time t, times Window.
Covered(t) ==
  LET w == t \div Window
      prev == IF w - 1 \in Windows THEN count[w - 1] ELSE 0
  IN prev * (Window - (t % Window)) + count[w] * Window

Fits(p) == Covered(time) + p * Window <= Limit * Window

WInit == /\ time \in Nat
         /\ count = [w \in Windows |-> 0]
         /\ answer = [price |-> 0, allowed |-> TRUE]

Pass == time' = time + 1 /\ UNCHANGED <<count, answer>>

Admit(p) == /\ Fits(p)
            /\ count' = [count EXCEPT ![time \div Window] = @ + p]
            /\ answer' = [price |-> p, allowed |-> TRUE]
            /\ UNCHANGED time

Refuse(p) == /\ ~Fits(p)
             /\ answer' = [price |-> p, allowed |-> FALSE]
             /\ UNCHANGED <<time, count>>

WNext == Pass \/ \E p \in Prices : Admit(p) \/ Refuse(p)

WSpec == WInit /\ [][WNext]_wvars
=============================================================================
