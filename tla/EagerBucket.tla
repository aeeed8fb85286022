---------------------------- MODULE EagerBucket ----------------------------
(***************************************************************************)
(* What the token bucket promises, with no store, no key expiry, no time   *)
(* stamps and no callers: a level that gains Rate units at every tick of   *)
(* the clock, never exceeds Full, and pays for every admitted request.  A  *)
(* request is refused only when the level really is too low for it.        *)
(***************************************************************************)
EXTENDS Integers

CONSTANTS Full,      \* the bucket's capacity, in units
          Rate,      \* units gained per tick
          Prices     \* what a request may cost, in units

VARIABLES level,     \* the units in the bucket now
          answer     \* the last request's price and whether it was admitted

evars == <<level, answer>>

EInit == /\ level = Full
         /\ answer = [price |-> 0, allowed |-> TRUE]

Gain == /\ level' = IF level + Rate < Full THEN level + Rate ELSE Full
        /\ UNCHANGED answer

Admit(p) == /\ p <= level
            /\ level' = level - p
            /\ answer' = [price |-> p, allowed |-> TRUE]

Refuse(p) == /\ p > level
             /\ UNCHANGED level
             /\ answer' = [price |-> p, allowed |-> FALSE]

ENext == Gain \/ \E p \in Prices : Admit(p) \/ Refuse(p)

ESpec == EInit /\ [][ENext]_evars
=============================================================================
