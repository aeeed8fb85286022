--------------------------- MODULE SlidingWindow ---------------------------
(***************************************************************************)
(* One sliding window under one rule: the counter of one (tenant, route,   *)
(* subject) and its concurrent callers.                                    *)
(***************************************************************************)
EXTENDS WindowScript

CONSTANTS Limit,    \* rule.LimitCount
          Window    \* rule.WindowSeconds

ASSUME WindowAssumption ==
  /\ Limit \in Nat \ {0}
  /\ Window \in Nat \ {0}
  \* Stamps are off by at most a window.
  /\ MaxDelay + 2 * MaxSkew <= Window

VARIABLES
  charged,     \* history: charged[w], what was admitted into window w's count
  exact,       \* history: every script so far was stamped with Redis's time
  \* An observer that may start measuring at any moment (no code behind it):
  mark,        \* when it started
  spent        \* what was admitted in the Window seconds since then

windowVars == <<keys, verdict, charged, exact, mark, spent>>
vars == <<callVars, windowVars>>

Windows == 0..((MaxClock + MaxSkew) \div Window)

-----------------------------------------------------------------------------
Init ==
  /\ CallsInit
  /\ ScriptInit
  /\ charged = [w \in Windows |-> 0]
  /\ exact = TRUE
  /\ mark = clock /\ spent = 0

CheckSlidingWindow(c) == Send(c) /\ UNCHANGED windowVars

RunScript(c) ==
  /\ Script(Limit, Window, calls[c].now, EffectiveCost(calls[c].cost))
  /\ charged' = [charged EXCEPT ![idx'] = @ + Admitted]
  /\ exact' = (exact /\ calls[c].now = clock)
  /\ spent' = IF clock < mark + Window THEN spent + Admitted ELSE spent
  /\ UNCHANGED mark

\* The script runs and its reply reaches the caller.
EvalSha(c) == Answered(c) /\ RunScript(c)

\* The script runs but its reply is lost: a retry runs it again.
ReplyLost(c) == NotAnswered(c) /\ RunScript(c)

\* The command never reaches Redis.
SendFails(c) == NotAnswered(c) /\ UNCHANGED windowVars

Tick == TimePasses /\ UNCHANGED windowVars

\* The observer starts measuring.
Observe ==
  /\ mark' = clock /\ spent' = 0
  /\ UNCHANGED <<callVars, keys, verdict, charged, exact>>

Next ==
  \/ \E c \in Callers :
       CheckSlidingWindow(c) \/ EvalSha(c) \/ ReplyLost(c) \/ SendFails(c)
  \/ Tick
  \/ Observe

Spec == Init /\ [][Next]_vars

-----------------------------------------------------------------------------
(***************************************************************************)
(* Types: the counts never exceed the limit, and nothing reported is       *)
(* negative.                                                               *)
(***************************************************************************)
TypeOK ==
  /\ CallsTypeOK
  /\ curr \in 0..Limit
  /\ prev \in 0..Limit
  /\ idx \in Windows
  /\ expire_at \in Nat
  /\ verdict \in [price : Nat, allowed : BOOLEAN, remaining : 0..Limit,
                  reset_at : Nat, retry_after : 0..Window]
  /\ charged \in [Windows -> Nat]
  /\ exact \in BOOLEAN
  /\ mark \in Nat /\ mark <= clock
  /\ spent \in Nat

(***************************************************************************)
(* No window is ever charged more than the limit, with stamps that are off *)
(* by at most a window, retried commands and expiry: a late script charges *)
(* the window the keys are in, and a window that was left is never reopened *)
(* (sliding_window.lua 23-35, 51-55).                                      *)
(***************************************************************************)
WindowNeverOvercharged == \A w \in Windows : charged[w] <= Limit

(***************************************************************************)
(* Any Window consecutive seconds, wherever they start, admit less than    *)
(* twice the limit when stamps are true to a second.  Stamps that are late *)
(* or ahead by more let such a stretch charge three windows, and each of   *)
(* them be weighed as if at its end: then the bound is near three times    *)
(* the limit, 3 - 2/Window + 1/Window^2 of it (sliding_window.lua 37-44).  *)
(***************************************************************************)
RollingBound ==
  LET drift == IF exact THEN 0 ELSE MaxDelay + 2 * MaxSkew
  IN IF drift < 2
     THEN spent * Window <= Limit * (2 * Window - 1)
     ELSE spent * Window * Window <= Limit * (3 * Window * Window - 2 * Window + 1)

(***************************************************************************)
(* Expiry forgets at most what no longer counts: once the keys are gone,   *)
(* every stamp that can still arrive is two windows on, or so late that    *)
(* the forgotten window's weight is within the drift of the stamps         *)
(* (sliding_window.lua 32-34, 53-55).                                      *)
(***************************************************************************)
ExpiryForgetsNothing ==
  (expire_at > 0 /\ ~Live) =>
    \A t \in (clock - MaxDelay - MaxSkew)..(clock + MaxSkew) :
      \/ t \div Window >= idx + 2
      \/ Window - (t % Window) <= MaxDelay + 2 * MaxSkew

(***************************************************************************)
(* The stored window never goes back, also if the keys have expired, with  *)
(* stamps that are late by at most a window (sliding_window.lua 20-35).    *)
(***************************************************************************)
IndexNeverGoesBack == [][idx' >= idx]_vars

(***************************************************************************)
(* A window after reset_at everything is available again: the next script  *)
(* admits any request the rule can admit at all.  (The answer to a stamp   *)
(* older than the keys' window names that older window's end, so it is     *)
(* left out.)                                                              *)
(***************************************************************************)
ClearAfterAnotherWindow ==
  [][\A c \in Callers :
       ( /\ EvalSha(c) /\ verdict.price > 0
         /\ EffectiveCost(calls[c].cost) <= Limit
         /\ verdict.reset_at > idx * Window
         /\ calls[c].now >= verdict.reset_at + Window )
       => verdict'.allowed]_vars

(***************************************************************************)
(* What the API documents of reset_at and retry_after: at reset_at, which  *)
(* is where retry_after leads, the limit has fully reset.  The code does   *)
(* not keep it.                                                            *)
(***************************************************************************)
ClearAtResetAt ==
  [][\A c \in Callers :
       ( /\ EvalSha(c) /\ verdict.price > 0
         /\ EffectiveCost(calls[c].cost) <= Limit
         /\ calls[c].now >= verdict.reset_at )
       => verdict'.allowed]_vars

-----------------------------------------------------------------------------
(***************************************************************************)
(* For as long as stamps are Redis's own time three expiring keys are as   *)
(* good as a count kept for ever for every window.                         *)
(***************************************************************************)
Counts == INSTANCE WindowCounts WITH
            time <- clock, count <- charged,
            answer <- [price |-> verdict.price, allowed |-> verdict.allowed]

ImplementsWindowCounts ==
  Counts!WInit /\ [][exact' => Counts!WNext]_(Counts!wvars)
=============================================================================
