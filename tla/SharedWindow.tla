---------------------------- MODULE SharedWindow ----------------------------
(***************************************************************************)
(* One sliding-window counter that several rules use.                      *)
(*                                                                         *)
(* SlidingWindowKeys names a counter by the hash of the route in lower     *)
(* case, and Rule.Matches compares routes as they are spelled: two         *)
(* spellings of a route may have rules of their own and one counter, on    *)
(* which the script runs with the limit and the window of the one or of    *)
(* the other.                                                              *)
(***************************************************************************)
EXTENDS WindowScript

CONSTANTS Routes,     \* routes, as callers and rules spell them
          Lower,      \* Lower[r]: strings.ToLower(r)
          RuleOf,     \* RuleOf[r]: limit and window of the rule that Resolve
                      \* chooses for r
          Counter     \* the counter looked at, by its route in lower case

VARIABLES routes,    \* routes[c]: the route that c checks
          \* History:
          charged,   \* charged[r][w]: what route r was allowed in the w-th window
                     \* of its rule
          counted,   \* counted[r][i]: what it was allowed while the window index
                     \* was i
          together   \* together[i]: what all routes were, while it was i

history == <<charged, counted, together>>
sharedVars == <<keys, verdict, routes, history>>
vars == <<callVars, sharedVars>>

\* Different routes in lower case have different hashes.
RouteHash(route) == Lower[route]

\* The three keys of a counter, told apart by the hash in their names.
SlidingWindowKeys(route) == RouteHash(route)

Sharing == {route \in Routes : SlidingWindowKeys(route) = Counter}

Indices == 0..(MaxClock + MaxSkew)

Init ==
  /\ CallsInit
  /\ ScriptInit
  /\ routes \in [Callers -> Sharing]
  /\ charged = [route \in Sharing |-> [w \in Indices |-> 0]]
  /\ counted = [route \in Sharing |-> [i \in Indices |-> 0]]
  /\ together = [i \in Indices |-> 0]

CheckSlidingWindow(c) == \E route \in Sharing :
  /\ Send(c)
  /\ routes' = [routes EXCEPT ![c] = route]
  /\ UNCHANGED <<keys, verdict, history>>

RunScript(c) ==
  LET route == routes[c]
      rule == RuleOf[route]
      now == calls[c].now
  IN /\ Script(rule.limit, rule.window, now, EffectiveCost(calls[c].cost))
     /\ charged' = [charged EXCEPT ![route][now \div rule.window] = @ + Admitted]
     /\ counted' = [counted EXCEPT ![route][idx'] = @ + Admitted]
     /\ together' = [together EXCEPT ![idx'] = @ + Admitted]
     /\ UNCHANGED routes

EvalSha(c) == Answered(c) /\ RunScript(c)
ReplyLost(c) == NotAnswered(c) /\ RunScript(c)
SendFails(c) == NotAnswered(c) /\ UNCHANGED sharedVars
Tick == TimePasses /\ UNCHANGED sharedVars

Next ==
  \/ \E c \in Callers :
       CheckSlidingWindow(c) \/ EvalSha(c) \/ ReplyLost(c) \/ SendFails(c)
  \/ Tick

Spec == Init /\ [][Next]_vars

(***************************************************************************)
(* What a rule's fields are documented to be: LimitCount is the most that  *)
(* a window of WindowSeconds lets through.  Where routes with different    *)
(* windows share the counter the code does not keep it: the shorter        *)
(* window's index is the greater one, and a rollover to it wipes out what  *)
(* the longer window has counted.                                          *)
(***************************************************************************)
EachRuleHolds == \A route \in Sharing :
  \A w \in DOMAIN charged[route] : charged[route][w] <= RuleOf[route].limit

\* The rules that share the counter, ones that Rule.Validate lets through, have
\* the same window, and stamps are off by no more than that.
SameWindow ==
  /\ Sharing # {}
  /\ \A route \in Sharing :
       /\ RuleOf[route].limit \in Nat \ {0} /\ RuleOf[route].window \in Nat \ {0}
       /\ MaxDelay + 2 * MaxSkew <= RuleOf[route].window
  /\ \A route, other \in Sharing : RuleOf[route].window = RuleOf[other].window

(***************************************************************************)
(* Rules with the same window do share a counter well: while the counter   *)
(* is in a window each of them is allowed at most its own limit, and all   *)
(* of them together at most the limit of some one of them, whichever route *)
(* rolls the window over, with stamps off by at most a window              *)
(* (sliding_window.lua 23-35, 51-55; keys.go 21).                          *)
(***************************************************************************)
EqualWindowsHold == SameWindow =>
  \A i \in Indices :
    /\ \A route \in Sharing : counted[route][i] <= RuleOf[route].limit
    /\ \E route \in Sharing : together[i] <= RuleOf[route].limit
=============================================================================
