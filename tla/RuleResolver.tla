---------------------------- MODULE RuleResolver ----------------------------
(***************************************************************************)
(* RuleResolver.Resolve: the loop that picks, among a tenant's rules, the  *)
(* one that limits a route.  One step is one turn of the loop.             *)
(*                                                                         *)
(* A route is a sequence of bytes.  A route pattern is its text without a  *)
(* trailing star, and whether it had one: "*" is the empty path with a     *)
(* star.                                                                   *)
(***************************************************************************)
EXTENDS Naturals, Sequences

CONSTANTS Paths,      \* the paths that patterns and routes are made of
          MaxRules    \* the longest rule list

\* check.go: maxRouteLen.
MaxRouteLen == 512

\* The handler trims and refuses empty and longer routes.
Routes == {p \in Paths : Len(p) > 0 /\ Len(p) <= MaxRouteLen}

ASSUME ResolverAssumption ==
  /\ \A p \in Paths : p \in Seq(STRING)
  /\ MaxRules \in Nat

\* Validate refuses an empty pattern.
Rules == {r \in [path : Paths \cup {<< >>}, star : BOOLEAN, enabled : BOOLEAN] :
            r.star \/ Len(r.path) > 0}

VARIABLES rules,      \* the tenant's rules in the order the query returned them
          route,      \* the request's route
          i,          \* the loop's index
          best,       \* index of the best rule so far; 0 for nil
          bestScore   \* its score; 0 stands for the code's -1 before the first

vars == <<rules, route, i, best, bestScore>>

-----------------------------------------------------------------------------
(***************************************************************************)
(* entity/rule.go.                                                         *)
(***************************************************************************)
HasPrefix(r, p) == Len(p) <= Len(r) /\ \A k \in 1..Len(p) : r[k] = p[k]

IsDefault(rule) == rule.star /\ Len(rule.path) = 0

Matches(rule, r) ==
  \/ IsDefault(rule)
  \/ rule.star /\ HasPrefix(r, rule.path)
  \/ ~rule.star /\ r = rule.path

MatchKindFor(rule, r) ==
  IF ~Matches(rule, r) THEN "none"
  ELSE IF IsDefault(rule) THEN "default"
  ELSE IF rule.star THEN "prefix" ELSE "exact"

\* Mutant: an exact match scores its length alone.
SpecificityByLength(rule, r) ==
  IF MatchKindFor(rule, r) \in {"exact", "prefix"} THEN Len(rule.path)
  ELSE IF MatchKindFor(rule, r) = "default" THEN 1 ELSE 0

Specificity(rule, r) ==
  IF MatchKindFor(rule, r) = "exact" THEN 1000 + Len(rule.path)
  ELSE IF MatchKindFor(rule, r) = "prefix" THEN Len(rule.path)
  ELSE IF MatchKindFor(rule, r) = "default" THEN 1 ELSE 0

-----------------------------------------------------------------------------
\* A tenant's rules have different patterns: UNIQUE (tenant_id, route_pattern).
Distinct(rs) == \A j, k \in 1..Len(rs) :
  j # k => <<rs[j].path, rs[j].star>> # <<rs[k].path, rs[k].star>>

RuleLists == UNION {{rs \in [1..n -> Rules] : Distinct(rs)} : n \in 0..MaxRules}

Init ==
  /\ rules \in RuleLists
  /\ route \in Routes
  /\ i = 1 /\ best = 0 /\ bestScore = 0

\* Mutant: disabled rules are considered too.
ConsiderDisabled ==
  /\ i <= Len(rules)
  /\ LET score == Specificity(rules[i], route)
     IN IF score > bestScore
        THEN best' = i /\ bestScore' = score
        ELSE UNCHANGED <<best, bestScore>>
  /\ i' = i + 1
  /\ UNCHANGED <<rules, route>>

\* Mutant: the turn of a rule that is taken skips the rule after it.
ConsiderSkipping ==
  /\ i <= Len(rules)
  /\ LET score == Specificity(rules[i], route)
     IN IF rules[i].enabled /\ score > bestScore
        THEN best' = i /\ bestScore' = score /\ i' = i + 2
        ELSE i' = i + 1 /\ UNCHANGED <<best, bestScore>>
  /\ UNCHANGED <<rules, route>>

\* One turn of the loop: a disabled rule and one that does not match are
\* skipped; a strictly better score replaces the best.
Consider ==
  /\ i <= Len(rules)
  /\ LET score == Specificity(rules[i], route)
     IN IF rules[i].enabled /\ score > 0 /\ score > bestScore
        THEN best' = i /\ bestScore' = score
        ELSE UNCHANGED <<best, bestScore>>
  /\ i' = i + 1
  /\ UNCHANGED <<rules, route>>

Next == Consider

Spec == Init /\ [][Next]_vars

Done == i > Len(rules)

-----------------------------------------------------------------------------
(***************************************************************************)
(* Types; the index and the best stay within the list, and the score is    *)
(* that of the best rule.                                                  *)
(***************************************************************************)
TypeOK ==
  /\ rules \in Seq(Rules)
  /\ route \in Routes
  /\ i \in 1..(Len(rules) + 1)
  /\ best \in 0..Len(rules)
  /\ bestScore = IF best = 0 THEN 0 ELSE Specificity(rules[best], route)

(***************************************************************************)
(* The precedence the README documents: exact beats prefix, a longer       *)
(* prefix beats a shorter one, any prefix beats the default.               *)
(***************************************************************************)
Applies(k) == rules[k].enabled /\ Matches(rules[k], route)

Outranks(k, j) ==
  LET a == MatchKindFor(rules[k], route)
      b == MatchKindFor(rules[j], route)
  IN \/ a = "exact" /\ b # "exact"
     \/ a = "prefix" /\ b = "prefix" /\ Len(rules[k].path) > Len(rules[j].path)
     \/ a = "prefix" /\ b = "default"

(***************************************************************************)
(* When the loop ends it has chosen a rule that applies, if there is one,  *)
(* and no applicable rule outranks it, except that the prefix of one byte  *)
(* ("/*") scores what the default scores (rule.go 93-104, rule_resolver.go *)
(* 14-34).                                                                 *)
(***************************************************************************)
BestRuleChosen ==
  Done =>
    IF best = 0
    THEN \A k \in 1..Len(rules) : ~Applies(k)
    ELSE /\ Applies(best)
         /\ \A k \in 1..Len(rules) :
              (Applies(k) /\ Outranks(k, best)) =>
                IsDefault(rules[best]) /\ Len(rules[k].path) = 1

(***************************************************************************)
(* The choice does not depend on the order of the rows, but for the same   *)
(* tie: two rules that apply never score alike unless they are the default *)
(* and a prefix of one byte.                                               *)
(***************************************************************************)
OrderIrrelevant ==
  \A j, k \in 1..Len(rules) :
    ( /\ j # k /\ Applies(j) /\ Applies(k)
      /\ Specificity(rules[j], route) = Specificity(rules[k], route) )
    => \/ IsDefault(rules[j]) /\ Len(rules[k].path) = 1
       \/ IsDefault(rules[k]) /\ Len(rules[j].path) = 1

(***************************************************************************)
(* The documented precedence without the exception: the code does not keep *)
(* it.                                                                     *)
(***************************************************************************)
DocumentedPrecedence ==
  (Done /\ best # 0) =>
    \A k \in 1..Len(rules) : Applies(k) => ~Outranks(k, best)
=============================================================================
