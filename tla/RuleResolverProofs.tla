------------------------- MODULE RuleResolverProofs -------------------------
(***************************************************************************)
(* Proofs about RuleResolver, for every set of paths and every length of   *)
(* the rule list.                                                          *)
(***************************************************************************)
EXTENDS RuleResolver, SequenceTheorems, TLAPS

\* The paths of rules and routes have a length.
LEMMA PathLength == \A p \in Paths \cup {<< >>} : Len(p) \in Nat
<1>1. ASSUME NEW p \in Paths PROVE Len(p) \in Nat
  <2>1. p \in Seq(STRING)
    BY ResolverAssumption DEF ResolverAssumption
  <2> QED BY <2>1
<1>2. Len(<< >>) \in Nat
  OBVIOUS
<1> QED BY <1>1, <1>2

\* The score of each kind of match: a prefix that matches is no longer than the
\* route, so it never scores what an exact match does.
LEMMA Scores ==
  ASSUME NEW r \in Rules, NEW p \in Routes
  PROVE  /\ Specificity(r, p) \in Nat
         /\ MatchKindFor(r, p) \in {"none", "default", "prefix", "exact"}
         /\ MatchKindFor(r, p) = "none" <=> ~Matches(r, p)
         /\ MatchKindFor(r, p) = "none" <=> Specificity(r, p) = 0
         /\ MatchKindFor(r, p) = "default" => Specificity(r, p) = 1 /\ IsDefault(r)
         /\ MatchKindFor(r, p) = "prefix" =>
              /\ Specificity(r, p) = Len(r.path)
              /\ Specificity(r, p) \in 1..Len(p)
         /\ MatchKindFor(r, p) = "exact" => Specificity(r, p) = 1000 + Len(p)
         /\ Len(p) \in Nat
<1>1. Len(r.path) \in Nat
  <2>1. r.path \in Paths \cup {<< >>}
    BY DEF Rules
  <2> QED BY <2>1, PathLength
<1>2. Len(p) \in Nat
  BY PathLength DEF Routes
<1>3. MatchKindFor(r, p) = "prefix" => Len(r.path) \in 1..Len(p)
  <2> SUFFICES ASSUME MatchKindFor(r, p) = "prefix" PROVE Len(r.path) \in 1..Len(p)
    OBVIOUS
  <2>1. Matches(r, p) /\ ~IsDefault(r) /\ r.star
    BY DEF MatchKindFor
  <2>2. HasPrefix(p, r.path) /\ Len(r.path) # 0
    BY <2>1 DEF Matches, IsDefault
  <2>3. Len(r.path) <= Len(p)
    BY <2>2 DEF HasPrefix
  <2> DEFINE n == Len(r.path)
             m == Len(p)
  <2>4. n \in Nat /\ m \in Nat /\ n # 0 /\ n <= m
    BY <1>1, <1>2, <2>2, <2>3
  <2>5. n \in 1..m
    <3> HIDE DEF n, m
    <3> QED BY <2>4
  <2> QED BY <2>5
<1> DEFINE n == Len(r.path)
           m == Len(p)
<1>4. /\ n \in Nat /\ m \in Nat
      /\ MatchKindFor(r, p) = "prefix" => n \in 1..m
      /\ MatchKindFor(r, p) = "exact" => n = m
  BY <1>1, <1>2, <1>3 DEF MatchKindFor, Matches, IsDefault
<1>5. Specificity(r, p) = IF MatchKindFor(r, p) = "exact" THEN 1000 + n
                          ELSE IF MatchKindFor(r, p) = "prefix" THEN n
                          ELSE IF MatchKindFor(r, p) = "default" THEN 1 ELSE 0
  BY DEF Specificity
<1>6. /\ MatchKindFor(r, p) \in {"none", "default", "prefix", "exact"}
      /\ MatchKindFor(r, p) = "none" <=> ~Matches(r, p)
      /\ MatchKindFor(r, p) = "default" => IsDefault(r)
  BY DEF MatchKindFor
<1>7. Specificity(r, p) \in Nat
      /\ (MatchKindFor(r, p) = "none" <=> Specificity(r, p) = 0)
      /\ (MatchKindFor(r, p) = "default" => Specificity(r, p) = 1)
      /\ (MatchKindFor(r, p) = "prefix" =>
            Specificity(r, p) = n /\ Specificity(r, p) \in 1..m)
      /\ (MatchKindFor(r, p) = "exact" => Specificity(r, p) = 1000 + m)
  <2> HIDE DEF n, m
  <2> QED BY <1>4, <1>5, <1>6
<1> QED BY <1>2, <1>6, <1>7

\* A higher rank is a higher score, but for the default and a prefix of one byte.
LEMMA RankIsScore ==
  ASSUME NEW k \in 1..Len(rules), NEW j \in 1..Len(rules), TypeOK,
         Matches(rules[k], route), Matches(rules[j], route), Outranks(k, j)
  PROVE  \/ Specificity(rules[k], route) > Specificity(rules[j], route)
         \/ IsDefault(rules[j]) /\ Len(rules[k].path) = 1
<1>1. rules[k] \in Rules /\ rules[j] \in Rules /\ route \in Routes
  BY DEF TypeOK
<1> DEFINE x == Specificity(rules[k], route)
           y == Specificity(rules[j], route)
           a == MatchKindFor(rules[k], route)
           b == MatchKindFor(rules[j], route)
           m == Len(rules[k].path)
           n == Len(rules[j].path)
           l == Len(route)
<1>2. /\ x \in Nat /\ y \in Nat /\ l \in Nat
      /\ b # "none"
      /\ a = "prefix" => x = m /\ x \in 1..l
      /\ a = "exact" => x = 1000 + l
      /\ b = "default" => y = 1 /\ IsDefault(rules[j])
      /\ b = "prefix" => y = n /\ y \in 1..l
      /\ b \in {"none", "default", "prefix", "exact"}
  BY <1>1, Scores
<1>3. \/ a = "exact" /\ b # "exact"
      \/ a = "prefix" /\ b = "prefix" /\ m > n
      \/ a = "prefix" /\ b = "default"
  BY DEF Outranks
<1> HIDE DEF x, y, a, b, m, n, l
<1>4. x > y \/ (IsDefault(rules[j]) /\ m = 1)
  BY <1>2, <1>3
<1> QED BY <1>4 DEF x, y, m

-----------------------------------------------------------------------------
\* The rules before i have been considered: best is an enabled match among
\* them, and none of them scores higher.
LoopInv ==
  /\ TypeOK
  /\ best # 0 => best < i /\ rules[best].enabled /\ bestScore > 0
  /\ \A k \in 1..Len(rules) :
       (k < i /\ rules[k].enabled) => Specificity(rules[k], route) <= bestScore

\* The loop keeps its invariant.
LEMMA LoopInvariance == Spec => []LoopInv
<1>1. Init => LoopInv
  <2> SUFFICES ASSUME Init PROVE LoopInv
    OBVIOUS
  <2>1. rules \in Seq(Rules)
    BY DEF Init, RuleLists
  <2>2. TypeOK
    BY <2>1 DEF Init, TypeOK
  <2> QED BY <2>2 DEF Init, LoopInv
<1>2. LoopInv /\ [Next]_vars => LoopInv'
  <2> SUFFICES ASSUME LoopInv, [Next]_vars PROVE LoopInv'
    OBVIOUS
  <2>1. CASE Consider
    <3> DEFINE score == Specificity(rules[i], route)
    <3>1. i \in 1..Len(rules) /\ rules[i] \in Rules /\ route \in Routes
      BY <2>1 DEF LoopInv, TypeOK, Consider
    <3>2. score \in Nat
      BY <3>1, Scores
    <3>3. /\ \/ /\ rules[i].enabled /\ score > 0 /\ score > bestScore
                /\ best' = i /\ bestScore' = score
             \/ /\ ~(rules[i].enabled /\ score > 0 /\ score > bestScore)
                /\ UNCHANGED <<best, bestScore>>
          /\ i' = i + 1 /\ UNCHANGED <<rules, route>>
      BY <2>1 DEF Consider
    <3>4. TypeOK'
      BY <3>1, <3>2, <3>3 DEF LoopInv, TypeOK
    <3>5. \A k \in 1..Len(rules) : Specificity(rules[k], route) \in Nat
      BY Scores DEF LoopInv, TypeOK
    <3>6. bestScore \in Nat
      BY <3>5 DEF LoopInv, TypeOK
    <3>7. best \in Nat /\ i \in Nat
      BY DEF LoopInv, TypeOK
    <3> HIDE DEF score
    <3>8. (best # 0 => best < i /\ rules[best].enabled /\ bestScore > 0)'
      <4>1. CASE best' = i /\ bestScore' = score /\ rules[i].enabled /\ score > 0
        BY <3>3, <3>7, <4>1
      <4>2. CASE UNCHANGED <<best, bestScore>>
        BY <3>3, <3>7, <4>2 DEF LoopInv
      <4> QED BY <3>3, <4>1, <4>2
    <3>9. bestScore <= bestScore' /\ bestScore' \in Nat
      BY <3>2, <3>3, <3>6
    <3>10. ASSUME NEW k \in 1..Len(rules), k < i + 1, rules[k].enabled
           PROVE  Specificity(rules[k], route) <= bestScore'
      <4>1. CASE k = i
        <5>1. Specificity(rules[k], route) = score
          BY <4>1 DEF score
        <5> QED BY <3>2, <3>3, <3>6, <3>10, <4>1, <5>1
      <4>2. CASE k < i
        <5>1. Specificity(rules[k], route) <= bestScore
          BY <3>10, <4>2 DEF LoopInv
        <5>2. Specificity(rules[k], route) \in Nat
          BY <3>5
        <5> HIDE DEF Specificity
        <5> QED BY <3>6, <3>9, <5>1, <5>2
      <4> QED BY <3>7, <3>10, <4>1, <4>2
    <3>11. (\A k \in 1..Len(rules) :
              (k < i /\ rules[k].enabled) => Specificity(rules[k], route) <= bestScore)'
      BY <3>3, <3>10 DEF Specificity, MatchKindFor
    <3> QED BY <3>4, <3>8, <3>11 DEF LoopInv
  <2>2. CASE UNCHANGED vars
    BY <2>2 DEF vars, LoopInv, TypeOK
  <2> QED BY <2>1, <2>2 DEF Next
<1> QED BY <1>1, <1>2, PTL DEF Spec

(***************************************************************************)
(* The loop of Resolve ends with a rule that applies and that no other     *)
(* outranks, but for the tie of "*" and "/*": BestRuleChosen, for rule     *)
(* lists and routes of any length.                                         *)
(***************************************************************************)
THEOREM ResolverIsCorrect == Spec => []BestRuleChosen
<1>1. LoopInv => BestRuleChosen
  <2> SUFFICES ASSUME LoopInv, Done PROVE BestRuleChosen
    BY DEF BestRuleChosen
  <2>1. \A k \in 1..Len(rules) :
          /\ rules[k] \in Rules /\ Specificity(rules[k], route) \in Nat
          /\ Specificity(rules[k], route) > 0 <=> Matches(rules[k], route)
          /\ rules[k].enabled => Specificity(rules[k], route) <= bestScore
    BY Scores DEF LoopInv, TypeOK, Done
  <2>2. CASE best = 0
    <3>1. bestScore = 0
      BY <2>2 DEF LoopInv, TypeOK
    <3> QED BY <2>1, <2>2, <3>1 DEF BestRuleChosen, Applies
  <2>3. CASE best # 0
    <3>1. best \in 1..Len(rules) /\ bestScore = Specificity(rules[best], route)
          /\ rules[best].enabled /\ bestScore > 0 /\ bestScore \in Nat
      BY <2>3 DEF LoopInv, TypeOK
    <3>2. Applies(best)
      BY <2>1, <3>1 DEF Applies
    <3>3. ASSUME NEW k \in 1..Len(rules), Applies(k), Outranks(k, best)
          PROVE  IsDefault(rules[best]) /\ Len(rules[k].path) = 1
      <4>1. Specificity(rules[k], route) <= Specificity(rules[best], route)
        BY <2>1, <3>1, <3>3 DEF Applies
      <4>2. Specificity(rules[k], route) \in Nat /\ Specificity(rules[best], route) \in Nat
        BY <2>1, <3>1
      <4>3. ~(Specificity(rules[k], route) > Specificity(rules[best], route))
        BY <4>1, <4>2
      <4> QED BY <4>3, <3>1, <3>2, <3>3, RankIsScore DEF Applies, LoopInv
    <3> QED BY <2>3, <3>2, <3>3 DEF BestRuleChosen
  <2> QED BY <2>2, <2>3
<1> QED BY <1>1, LoopInvariance, PTL

(***************************************************************************)
(* Types: the loop's index and its best stay within the list, and the      *)
(* score is that of the best rule.                                         *)
(***************************************************************************)
THEOREM TypeCorrect == Spec => []TypeOK
<1>1. LoopInv => TypeOK
  BY DEF LoopInv
<1> QED BY <1>1, LoopInvariance, PTL

-----------------------------------------------------------------------------
\* The rows of a tenant keep their different patterns while the loop runs.
LEMMA StayDistinct == Spec => []Distinct(rules)
<1>1. Init => Distinct(rules)
  BY DEF Init, RuleLists
<1>2. Distinct(rules) /\ [Next]_vars => Distinct(rules)'
  <2> SUFFICES ASSUME Distinct(rules), [Next]_vars PROVE Distinct(rules)'
    OBVIOUS
  <2>1. rules' = rules
    BY DEF Next, Consider, vars
  <2> QED BY <2>1 DEF Distinct
<1> QED BY <1>1, <1>2, PTL DEF Spec

\* Two prefixes of a route that are equally long are the same.
LEMMA PrefixByLength ==
  ASSUME NEW p, NEW x \in Seq(STRING), NEW y \in Seq(STRING),
         HasPrefix(p, x), HasPrefix(p, y), Len(x) = Len(y)
  PROVE  x = y
<1>1. \A k \in 1..Len(x) : x[k] = y[k]
  BY DEF HasPrefix
<1> QED BY <1>1, SeqEqual

\* Two rules that match a route in the same way and as long are the same
\* pattern.
LEMMA SamePattern ==
  ASSUME NEW r \in Rules, NEW s \in Rules, NEW p \in Routes,
         Matches(r, p), MatchKindFor(r, p) = MatchKindFor(s, p), Matches(s, p),
         MatchKindFor(r, p) = "prefix" => Len(r.path) = Len(s.path)
  PROVE  r.path = s.path /\ r.star = s.star
<1>1. /\ r.path \in Paths \cup {<< >>} /\ s.path \in Paths \cup {<< >>}
      /\ r.star \in BOOLEAN /\ s.star \in BOOLEAN
  BY DEF Rules
<1>2. r.path \in Seq(STRING) /\ s.path \in Seq(STRING)
  <2>1. << >> \in Seq(STRING)
    OBVIOUS
  <2> QED BY <1>1, <2>1, ResolverAssumption DEF ResolverAssumption
<1>3. CASE MatchKindFor(r, p) = "default"
  <2>1. /\ r.star /\ s.star /\ Len(r.path) = 0 /\ Len(s.path) = 0
    BY <1>3 DEF MatchKindFor, IsDefault
  <2>2. r.path = << >> /\ s.path = << >>
    BY <1>2, <2>1, EmptySeq
  <2> QED BY <1>1, <2>1, <2>2
<1>4. CASE MatchKindFor(r, p) = "prefix"
  <2>1. r.star /\ s.star /\ ~IsDefault(r) /\ ~IsDefault(s)
    BY <1>4 DEF MatchKindFor
  <2>2. HasPrefix(p, r.path) /\ HasPrefix(p, s.path)
    BY <2>1 DEF Matches
  <2> QED BY <1>1, <1>2, <1>4, <2>1, <2>2, PrefixByLength
<1>5. CASE MatchKindFor(r, p) = "exact"
  <2>1. ~r.star /\ ~s.star /\ r.path = p /\ s.path = p
    BY <1>5 DEF MatchKindFor, Matches, IsDefault
  <2> QED BY <1>1, <2>1
<1> QED BY <1>3, <1>4, <1>5, Scores

(***************************************************************************)
(* The rule that Resolve picks does not depend on the order of the rows,   *)
(* but for the tie of "*" and "/*": OrderIrrelevant, for rule lists of any *)
(* length (rule_resolver.go 14-34).                                        *)
(***************************************************************************)
THEOREM OrderDoesNotMatter == Spec => []OrderIrrelevant
<1>1. LoopInv /\ Distinct(rules) => OrderIrrelevant
  <2> SUFFICES ASSUME LoopInv, Distinct(rules),
                      NEW j \in 1..Len(rules), NEW k \in 1..Len(rules),
                      j # k, Applies(j), Applies(k),
                      Specificity(rules[j], route) = Specificity(rules[k], route)
               PROVE  \/ IsDefault(rules[j]) /\ Len(rules[k].path) = 1
                      \/ IsDefault(rules[k]) /\ Len(rules[j].path) = 1
    BY DEF OrderIrrelevant
  <2>1. rules[j] \in Rules /\ rules[k] \in Rules /\ route \in Routes
    BY DEF LoopInv, TypeOK
  <2> DEFINE x == Specificity(rules[j], route)
             y == Specificity(rules[k], route)
             a == MatchKindFor(rules[j], route)
             b == MatchKindFor(rules[k], route)
             m == Len(rules[j].path)
             n == Len(rules[k].path)
             l == Len(route)
  <2>2. ASSUME NEW r \in Rules, Matches(r, route)
        PROVE  LET kind == MatchKindFor(r, route) IN
               /\ Specificity(r, route) \in Nat /\ Len(route) \in Nat
               /\ kind \in {"default", "prefix", "exact"}
               /\ kind = "default" => Specificity(r, route) = 1 /\ IsDefault(r)
               /\ kind = "prefix" => /\ Specificity(r, route) = Len(r.path)
                                     /\ Specificity(r, route) \in 1..Len(route)
               /\ kind = "exact" => Specificity(r, route) = 1000 + Len(route)
    BY <2>1, <2>2, Scores
  <2>3. ~(a = b /\ (a = "prefix" => m = n))
    <3> SUFFICES ASSUME a = b, a = "prefix" => m = n PROVE FALSE
      OBVIOUS
    <3>1. rules[j].path = rules[k].path /\ rules[j].star = rules[k].star
      BY <2>1, SamePattern DEF Applies
    <3> QED BY <3>1 DEF Distinct
  <2>4. /\ x \in Nat /\ l \in Nat /\ a \in {"default", "prefix", "exact"}
        /\ a = "default" => x = 1 /\ IsDefault(rules[j])
        /\ a = "prefix" => x = m /\ x \in 1..l
        /\ a = "exact" => x = 1000 + l
    BY <2>1, <2>2 DEF Applies
  <2>5. /\ y \in Nat /\ b \in {"default", "prefix", "exact"}
        /\ b = "default" => y = 1 /\ IsDefault(rules[k])
        /\ b = "prefix" => y = n /\ y \in 1..l
        /\ b = "exact" => y = 1000 + l
    <3>1. Matches(rules[k], route)
      BY DEF Applies
    <3> QED BY ONLY <2>1, <2>2, <3>1
  <2>6. x = y
    OBVIOUS
  <2> HIDE DEF x, y, a, b, m, n, l
  <2>7. \/ IsDefault(rules[j]) /\ n = 1
        \/ IsDefault(rules[k]) /\ m = 1
    BY <2>3, <2>4, <2>5, <2>6
  <2> QED BY <2>7 DEF m, n
<1> QED BY <1>1, LoopInvariance, StayDistinct, PTL
=============================================================================
