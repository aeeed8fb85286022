-------------------------- MODULE CheckPathProofs --------------------------
(***************************************************************************)
(* Proofs about the rule cache and about the path of a check, for any      *)
(* number of requests, any ttl, any bound on a load and any sequence of    *)
(* versions of the rule table.                                             *)
(***************************************************************************)
EXTENDS CheckPath, WellFoundedInduction, TLAPS

ReqRecords == [pc : {"idle", "miss", "loaded"}, rules : Versions, waited : 0..MaxLoad]
ItemRecords == [rules : Versions, since : 0..Expired]

(***************************************************************************)
(* The rules in the cache, and those a request has read, are older than    *)
(* their age here lets them be: the entry was read at most MaxLoad before  *)
(* it was set, the rules of a request when it had waited less.             *)
(***************************************************************************)
AgesInv == \A v \in Versions : v >= table => age[v] = 0

EntryInv ==
  /\ item.rules <= table
  /\ item.since <= TTL => age[item.rules] <= item.since + MaxLoad

ReadsInv == \A r \in Requests : reqs[r].pc = "loaded" =>
  /\ reqs[r].rules <= table
  /\ age[reqs[r].rules] <= reqs[r].waited

CacheInv == TypeOK /\ AgesInv /\ EntryInv /\ ReadsInv /\ StalenessBounded

-----------------------------------------------------------------------------
LEMMA Constants ==
  /\ TTL \in Nat /\ MaxLoad \in Nat /\ MaxVersion \in Nat
  /\ Expired \in Nat /\ Expired = TTL + 1
  /\ MaxAge \in Nat /\ MaxAge = TTL + MaxLoad + 1
BY CacheAssumption DEF Expired, MaxAge

LEMMA CacheTypes ==
  ASSUME TypeOK
  PROVE  /\ table \in Nat /\ table <= MaxVersion
         /\ age \in [Versions -> 0..MaxAge]
         /\ item \in ItemRecords /\ item.rules \in Versions
         /\ item.since \in Nat /\ item.since <= Expired
         /\ reqs \in [Requests -> ReqRecords]
         /\ stalest \in Nat
BY Constants DEF TypeOK, Versions, ItemRecords, ReqRecords

LEMMA CacheInit == Init => CacheInv
<1> SUFFICES ASSUME Init PROVE CacheInv
  OBVIOUS
<1>1. 0 \in Versions /\ Idle \in ReqRecords
  BY Constants DEF Versions, Idle, ReqRecords
<1>2. TypeOK
  BY <1>1, Constants DEF Init, TypeOK, ReqRecords
<1>3. \A r \in Requests : reqs[r].pc # "loaded"
  BY DEF Init, Idle
<1> QED BY <1>1, <1>2, <1>3, Constants
       DEF Init, CacheInv, AgesInv, EntryInv, ReadsInv, StalenessBounded

\* Rules that are returned are at most TTL and a load old.
LEMMA ReturnBounded ==
  ASSUME CacheInv, NEW r \in Requests, NEW v \in Versions,
         v <= table, age[v] <= TTL + MaxLoad, Return(r, v)
  PROVE  /\ stalest' \in 0..MaxAge /\ stalest' <= TTL + MaxLoad
         /\ reqs' \in [Requests -> ReqRecords]
         /\ \A s \in Requests : s # r => reqs'[s] = reqs[s]
         /\ reqs'[r].pc = "idle"
<1>1. Staleness(v) \in Nat /\ Staleness(v) <= TTL + MaxLoad
  BY Constants, CacheTypes DEF CacheInv, Staleness
<1>2. Idle \in ReqRecords /\ Idle.pc = "idle"
  BY Constants DEF Idle, ReqRecords, Versions
<1> QED BY <1>1, <1>2, Constants, CacheTypes
       DEF Return, Larger, CacheInv, StalenessBounded

LEMMA HitKeeps ==
  ASSUME CacheInv, NEW r \in Requests, Hit(r) PROVE CacheInv'
<1>1. age[item.rules] <= TTL + MaxLoad /\ item.rules \in Versions /\ item.rules <= table
  BY Constants, CacheTypes DEF Hit, Live, CacheInv, EntryInv
<1>2. Return(r, item.rules) /\ UNCHANGED <<table, age, item>>
  BY DEF Hit
<1>3. /\ stalest' \in 0..MaxAge /\ stalest' <= TTL + MaxLoad
      /\ reqs' \in [Requests -> ReqRecords]
      /\ \A s \in Requests : s # r => reqs'[s] = reqs[s]
      /\ reqs'[r].pc = "idle"
  BY <1>1, <1>2, ReturnBounded
<1> QED BY <1>2, <1>3
       DEF CacheInv, TypeOK, ReqRecords, AgesInv, EntryInv, ReadsInv, StalenessBounded

LEMMA SetKeeps ==
  ASSUME CacheInv, NEW r \in Requests, Set(r) PROVE CacheInv'
<1>1. /\ reqs[r].rules \in Versions /\ reqs[r].rules <= table
      /\ reqs[r].waited \in 0..MaxLoad /\ age[reqs[r].rules] <= reqs[r].waited
  BY CacheTypes DEF Set, CacheInv, ReadsInv, ReqRecords
<1>2. age[reqs[r].rules] <= MaxLoad /\ age[reqs[r].rules] <= TTL + MaxLoad
  BY <1>1, Constants, CacheTypes DEF CacheInv
<1>3. /\ Return(r, reqs[r].rules) /\ UNCHANGED <<table, age>>
      /\ item' = [rules |-> reqs[r].rules, since |-> 0]
  BY DEF Set
<1>4. /\ stalest' \in 0..MaxAge /\ stalest' <= TTL + MaxLoad
      /\ reqs' \in [Requests -> ReqRecords]
      /\ \A s \in Requests : s # r => reqs'[s] = reqs[s]
      /\ reqs'[r].pc = "idle"
  BY <1>1, <1>2, <1>3, ReturnBounded
<1>5. item' \in ItemRecords /\ EntryInv'
  BY <1>1, <1>2, <1>3, Constants DEF ItemRecords, EntryInv
<1> QED BY <1>3, <1>4, <1>5
       DEF CacheInv, TypeOK, ReqRecords, ItemRecords, AgesInv, ReadsInv, StalenessBounded

\* The steps of a request that leave the entry alone and return nothing.
LEMMA LoadKeeps ==
  ASSUME CacheInv, NEW r \in Requests, Miss(r) \/ Load(r) \/ LoadFails(r)
  PROVE  CacheInv'
<1>1. UNCHANGED <<table, age, item, stalest>>
  BY DEF Miss, Load, LoadFails
<1>2. reqs' \in [Requests -> ReqRecords] /\ \A s \in Requests : s # r => reqs'[s] = reqs[s]
  <2>1. CASE Miss(r)
    <3>1. [pc |-> "miss", rules |-> 0, waited |-> 0] \in ReqRecords
      BY Constants DEF ReqRecords, Versions
    <3> QED BY <2>1, <3>1, CacheTypes DEF Miss, CacheInv
  <2>2. CASE Load(r)
    <3>1. table \in Versions /\ reqs \in [Requests -> ReqRecords]
      BY CacheTypes DEF CacheInv, TypeOK
    <3> QED BY <2>2, <3>1 DEF Load, ReqRecords
  <2>3. CASE LoadFails(r)
    <3>1. Idle \in ReqRecords
      BY Constants DEF Idle, ReqRecords, Versions
    <3> QED BY <2>3, <3>1, CacheTypes DEF LoadFails, CacheInv
  <2> QED BY <2>1, <2>2, <2>3
<1>3. reqs'[r].pc = "loaded" => reqs'[r].rules = table /\ reqs'[r].waited \in Nat
  <2>1. CASE Load(r)
    BY <2>1, Constants, CacheTypes DEF Load, CacheInv, ReqRecords
  <2>2. CASE ~Load(r)
    BY <2>2, CacheTypes DEF Miss, LoadFails, Idle, CacheInv
  <2> QED BY <2>1, <2>2
<1>4. ReadsInv'
  <2>1. age[table] = 0 /\ table \in Nat
    BY CacheTypes DEF CacheInv, AgesInv, TypeOK, Versions
  <2> QED BY <2>1, <1>1, <1>2, <1>3 DEF CacheInv, ReadsInv
<1> QED BY <1>1, <1>2, <1>4
       DEF CacheInv, TypeOK, ReqRecords, AgesInv, EntryInv, StalenessBounded

LEMMA DeployKeeps == ASSUME CacheInv, Deploy PROVE CacheInv'
<1>1. table' \in Versions /\ table' = table + 1 /\ UNCHANGED <<age, item, reqs, stalest>>
  BY Constants, CacheTypes DEF Deploy, CacheInv, Versions
<1>2. table \in Nat /\ \A v \in Versions : v \in Nat
  BY CacheTypes, Constants DEF CacheInv, Versions
<1>3. TypeOK'
  BY <1>1 DEF CacheInv, TypeOK
<1>4. AgesInv'
  BY <1>1, <1>2 DEF CacheInv, AgesInv
<1>5. EntryInv'
  <2>1. item.rules \in Nat /\ item.rules <= table
    BY <1>2, CacheTypes DEF CacheInv, EntryInv
  <2>2. item.rules <= table'
    BY <1>1, <1>2, <2>1
  <2>3. item' = item /\ age' = age
    BY <1>1
  <2> QED BY <2>2, <2>3 DEF CacheInv, EntryInv
<1>6. ReadsInv'
  <2>1. reqs' = reqs /\ age' = age
    BY <1>1
  <2>2. ASSUME NEW r \in Requests, reqs[r].pc = "loaded"
        PROVE  reqs[r].rules <= table' /\ age[reqs[r].rules] <= reqs[r].waited
    <3>1. reqs[r].rules \in Nat
      BY <1>2, CacheTypes DEF CacheInv, ReqRecords
    <3>2. reqs[r].rules <= table /\ age[reqs[r].rules] <= reqs[r].waited
      BY <2>2 DEF CacheInv, ReadsInv
    <3> QED BY <1>1, <1>2, <3>1, <3>2
  <2> QED BY <2>1, <2>2 DEF ReadsInv
<1> QED BY <1>1, <1>3, <1>4, <1>5, <1>6 DEF CacheInv, StalenessBounded

LEMMA RestartKeeps == ASSUME CacheInv, Restart PROVE CacheInv'
<1>1. Idle \in ReqRecords /\ Idle.pc = "idle"
  BY Constants DEF Idle, ReqRecords, Versions
<1>2. item' = [item EXCEPT !.since = Expired] /\ UNCHANGED <<table, age, stalest>>
  BY DEF Restart
<1>3. reqs' \in [Requests -> ReqRecords] /\ \A r \in Requests : reqs'[r].pc = "idle"
  BY <1>1 DEF Restart
<1>4. item' \in ItemRecords /\ item'.rules = item.rules /\ item'.since = Expired
  BY <1>2, Constants, CacheTypes DEF CacheInv, ItemRecords
<1>5. EntryInv'
  BY <1>2, <1>4, Constants DEF CacheInv, EntryInv
<1> QED BY <1>2, <1>3, <1>4, <1>5
       DEF CacheInv, TypeOK, ItemRecords, ReqRecords, AgesInv, ReadsInv, StalenessBounded

LEMMA TickKeeps == ASSUME CacheInv, Tick PROVE CacheInv'
<1>0. /\ table \in Nat /\ \A v \in Versions : v \in Nat
      /\ \A v \in Versions : age[v] \in Nat /\ age[v] <= MaxAge
  BY CacheTypes, Constants DEF CacheInv, Versions
<1>1. UNCHANGED <<table, stalest>>
  BY DEF Tick
<1>2. /\ age' \in [Versions -> 0..MaxAge]
      /\ \A v \in Versions : /\ v >= table => age'[v] = age[v]
                            /\ age'[v] <= age[v] + 1
  <2>1. age' = [v \in Versions |->
               IF v < table /\ age[v] < MaxAge THEN age[v] + 1 ELSE age[v]]
    BY DEF Tick
  <2> QED BY <2>1, <1>0, Constants
<1>3. /\ item' \in ItemRecords /\ item'.rules = item.rules
      /\ item'.since = IF item.since < Expired THEN item.since + 1 ELSE item.since
  <2>1. item' = [item EXCEPT !.since = IF item.since < Expired THEN item.since + 1 ELSE item.since]
    BY DEF Tick
  <2> QED BY <2>1, Constants, CacheTypes DEF CacheInv, ItemRecords
<1>4. ASSUME NEW r \in Requests
      PROVE  /\ reqs'[r] \in ReqRecords
             /\ reqs'[r].pc = reqs[r].pc /\ reqs'[r].rules = reqs[r].rules
             /\ reqs'[r].pc # "idle" => reqs'[r].waited = reqs[r].waited + 1
  <2>1. reqs[r] \in ReqRecords /\ (reqs[r].pc # "idle" => reqs[r].waited < MaxLoad)
    BY CacheTypes DEF CacheInv, Tick
  <2>2. reqs'[r] = IF reqs[r].pc = "idle" THEN reqs[r]
                   ELSE [reqs[r] EXCEPT !.waited = reqs[r].waited + 1]
    BY DEF Tick
  <2>3. CASE reqs[r].pc = "idle"
    BY <2>1, <2>2, <2>3
  <2>4. CASE reqs[r].pc # "idle"
    BY <2>1, <2>2, <2>4, Constants DEF ReqRecords
  <2> QED BY <2>3, <2>4
<1>5. reqs' \in [Requests -> ReqRecords]
  <2>1. reqs' = [r \in Requests |-> reqs'[r]]
    BY DEF Tick
  <2> QED BY <2>1, <1>4
<1>6. TypeOK'
  BY <1>1, <1>2, <1>3, <1>5 DEF CacheInv, TypeOK, ItemRecords, ReqRecords
<1>7. AgesInv'
  BY <1>0, <1>1, <1>2 DEF CacheInv, AgesInv
<1>8. EntryInv'
  <2>1. item.rules \in Versions /\ item.since \in Nat
    BY CacheTypes DEF CacheInv
  <2>2. item'.since <= TTL => item.since <= TTL /\ item'.since = item.since + 1
    BY <2>1, <1>3, Constants
  <2>3. age'[item.rules] <= age[item.rules] + 1 /\ age'[item.rules] \in Nat
    BY <2>1, <1>2, Constants
  <2> QED BY <2>1, <2>2, <2>3, <1>0, <1>1, <1>3, Constants DEF CacheInv, EntryInv
<1>9. ReadsInv'
  <2> SUFFICES ASSUME NEW r \in Requests, reqs'[r].pc = "loaded"
               PROVE  /\ reqs'[r].rules <= table'
                      /\ age'[reqs'[r].rules] <= reqs'[r].waited
    BY DEF ReadsInv
  <2>1. /\ reqs[r].pc = "loaded" /\ reqs[r].rules \in Versions /\ reqs[r].waited \in Nat
        /\ reqs'[r].rules = reqs[r].rules /\ reqs'[r].waited = reqs[r].waited + 1
    BY <1>4, Constants, CacheTypes DEF CacheInv, ReqRecords
  <2>2. reqs[r].rules <= table /\ age[reqs[r].rules] <= reqs[r].waited
    BY <2>1 DEF CacheInv, ReadsInv
  <2>3. age'[reqs[r].rules] <= age[reqs[r].rules] + 1 /\ age'[reqs[r].rules] \in Nat
    BY <2>1, <1>2, Constants
  <2> QED BY <2>1, <2>2, <2>3, <1>0, <1>1
<1> QED BY <1>1, <1>6, <1>7, <1>8, <1>9 DEF CacheInv, StalenessBounded

LEMMA CacheNext == CacheInv /\ [Next]_vars => CacheInv'
<1> SUFFICES ASSUME CacheInv, [Next]_vars PROVE CacheInv'
  OBVIOUS
<1>1. CASE UNCHANGED vars
  BY <1>1 DEF vars, CacheInv, TypeOK, AgesInv, EntryInv, ReadsInv, StalenessBounded
<1> QED BY <1>1, HitKeeps, SetKeeps, LoadKeeps, DeployKeeps, RestartKeeps, TickKeeps
       DEF Next

(***************************************************************************)
(* The cache by itself: no request is given rules that were replaced more  *)
(* than the ttl and one load ago (rule_cache.go 37-71).                    *)
(***************************************************************************)
THEOREM CacheStaleness == Spec => []StalenessBounded
<1>1. CacheInv => StalenessBounded
  BY DEF CacheInv
<1> QED BY <1>1, CacheInit, CacheNext, PTL DEF Spec

-----------------------------------------------------------------------------
(***************************************************************************)
(* The path of a check.  Its steps are steps of the cache, or leave the    *)
(* cache alone.                                                            *)
(***************************************************************************)
LEMMA PathIsCache == [PathNext]_pathVars => [Next]_vars
<1> SUFFICES ASSUME [PathNext]_pathVars PROVE Next \/ UNCHANGED vars
  OBVIOUS
<1>1. CASE UNCHANGED pathVars
  BY <1>1 DEF pathVars
<1>2. CASE Start \/ Signal \/ Cut \/ Heal \/ RedisRestarts \/ PeerStarts
  BY <1>2 DEF Start, Signal, Cut, Heal, RedisRestarts, PeerStarts
<1>3. CASE Crash \/ Drained \/ TimedOut
  BY <1>3 DEF Crash, Drained, TimedOut, Exit, Next
<1>4. ASSUME NEW r \in Requests, Accept(r) \/ EvalSha(r) \/ CloseNew(r)
      PROVE  UNCHANGED vars
  BY <1>4 DEF Accept, EvalSha, CloseNew
<1>5. ASSUME NEW r \in Requests, ListRules(r) PROVE Next
  BY <1>5 DEF ListRules, Next
<1>6. CASE Outside
  BY <1>6 DEF Outside, Next
<1> QED BY <1>1, <1>2, <1>3, <1>4, <1>5, <1>6 DEF PathNext, Handle

\* Every set of numbers has a least element, so Min is one.
LEMMA LeastElement ==
  ASSUME NEW S \in SUBSET Nat, S # {}
  PROVE  \E x \in S : \A y \in S : x <= y
<1>1. PICK x \in S : \A y \in S : ~ (<<y, x>> \in OpToRel(<, Nat))
  BY NatLessThanWellFounded, WFMin
<1>2. ASSUME NEW y \in S PROVE x <= y
  <2>1. <<y, x>> \notin OpToRel(<, Nat) /\ x \in Nat /\ y \in Nat
    BY <1>1
  <2> QED BY <2>1 DEF OpToRel
<1> QED BY <1>2

LEMMA MinIsLeast ==
  ASSUME NEW S \in SUBSET Nat, S # {}
  PROVE  Min(S) \in S /\ \A y \in S : Min(S) <= y
BY LeastElement DEF Min

\* Where rules without a limit for the route are still returned, the limit has
\* not been in force for longer than their age.
LEMMA InForceBounded ==
  ASSUME CacheInv
  PROVE  /\ InForce \in 0..MaxAge
         /\ \A v \in Versions \ Limited : v <= table => InForce <= age[v]
<1> DEFINE S == {MaxAge} \cup {age[v] : v \in (0..table) \ Limited}
<1>1. /\ table \in Nat /\ table <= MaxVersion /\ table \in Versions
      /\ \A v \in 0..table : v \in Versions
      /\ \A v \in Versions : v \in Nat /\ age[v] \in 0..MaxAge
  BY CacheTypes, Constants DEF CacheInv, Versions
<1>2. S \in SUBSET Nat /\ S # {} /\ \A x \in S : x \in 0..MaxAge
  BY <1>1, Constants
<1>3. Min(S) \in S /\ \A y \in S : Min(S) <= y
  BY <1>2, MinIsLeast
<1>4. CASE table \notin Limited
  BY <1>1, <1>4, Constants DEF InForce
<1>5. CASE table \in Limited
  <2>1. InForce = Min(S)
    BY <1>5 DEF InForce
  <2>2. ASSUME NEW v \in Versions \ Limited, v <= table PROVE InForce <= age[v]
    <3>1. v \in (0..table) \ Limited
      BY <1>1, <2>2
    <3>2. age[v] \in S
      BY <3>1
    <3> QED BY <3>2, <1>3, <2>1
  <2> QED BY <2>1, <2>2, <1>2, <1>3
<1> QED BY <1>4, <1>5

CheckRecords == [pc : {"done", "new", "rules", "limit"}, status : {0, 200, 429, 503},
                 ran : BOOLEAN, inForce : 0..MaxAge]

LEMMA AnswerRecord ==
  ASSUME checks \in [Requests -> CheckRecords], NEW r \in Requests,
         NEW status \in {0, 200, 429, 503}, NEW ran \in BOOLEAN,
         Answer(r, status, ran)
  PROVE  /\ checks' \in [Requests -> CheckRecords]
         /\ checks'[r].pc = "done" /\ checks'[r].status = status /\ checks'[r].ran = ran
         /\ \A s \in Requests : s # r => checks'[s] = checks[s]
BY DEF Answer, CheckRecords

LEMMA ResolvedRecord ==
  ASSUME checks \in [Requests -> CheckRecords], NEW r \in Requests,
         NEW v, InForce \in 0..MaxAge, Resolved(r, v)
  PROVE  /\ checks' \in [Requests -> CheckRecords]
         /\ checks'[r].inForce = InForce
         /\ checks'[r].status = 200 => v \notin Limited
         /\ \A s \in Requests : s # r => checks'[s] = checks[s]
<1>1. CASE v \in Limited
  BY <1>1 DEF Resolved, CheckRecords
<1>2. CASE v \notin Limited
  BY <1>2 DEF Resolved, CheckStatusCode, CheckRecords
<1> QED BY <1>1, <1>2

\* A step of a request in the cache is its own affair.
LEMMA RequestStep ==
  ASSUME CacheInv, NEW r \in Requests
  PROVE  /\ Hit(r) \/ Miss(r) \/ Load(r) \/ LoadFails(r) \/ Set(r) =>
              \A s \in Requests : s # r => reqs'[s] = reqs[s]
         /\ Hit(r) \/ LoadFails(r) \/ Set(r) => reqs'[r].pc = "idle"
BY CacheTypes DEF CacheInv, Hit, Miss, Load, LoadFails, Set, Return, Idle

LEMMA TickLeavesPlaces ==
  ASSUME CacheInv, Tick, NEW r \in Requests
  PROVE  reqs'[r].pc = reqs[r].pc
<1>1. reqs[r] \in ReqRecords
  BY CacheTypes DEF CacheInv
<1>2. reqs'[r] = IF reqs[r].pc = "idle" THEN reqs[r]
                 ELSE [reqs[r] EXCEPT !.waited = reqs[r].waited + 1]
  BY DEF Tick
<1> QED BY <1>1, <1>2 DEF ReqRecords

\* Only a request that looks for rules is in the cache.
Places == \A r \in Requests : reqs[r].pc # "idle" => checks[r].pc = "rules"

ProcessTypeOK ==
  /\ server \in {"down", "serving", "draining"}
  /\ redis \in {"up", "cut"}
  /\ scripts \in BOOLEAN

PathInv ==
  /\ CacheInv
  /\ ProcessTypeOK
  /\ checks \in [Requests -> CheckRecords]
  /\ Places
  /\ LimitTakesHold

LEMMA NoCheckRecord ==
  /\ NoCheck \in CheckRecords /\ NoCheck.status = 0
  /\ \A pc \in {"new", "rules"} :
       /\ Beginning(pc) \in CheckRecords
       /\ Beginning(pc).pc = pc /\ Beginning(pc).status = 0
<1>1. NoCheck \in CheckRecords /\ NoCheck.status = 0
  BY Constants DEF NoCheck, CheckRecords
<1>2. ASSUME NEW q \in CheckRecords, NEW pc \in {"new", "rules"}
      PROVE  /\ [q EXCEPT !.pc = pc] \in CheckRecords
             /\ [q EXCEPT !.pc = pc].pc = pc
             /\ [q EXCEPT !.pc = pc].status = q.status
  BY DEF CheckRecords
<1> QED BY <1>1, <1>2 DEF Beginning

LEMMA PathInvInit == PathInit => PathInv
<1> SUFFICES ASSUME PathInit PROVE PathInv
  OBVIOUS
<1>1. CacheInv
  BY CacheInit DEF PathInit
<1>2. ProcessTypeOK
  BY DEF PathInit, ProcessTypeOK, Down
<1>3. checks \in [Requests -> CheckRecords] /\ \A r \in Requests : checks[r].status = 0
  BY NoCheckRecord DEF PathInit
<1>4. Places
  BY DEF PathInit, Init, Idle, Places
<1> QED BY <1>1, <1>2, <1>3, <1>4 DEF PathInv, LimitTakesHold

\* Rules that a check is given and that do not limit its route were replaced
\* no longer ago than LimitTakesHold allows.
LEMMA ResolvedKeeps ==
  ASSUME PathInv, NEW r \in Requests, NEW v \in Versions,
         v <= table, age[v] <= TTL + MaxLoad, Resolved(r, v)
  PROVE  checks' \in [Requests -> CheckRecords] /\ LimitTakesHold'
<1>1. /\ CacheInv /\ LimitTakesHold /\ checks \in [Requests -> CheckRecords]
      /\ InForce \in 0..MaxAge
  BY InForceBounded DEF PathInv
<1>2. /\ checks' \in [Requests -> CheckRecords]
      /\ checks'[r].inForce = InForce
      /\ checks'[r].status = 200 => v \notin Limited
      /\ \A s \in Requests : s # r => checks'[s] = checks[s]
  BY <1>1, ResolvedRecord
<1>3. checks'[r].status = 200 => InForce <= TTL + MaxLoad
  <2>1. age[v] \in Nat
    BY <1>1, Constants, CacheTypes DEF CacheInv
  <2>2. v \notin Limited => InForce <= age[v]
    BY <1>1, InForceBounded
  <2> QED BY <1>1, <1>2, <2>1, <2>2, Constants
<1>4. ASSUME NEW s \in Requests, checks'[s].status = 200, checks'[s].inForce > TTL + MaxLoad
      PROVE  checks'[s].ran
  <2>1. CASE s = r
    BY <1>1, <1>2, <1>3, <1>4, <2>1, Constants
  <2>2. CASE s # r
    BY <1>1, <1>2, <1>4, <2>2 DEF LimitTakesHold
  <2> QED BY <2>1, <2>2
<1> QED BY <1>2, <1>4 DEF LimitTakesHold

LEMMA AnswerKeeps ==
  ASSUME PathInv, NEW r \in Requests, NEW status \in {0, 200, 429, 503},
         NEW ran \in BOOLEAN, status = 200 => ran, Answer(r, status, ran)
  PROVE  checks' \in [Requests -> CheckRecords] /\ LimitTakesHold'
<1>1. LimitTakesHold /\ checks \in [Requests -> CheckRecords]
  BY DEF PathInv
<1>2. /\ checks' \in [Requests -> CheckRecords]
      /\ checks'[r].status = status /\ checks'[r].ran = ran
      /\ \A s \in Requests : s # r => checks'[s] = checks[s]
  BY <1>1, AnswerRecord
<1> QED BY <1>1, <1>2 DEF LimitTakesHold

\* An error is answered with 503.
LEMMA RefusalKeeps ==
  ASSUME PathInv, NEW r \in Requests, Answer(r, 503, FALSE)
  PROVE  /\ checks' \in [Requests -> CheckRecords] /\ LimitTakesHold'
         /\ \A s \in Requests : s # r => checks'[s] = checks[s]
<1>1. LimitTakesHold /\ checks \in [Requests -> CheckRecords]
  BY DEF PathInv
<1>2. /\ checks' \in [Requests -> CheckRecords]
      /\ checks'[r].status = 503
      /\ \A s \in Requests : s # r => checks'[s] = checks[s]
  BY <1>1 DEF Answer, CheckRecords
<1> QED BY <1>1, <1>2 DEF LimitTakesHold

LEMMA PathInvNext == PathInv /\ [PathNext]_pathVars => PathInv'
<1> SUFFICES ASSUME PathInv, [PathNext]_pathVars PROVE PathInv'
  OBVIOUS
<1>0. CacheInv' /\ CacheInv /\ checks \in [Requests -> CheckRecords]
  BY PathIsCache, CacheNext DEF PathInv
<1>1. CASE UNCHANGED pathVars
  BY <1>0, <1>1 DEF pathVars, vars, path, PathInv, ProcessTypeOK, Places, LimitTakesHold
<1>2. CASE Start \/ Cut \/ Heal \/ RedisRestarts \/ PeerStarts
  <2>1. UNCHANGED <<vars, checks>>
    BY <1>2 DEF Start, Cut, Heal, RedisRestarts, PeerStarts
  <2>2. ProcessTypeOK'
    BY <1>2 DEF PathInv, ProcessTypeOK, Start, Cut, Heal, RedisRestarts, PeerStarts
  <2> QED BY <1>0, <2>1, <2>2 DEF vars, PathInv, Places, LimitTakesHold
<1>8. CASE Signal
  <2>1. UNCHANGED vars /\ ProcessTypeOK'
    BY <1>8 DEF Signal, PathInv, ProcessTypeOK
  <2>2. PICK new \in SUBSET {r \in Requests : checks[r].pc = "done"} :
          checks' = [r \in Requests |-> IF r \in new THEN Beginning("new") ELSE checks[r]]
    BY <1>8 DEF Signal
  <2>3. checks' \in [Requests -> CheckRecords]
    BY <1>0, <2>2, NoCheckRecord
  <2>4. \A r \in Requests :
          \/ checks'[r] = checks[r]
          \/ checks'[r].status = 0 /\ checks[r].pc = "done"
    BY <2>2, NoCheckRecord
  <2> QED BY <1>0, <2>1, <2>3, <2>4 DEF vars, PathInv, Places, LimitTakesHold
<1>9. ASSUME NEW r \in Requests, CloseNew(r) PROVE PathInv'
  <2>1. UNCHANGED <<vars, server, redis, scripts>> /\ checks[r].pc = "new"
    BY <1>9 DEF CloseNew
  <2>2. /\ checks' \in [Requests -> CheckRecords] /\ checks'[r].status = 0
        /\ \A s \in Requests : s # r => checks'[s] = checks[s]
    BY <1>0, <1>9, NoCheckRecord DEF CloseNew
  <2> QED BY <1>0, <2>1, <2>2 DEF vars, PathInv, ProcessTypeOK, Places, LimitTakesHold
<1>3. CASE Crash \/ Drained \/ TimedOut
  <2>1. Exit
    BY <1>3 DEF Crash, Drained, TimedOut
  <2>2. ProcessTypeOK'
    BY <2>1 DEF Exit, PathInv, ProcessTypeOK, Down
  <2>3. /\ checks' \in [Requests -> CheckRecords]
        /\ \A r \in Requests : checks'[r].status = 0
    BY <2>1, NoCheckRecord DEF Exit
  <2>4. Places'
    BY <2>1 DEF Exit, Restart, Idle, Places
  <2> QED BY <1>0, <2>2, <2>3, <2>4 DEF PathInv, LimitTakesHold
<1>4. ASSUME NEW r \in Requests, Accept(r) PROVE PathInv'
  <2>1. UNCHANGED <<vars, server, redis, scripts>>
    BY <1>4 DEF Accept
  <2>2. /\ checks' \in [Requests -> CheckRecords]
        /\ checks'[r].status = 0 /\ checks'[r].pc = "rules"
        /\ \A s \in Requests : s # r => checks'[s] = checks[s]
    BY <1>0, <1>4, NoCheckRecord DEF Accept
  <2> QED BY <1>0, <2>1, <2>2 DEF vars, PathInv, ProcessTypeOK, Places, LimitTakesHold
<1>5. ASSUME NEW r \in Requests, ListRules(r) PROVE PathInv'
  <2>0. ProcessTypeOK'
    BY <1>5 DEF ListRules, PathInv, ProcessTypeOK
  <2>1. CASE (Miss(r) \/ Load(r)) /\ UNCHANGED checks
    <3>1. Places'
      BY <1>0, <1>5, <2>1, RequestStep DEF ListRules, PathInv, Places
    <3> QED BY <1>0, <2>0, <2>1, <3>1 DEF PathInv, LimitTakesHold
  <2>2. CASE LoadFails(r) /\ Answer(r, 503, FALSE)
    <3>1. checks' \in [Requests -> CheckRecords] /\ LimitTakesHold'
      BY <2>2, RefusalKeeps
    <3>2. Places'
      BY <1>0, <2>2, RequestStep, RefusalKeeps DEF PathInv, Places
    <3> QED BY <1>0, <2>0, <3>1, <3>2 DEF PathInv
  <2>3. CASE Hit(r) /\ Resolved(r, item.rules)
    <3>1. item.rules \in Versions /\ item.rules <= table /\ age[item.rules] <= TTL + MaxLoad
      BY <1>0, <2>3, Constants, CacheTypes DEF Hit, Live, CacheInv, EntryInv
    <3>2. checks' \in [Requests -> CheckRecords] /\ LimitTakesHold'
      BY <2>3, <3>1, ResolvedKeeps
    <3>3. Places'
      BY <1>0, <2>3, RequestStep, ResolvedRecord, InForceBounded DEF PathInv, Places
    <3> QED BY <1>0, <2>0, <3>2, <3>3 DEF PathInv
  <2>4. CASE Set(r) /\ Resolved(r, reqs[r].rules)
    <3>1. /\ reqs[r].rules \in Versions /\ reqs[r].rules <= table
          /\ age[reqs[r].rules] <= TTL + MaxLoad
      <4>1. /\ reqs[r].rules \in Versions /\ reqs[r].rules <= table
            /\ reqs[r].waited \in 0..MaxLoad /\ age[reqs[r].rules] <= reqs[r].waited
        BY <1>0, <2>4, CacheTypes DEF Set, CacheInv, ReadsInv, ReqRecords
      <4> QED BY <4>1, <1>0, Constants, CacheTypes DEF CacheInv
    <3>2. checks' \in [Requests -> CheckRecords] /\ LimitTakesHold'
      BY <2>4, <3>1, ResolvedKeeps
    <3>3. Places'
      BY <1>0, <2>4, RequestStep, ResolvedRecord, InForceBounded DEF PathInv, Places
    <3> QED BY <1>0, <2>0, <3>2, <3>3 DEF PathInv
  <2> QED BY <1>5, <2>1, <2>2, <2>3, <2>4 DEF ListRules
<1>6. ASSUME NEW r \in Requests, EvalSha(r) PROVE PathInv'
  <2>1. UNCHANGED <<vars, server, redis, scripts>> /\ checks[r].pc = "limit"
    BY <1>6 DEF EvalSha
  <2>2. /\ checks' \in [Requests -> CheckRecords] /\ LimitTakesHold'
        /\ \A s \in Requests : s # r => checks'[s] = checks[s]
    <3>1. CASE \E allowed \in BOOLEAN : Answer(r, CheckStatusCode(allowed), TRUE)
      <4>1. PICK status \in {200, 429} : Answer(r, status, TRUE)
        BY <3>1 DEF CheckStatusCode
      <4>2. /\ checks' \in [Requests -> CheckRecords]
            /\ checks'[r].status = status /\ checks'[r].ran
            /\ \A s \in Requests : s # r => checks'[s] = checks[s]
        BY <1>0, <4>1 DEF Answer, CheckRecords
      <4> QED BY <1>0, <4>2 DEF PathInv, LimitTakesHold
    <3> QED BY <1>6, <3>1, RefusalKeeps DEF EvalSha
  <2>3. Places'
    BY <2>1, <2>2 DEF vars, PathInv, Places
  <2> QED BY <1>0, <2>1, <2>2, <2>3 DEF PathInv, ProcessTypeOK
<1>7. CASE Outside
  <2>1. UNCHANGED path
    BY <1>7 DEF Outside
  <2>2. \A r \in Requests : reqs'[r].pc = reqs[r].pc
    BY <1>0, <1>7, TickLeavesPlaces DEF Outside, Deploy
  <2> QED BY <1>0, <2>1, <2>2 DEF path, PathInv, ProcessTypeOK, Places, LimitTakesHold
<1> QED BY <1>1, <1>2, <1>3, <1>4, <1>5, <1>6, <1>7, <1>8, <1>9 DEF PathNext, Handle

LEMMA PathInvariance == PathSpec => []PathInv
BY PathInvInit, PathInvNext, PTL DEF PathSpec

(***************************************************************************)
(* The types of the check path.                                            *)
(***************************************************************************)
THEOREM PathTypeCorrect == PathSpec => []PathTypeOK
<1>1. PathInv => PathTypeOK
  BY DEF PathInv, CacheInv, ProcessTypeOK, CheckRecords, Places, PathTypeOK
<1> QED BY <1>1, PathInvariance, PTL

(***************************************************************************)
(* No check, through overlapping misses, failures and restarts, is given   *)
(* rules that were replaced more than the ttl and one load ago             *)
(* (rule_cache.go 37-71).                                                  *)
(***************************************************************************)
THEOREM StalenessIsBounded == PathSpec => []StalenessBounded
<1>1. PathInv => StalenessBounded
  BY DEF PathInv, CacheInv
<1> QED BY <1>1, PathInvariance, PTL

(***************************************************************************)
(* Once the table has limited a route for longer than the ttl and one      *)
(* load, no request is let through that no script allowed, whatever fails, *)
(* restarts or is stale (check_service.go 30-54).                          *)
(***************************************************************************)
THEOREM DeployedLimitTakesHold == PathSpec => []LimitTakesHold
<1>1. PathInv => LimitTakesHold
  BY DEF PathInv
<1> QED BY <1>1, PathInvariance, PTL
=============================================================================
