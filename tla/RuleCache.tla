----------------------------- MODULE RuleCache -----------------------------
(***************************************************************************)
(* The rule cache of one app instance, for one tenant (entries of          *)
(* different tenants share nothing but the lock), and the table it reads.  *)
(*                                                                         *)
(* A request takes the lock twice, in get and in set, and reads Postgres   *)
(* between them without it: misses overlap, and the set of an older read   *)
(* may come after the set of a newer one.                                  *)
(*                                                                         *)
(* Rules are told apart by the version of the table they were read from.   *)
(* Time is kept as what is left of the entry's life and as the age of each *)
(* version, so that behaviours need not end.                               *)
(***************************************************************************)
EXTENDS Integers

CONSTANTS Requests,     \* goroutines that look rules up
          TTL,          \* the cache's ttl, in ticks
          MaxLoad,      \* longest time from a miss to its set, in ticks
          MaxVersion    \* bound of the model: changes of the rule table

ASSUME CacheAssumption ==
  /\ TTL \in Nat
  /\ MaxLoad \in Nat
  /\ MaxVersion \in Nat

Versions == 0..MaxVersion
Expired == TTL + 1             \* the age of an entry past its expiresAt
MaxAge == TTL + MaxLoad + 1    \* ages are counted up to here

VARIABLES table,     \* the version of the rules in Postgres
          age,       \* age[v]: ticks since version v was replaced
          item,      \* the cached rules and the ticks since set; no entry is Expired
          reqs,      \* what each request does
          stalest    \* history: the greatest age of any rules returned

vars == <<table, age, item, reqs, stalest>>

Idle == [pc |-> "idle", rules |-> 0, waited |-> 0]

\* How long the rules of version v have been out of date.
Staleness(v) == IF v = table THEN 0 ELSE age[v]

Larger(a, b) == IF a > b THEN a ELSE b

-----------------------------------------------------------------------------
Init ==
  /\ table = 0
  /\ age = [v \in Versions |-> 0]
  /\ item = [rules |-> 0, since |-> Expired]
  /\ reqs = [r \in Requests |-> Idle]
  /\ stalest = 0

\* Mutant: an entry lives a tick too long.
LiveTooLong == item.since <= TTL + 1

\* get finds an entry that time.Now() is not after the expiresAt of.
Live == item.since <= TTL

Return(r, v) ==
  /\ reqs' = [reqs EXCEPT ![r] = Idle]
  /\ stalest' = Larger(stalest, Staleness(v))

\* Mutant: a hit renews the entry.
HitRenews(r) ==
  /\ reqs[r].pc = "idle" /\ Live
  /\ Return(r, item.rules)
  /\ item' = [item EXCEPT !.since = 0]
  /\ UNCHANGED <<table, age>>

\* ListByTenant: get hits and the rules are returned.
Hit(r) ==
  /\ reqs[r].pc = "idle" /\ Live
  /\ Return(r, item.rules)
  /\ UNCHANGED <<table, age, item>>

\* ListByTenant: get misses, and the query is sent.
Miss(r) ==
  /\ reqs[r].pc = "idle" /\ ~Live
  /\ reqs' = [reqs EXCEPT ![r] = [pc |-> "miss", rules |-> 0, waited |-> 0]]
  /\ UNCHANGED <<table, age, item, stalest>>

\* RuleRepository.ListByTenant: Postgres answers from the table as it is now.
Load(r) ==
  /\ reqs[r].pc = "miss"
  /\ reqs' = [reqs EXCEPT ![r].pc = "loaded", ![r].rules = table]
  /\ UNCHANGED <<table, age, item, stalest>>

\* The query fails: the error is returned and nothing is cached.
LoadFails(r) ==
  /\ reqs[r].pc = "miss"
  /\ reqs' = [reqs EXCEPT ![r] = Idle]
  /\ UNCHANGED <<table, age, item, stalest>>

\* Mutant: the ttl is added to expiresAt twice.
SetForTwiceTTL(r) ==
  /\ reqs[r].pc = "loaded"
  /\ item' = [rules |-> reqs[r].rules, since |-> -TTL]
  /\ Return(r, reqs[r].rules)
  /\ UNCHANGED <<table, age>>

\* ListByTenant: set replaces the entry whatever is there, and the rules read
\* are returned.
Set(r) ==
  /\ reqs[r].pc = "loaded"
  /\ item' = [rules |-> reqs[r].rules, since |-> 0]
  /\ Return(r, reqs[r].rules)
  /\ UNCHANGED <<table, age>>

\* A migration changes the rules (there is no API for it).
Deploy ==
  /\ table < MaxVersion
  /\ table' = table + 1
  /\ UNCHANGED <<age, item, reqs, stalest>>

\* The instance stops, with its requests and its cache; the next one starts
\* with an empty cache.
Restart ==
  /\ item' = [item EXCEPT !.since = Expired]
  /\ reqs' = [r \in Requests |-> Idle]
  /\ UNCHANGED <<table, age, stalest>>

\* Time passes; a load is over MaxLoad after its miss.
Tick ==
  /\ \A r \in Requests : reqs[r].pc # "idle" => reqs[r].waited < MaxLoad
  /\ age' = [v \in Versions |->
               IF v < table /\ age[v] < MaxAge THEN age[v] + 1 ELSE age[v]]
  /\ item' = [item EXCEPT !.since = IF @ < Expired THEN @ + 1 ELSE @]
  /\ reqs' = [r \in Requests |->
                IF reqs[r].pc = "idle" THEN reqs[r]
                ELSE [reqs[r] EXCEPT !.waited = @ + 1]]
  /\ UNCHANGED <<table, stalest>>

Next ==
  \/ \E r \in Requests : Hit(r) \/ Miss(r) \/ Load(r) \/ LoadFails(r) \/ Set(r)
  \/ Deploy
  \/ Restart
  \/ Tick

\* Time passes, and a query that was sent is answered (or fails by its
\* request's context) and used.  Nobody is obliged to send requests or to
\* deploy.
Fairness ==
  /\ WF_vars(Tick)
  /\ \A r \in Requests : WF_vars(Load(r) \/ LoadFails(r)) /\ WF_vars(Set(r))

Spec == Init /\ [][Next]_vars /\ Fairness

-----------------------------------------------------------------------------
(***************************************************************************)
(* Types.                                                                  *)
(***************************************************************************)
TypeOK ==
  /\ table \in Versions
  /\ age \in [Versions -> 0..MaxAge]
  /\ item \in [rules : Versions, since : 0..Expired]
  /\ reqs \in [Requests -> [pc : {"idle", "miss", "loaded"}, rules : Versions,
                            waited : 0..MaxLoad]]
  /\ stalest \in 0..MaxAge

(***************************************************************************)
(* No request is given rules that were replaced more than TTL and one load *)
(* ago, however misses and sets overlap (rule_cache.go 37-71).  The load   *)
(* counts because expiresAt is computed in set, after the read.            *)
(***************************************************************************)
StalenessBounded == stalest <= TTL + MaxLoad

(***************************************************************************)
(* The newest rules win: once the table stops changing, the cache ends up  *)
(* serving nothing else, though an older read may be set after a newer     *)
(* one.                                                                    *)
(***************************************************************************)
CacheConverges == <>[](Live => item.rules = table)
=============================================================================
