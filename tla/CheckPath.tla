----------------------------- MODULE CheckPath -----------------------------
(***************************************************************************)
(* A check from end to end in one app instance: the handler, the check     *)
(* service with the rule cache (RuleCache) and Redis, through the starts,  *)
(* the shutdowns and the crashes of the instance and of Redis.             *)
(*                                                                         *)
(* What a script answers is left open (TokenBucket and SlidingWindow say   *)
(* what it answers); here it matters only whether it ran.  Redis keeps the *)
(* scripts in memory: it has them from the start of any instance until its *)
(* own next restart.                                                       *)
(***************************************************************************)
EXTENDS RuleCache, FiniteSetsExt

CONSTANT Limited     \* the versions of the table with a rule for the route

ASSUME LimitedAssumption == Limited \subseteq Versions

VARIABLES server,    \* "down", "serving" or "draining"
          redis,     \* can Redis be reached: "up" or "cut"
          scripts,   \* does Redis have the scripts
          checks     \* the check each request goroutine handles, or handled last

path == <<server, redis, scripts, checks>>
pathVars == <<vars, path>>

Down == "down"
NoCheck == [pc |-> "done", status |-> 0, ran |-> FALSE, inForce |-> 0]
Beginning(pc) == [NoCheck EXCEPT !.pc = pc]

\* For how long the table has limited the route without a break: since the
\* last version that did not was replaced.
InForce ==
  IF table \notin Limited THEN 0
  ELSE Min({MaxAge} \cup {age[v] : v \in (0..table) \ Limited})

\* PING, of the client's connection and of the readiness probe.
Ping == redis = "up"

\* EVALSHA gets an answer only where the scripts are: NOSCRIPT is an error
\* like any other.
Able == Ping /\ scripts

\* The status of a decision.
CheckStatusCode(allowed) == IF allowed THEN 200 ELSE 429

-----------------------------------------------------------------------------
PathInit ==
  /\ Init
  /\ server = Down
  /\ redis = "up"
  /\ scripts = FALSE
  /\ checks = [r \in Requests |-> NoCheck]

(***************************************************************************)
(* The instance.                                                           *)
(***************************************************************************)

\* main: the pools connect and ping, the scripts are loaded, the cache is
\* empty.  Without Redis the process exits and nothing has changed.
Start ==
  /\ server = Down /\ Ping
  /\ server' = "serving"
  /\ scripts' = TRUE
  /\ UNCHANGED <<vars, redis, checks>>

\* The process ends: connections are closed on requests in flight.
Exit ==
  /\ server' = Down
  /\ checks' = [r \in Requests |-> NoCheck]
  /\ Restart
  /\ UNCHANGED <<redis, scripts>>

\* The process is killed, or leaves on an error of the listener.
Crash == server # Down /\ Exit

\* SIGTERM: Shutdown closes the listeners and the idle connections and waits.
\* One that was accepted just before is not idle yet: it is new, and may still
\* bring a request.
Signal ==
  /\ server = "serving"
  /\ server' = "draining"
  /\ \E new \in SUBSET {r \in Requests : checks[r].pc = "done"} :
       checks' = [r \in Requests |-> IF r \in new THEN Beginning("new") ELSE checks[r]]
  /\ UNCHANGED <<vars, redis, scripts>>

\* A new connection brings nothing, and Shutdown takes it for idle.
CloseNew(r) ==
  /\ checks[r].pc = "new"
  /\ checks' = [checks EXCEPT ![r] = NoCheck]
  /\ UNCHANGED <<vars, server, redis, scripts>>

\* Shutdown returns when no connection is left; then main does.
Drained ==
  /\ server = "draining"
  /\ \A r \in Requests : checks[r].pc = "done"
  /\ Exit

\* ShutdownTimeout comes first: os.Exit with connections open.
TimedOut ==
  /\ server = "draining"
  /\ \E r \in Requests : checks[r].pc # "done"
  /\ Exit

(***************************************************************************)
(* A check.                                                                *)
(***************************************************************************)

\* Mutant: connections are taken while the server drains.
AcceptDraining(r) ==
  /\ server # Down /\ checks[r].pc \in {"done", "new"}
  /\ checks' = [checks EXCEPT ![r] = Beginning("rules")]
  /\ UNCHANGED <<vars, server, redis, scripts>>

\* A well-formed, authenticated request reaches the handler, which calls
\* Check.  (The others are answered at once, and touch nothing.)  While the
\* server drains it is the one request of a new connection, which is then
\* closed.
Accept(r) ==
  /\ \/ server = "serving" /\ checks[r].pc = "done"
     \/ checks[r].pc = "new"
  /\ checks' = [checks EXCEPT ![r] = Beginning("rules")]
  /\ UNCHANGED <<vars, server, redis, scripts>>

Answer(r, status, ran) ==
  checks' = [checks EXCEPT ![r] =
    [pc |-> "done", status |-> status, ran |-> ran, inForce |-> checks[r].inForce]]

\* Check has rules of version v: without one for the route it answers at once.
Resolved(r, v) ==
  checks' = [checks EXCEPT ![r] =
    [pc |-> IF v \in Limited THEN "limit" ELSE "done",
     status |-> IF v \in Limited THEN 0 ELSE CheckStatusCode(TRUE),
     ran |-> checks[r].ran, inForce |-> InForce]]

\* Check calls ListByTenant; the error of a failed read is answered with 503.
ListRules(r) ==
  /\ checks[r].pc = "rules"
  /\ \/ Hit(r) /\ Resolved(r, item.rules)
     \/ (Miss(r) \/ Load(r)) /\ UNCHANGED checks
     \/ LoadFails(r) /\ Answer(r, 503, FALSE)
     \/ Set(r) /\ Resolved(r, reqs[r].rules)
  /\ UNCHANGED <<server, redis, scripts>>

\* Mutant: without an answer the request is let through.
EvalShaOrAllow(r) ==
  /\ checks[r].pc = "limit"
  /\ \/ Able /\ \E allowed \in BOOLEAN : Answer(r, CheckStatusCode(allowed), TRUE)
     \/ ~Able /\ Answer(r, 200, FALSE)
  /\ UNCHANGED <<vars, server, redis, scripts>>

\* Mutant: the command is sent again until it is answered.
EvalShaUntilAble(r) ==
  /\ checks[r].pc = "limit"
  /\ Able /\ \E allowed \in BOOLEAN : Answer(r, CheckStatusCode(allowed), TRUE)
  /\ UNCHANGED <<vars, server, redis, scripts>>

\* The limiter runs the script, whose verdict the handler answers; an error
\* is answered with 503.
EvalSha(r) ==
  /\ checks[r].pc = "limit"
  /\ \/ Able /\ \E allowed \in BOOLEAN : Answer(r, CheckStatusCode(allowed), TRUE)
     \/ ~Able /\ Answer(r, 503, FALSE)
  /\ UNCHANGED <<vars, server, redis, scripts>>

(***************************************************************************)
(* Redis, the other instances, and time.                                   *)
(***************************************************************************)
Cut ==
  /\ redis = "up" /\ redis' = "cut"
  /\ UNCHANGED <<vars, server, scripts, checks>>

Heal ==
  /\ redis = "cut" /\ redis' = "up"
  /\ UNCHANGED <<vars, server, scripts, checks>>

\* Redis restarts, out of reach meanwhile: its script cache is not kept.
RedisRestarts ==
  /\ redis = "cut" /\ scripts /\ scripts' = FALSE
  /\ UNCHANGED <<vars, server, redis, checks>>

\* Another instance starts: the scripts have the same SHA1.
PeerStarts ==
  /\ redis = "up" /\ ~scripts /\ scripts' = TRUE
  /\ UNCHANGED <<vars, server, redis, checks>>

Outside == (Deploy \/ Tick) /\ UNCHANGED path

-----------------------------------------------------------------------------
Handle(r) == ListRules(r) \/ EvalSha(r) \/ CloseNew(r)

PathNext ==
  \/ Start \/ Crash \/ Signal \/ Drained \/ TimedOut
  \/ \E r \in Requests : Accept(r) \/ Handle(r)
  \/ Cut \/ Heal \/ RedisRestarts \/ PeerStarts
  \/ Outside

\* Goroutines that can go on do, a query or command is answered or fails, new
\* connections do not stay so, and time passes.  Nobody is obliged to send
\* requests, to deploy, to start or to stop anything, nor Redis to come back.
PathFairness ==
  /\ \A r \in Requests : WF_pathVars(Handle(r))
  /\ WF_pathVars(Drained)
  /\ WF_pathVars(Tick /\ UNCHANGED path)

PathSpec == PathInit /\ [][PathNext]_pathVars /\ PathFairness

-----------------------------------------------------------------------------
(***************************************************************************)
(* Types; and only a request that looks for rules is in the cache.         *)
(***************************************************************************)
PathTypeOK ==
  /\ TypeOK
  /\ server \in {"down", "serving", "draining"}
  /\ redis \in {"up", "cut"}
  /\ scripts \in BOOLEAN
  /\ checks \in [Requests -> [pc : {"done", "new", "rules", "limit"},
                              status : {0, 200, 429, 503},
                              ran : BOOLEAN, inForce : 0..MaxAge]]
  /\ \A r \in Requests : reqs[r].pc # "idle" => checks[r].pc = "rules"

(***************************************************************************)
(* A deployed limit takes hold: once the table has limited a route for     *)
(* longer than the ttl and one load, no request for it is let through that *)
(* a script did not allow, whatever fails, restarts or is stale            *)
(* (check_service.go 35-53, check.go 103-112).                             *)
(***************************************************************************)
LimitTakesHold ==
  \A r \in Requests :
    checks[r].status = 200 /\ checks[r].inForce > TTL + MaxLoad => checks[r].ran

(***************************************************************************)
(* A check is answered, or its connection closed by the end of the         *)
(* process, with Redis away or without the scripts too.                    *)
(***************************************************************************)
EveryCheckAnswered ==
  \A r \in Requests : checks[r].pc # "done" ~> checks[r].pc = "done"

(***************************************************************************)
(* A draining server runs out of requests and ends, even if connections    *)
(* that it had just accepted bring some more, and even if ShutdownTimeout  *)
(* never comes (main.go 108-115).                                          *)
(***************************************************************************)
DrainEnds == server = "draining" ~> server = Down

\* The readiness probe: Redis answers its ping (and Postgres, taken to).
Ready == server # Down /\ Ping

(***************************************************************************)
(* ADR 005: when the backend cannot decide, checks get 503 and the         *)
(* readiness probe has the instance removed from the load balancer.  So an *)
(* instance that cannot have a script run becomes able to, or unready.     *)
(***************************************************************************)
AbleOrRemoved == server = "serving" /\ ~Able ~> Able \/ ~Ready
=============================================================================
