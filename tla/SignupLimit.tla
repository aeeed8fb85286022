---------------------------- MODULE SignupLimit ----------------------------
(***************************************************************************)
(* The limit on self-service sign-ups that one instance keeps in memory:   *)
(* for each client the times of its admitted requests.                     *)
(*                                                                         *)
(* A request's time is read before the lock is taken, so requests run      *)
(* under the lock in another order than their times, and the times of a    *)
(* client are not stored in order.  A list of times is a function on       *)
(* increasing positions: what is dropped leaves a gap.  A client that is   *)
(* not in the map `seen' is one with no times here: with a positive limit  *)
(* the map holds no empty list.                                            *)
(***************************************************************************)
EXTENDS Integers, Sequences, FiniteSetsExt, Functions

CONSTANTS Requests,     \* requests that can be served at a time
          Senders,      \* the hosts that send them
          Watched,      \* the one of them whose requests are recorded
          Proxy,        \* the proxy in front of the service, if there is one
          Limit,        \* limit: 5
          Window,       \* window: an hour, in ticks
          RetryAfter,   \* the header's 3600, in ticks
          MaxSeen,      \* 10_000: a larger map is pruned
          MaxDelay,     \* from reading the clock to having the lock, in ticks
          MaxClock      \* bound of the model: the clock stops here

ASSUME SignupAssumption ==
  /\ Limit \in Nat \ {0} /\ Window \in Nat \ {0}
  /\ MaxSeen \in Nat /\ MaxDelay \in Nat /\ MaxClock \in Nat
  /\ RetryAfter \in Nat /\ RetryAfter >= Window
  /\ Watched \in Senders /\ Proxy \notin Senders

VARIABLES clock,     \* the instance's clock
          trustXF,   \* BehindProxy: the service is reached through Proxy
          reqs,      \* the requests
          seen,      \* seen[c]: the times kept for client c
          \* History, of the requests that Watched sends:
          log,       \* the times of those that were admitted, in that order
          told       \* when the last was refused, if none was admitted since;
                     \* else -1

vars == <<clock, trustXF, reqs, seen, log, told>>

Times == 0..MaxClock
Clients == Senders \cup {Proxy}
NoTimes == [i \in {} |-> 0]
Idle == [pc |-> "idle", sender |-> Proxy, client |-> Proxy, now |-> 0]

Init ==
  /\ clock = 0
  /\ trustXF \in BOOLEAN
  /\ reqs = [r \in Requests |-> Idle]
  /\ seen = [c \in Clients |-> NoTimes]
  /\ log = <<>>
  /\ told = -1

\* What a sender may claim in X-Forwarded-For, and what the service is given:
\* the proxy appends the host that it was called by.  It is taken to do so always,
\* and to pass on one line, the first being all that Header.Get reads.
Claims == {<<>>} \cup {<<s>> : s \in Senders}
Hops(sender, claim) == IF trustXF THEN Append(claim, sender) ELSE claim
Remote(sender) == IF trustXF THEN Proxy ELSE sender

\* Mutant: the first hop, which the sender is free to choose.
ClientFirstHop(hops, remote) ==
  IF trustXF /\ hops # <<>> THEN hops[1] ELSE remote

\* client: the last hop, or the other end of the connection.
Client(hops, remote) == IF trustXF /\ hops # <<>> THEN hops[Len(hops)] ELSE remote

\* SignupLimit's handler tells the client and reads the clock.
Arrive(r) == \E s \in Senders, claim \in Claims :
  /\ reqs[r].pc = "idle"
  /\ reqs' = [reqs EXCEPT ![r] =
       [pc |-> "locking", sender |-> s,
        client |-> Client(Hops(s, claim), Remote(s)), now |-> clock]]
  /\ UNCHANGED <<clock, trustXF, seen, log, told>>

-----------------------------------------------------------------------------
(* allow, under the lock *)

\* Mutant: a time that has just left the window is kept.
KeptTooLong(times, cutoff) == Restrict(times, {i \in DOMAIN times : times[i] >= cutoff})

\* The times that are still in the window.
Kept(times, cutoff) == Restrict(times, {i \in DOMAIN times : times[i] > cutoff})

\* A list with one more time, after the others.
End(times) == IF DOMAIN times = {} THEN 1 ELSE Max(DOMAIN times) + 1
Appended(times, now) ==
  [i \in DOMAIN times \cup {End(times)} |-> IF i = End(times) THEN now ELSE times[i]]

\* Mutant: one request more than the limit.
FullBeyond(kept) == Cardinality(DOMAIN kept) > Limit

Full(kept) == Cardinality(DOMAIN kept) >= Limit

\* Mutant: a client is forgotten when its first request is old.
StaleByFirst(times, cutoff) ==
  DOMAIN times = {} \/ times[Min(DOMAIN times)] < cutoff

\* A client whose last time is old is forgotten.
Stale(times, cutoff) == DOMAIN times = {} \/ times[Max(DOMAIN times)] < cutoff

\* A map that has grown too large is rid of stale clients.
Pruned(map, cutoff) ==
  IF Cardinality({c \in Clients : DOMAIN map[c] # {}}) > MaxSeen
  THEN [c \in Clients |-> IF Stale(map[c], cutoff) THEN NoTimes ELSE map[c]]
  ELSE map

\* allow, and the answer: 429 with Retry-After, or what the handler says.
Allowed(q) == ~Full(Kept(seen[q.client], q.now - Window))

Refuse(q) ==
  /\ seen' = [seen EXCEPT ![q.client] = Kept(@, q.now - Window)]
  /\ told' = IF q.sender = Watched THEN clock ELSE told
  /\ UNCHANGED log

Admit(q) ==
  LET cutoff == q.now - Window
  IN /\ seen' = Pruned([seen EXCEPT ![q.client] = Appended(Kept(@, cutoff), q.now)],
                       cutoff)
     /\ told' = IF q.sender = Watched THEN -1 ELSE told
     /\ log' = IF q.sender = Watched THEN Append(log, q.now) ELSE log

Allow(r) ==
  /\ reqs[r].pc = "locking"
  /\ IF Allowed(reqs[r]) THEN Admit(reqs[r]) ELSE Refuse(reqs[r])
  /\ reqs' = [reqs EXCEPT ![r] = Idle]
  /\ UNCHANGED <<clock, trustXF>>

\* Time passes; a request has the lock within MaxDelay.
Tick ==
  /\ clock < MaxClock
  /\ \A r \in Requests : reqs[r].pc = "locking" => clock < reqs[r].now + MaxDelay
  /\ clock' = clock + 1
  /\ UNCHANGED <<trustXF, reqs, seen, log, told>>

Next == (\E r \in Requests : Arrive(r) \/ Allow(r)) \/ Tick

Spec == Init /\ [][Next]_vars

-----------------------------------------------------------------------------
(***************************************************************************)
(* Types; no more times are kept for a client than the limit.              *)
(***************************************************************************)
TypeOK ==
  /\ clock \in Times
  /\ trustXF \in BOOLEAN
  /\ reqs \in [Requests -> [pc : {"idle", "locking"}, sender : Clients,
                            client : Clients, now : Times]]
  /\ DOMAIN seen = Clients
  /\ \A c \in Clients :
       /\ DOMAIN seen[c] \subseteq Nat /\ Cardinality(DOMAIN seen[c]) <= Limit
       /\ \A i \in DOMAIN seen[c] : seen[c][i] \in Times
  /\ log \in Seq(Times)
  /\ told \in Times \cup {-1}

\* The requests of Watched admitted with times after `from' and up to `to'.
AdmittedIn(from, to) == Cardinality({i \in DOMAIN log : from < log[i] /\ log[i] <= to})

\* The limit is kept over a stretch somewhat shorter than the window: a request
\* that overtook another drops times up to MaxDelay early, and pruning, which
\* looks at one time of a list that is out of order, up to twice that.
Stretch == IF MaxDelay = 0 THEN Window ELSE Window - 2 * MaxDelay + 1

(***************************************************************************)
(* Whatever a sender claims, whoever prunes the map and in whatever order  *)
(* requests get the lock, a sender has at most Limit requests admitted     *)
(* with times in any Stretch (signup_limit.go 38-64).                      *)
(***************************************************************************)
SignupBound == \A t \in Times : AdmittedIn(t - Stretch, t) <= Limit

(***************************************************************************)
(* A sender is refused for its own requests of the last Window only        *)
(* (signup_limit.go 42-53, 66-80).                                         *)
(***************************************************************************)
RefusedForCause ==
  [][\A r \in Requests :
       Allow(r) /\ reqs[r].sender = Watched /\ log' = log =>
         AdmittedIn(reqs[r].now - Window, MaxClock) >= Limit]_vars

(***************************************************************************)
(* Retry-After is enough: a sender that was refused, and has had nothing   *)
(* admitted since, is admitted RetryAfter later (signup_limit.go 30).      *)
(***************************************************************************)
WaitIsEnough ==
  [][\A r \in Requests :
       ( /\ Allow(r) /\ reqs[r].sender = Watched
         /\ told >= 0 /\ reqs[r].now >= told + RetryAfter )
       => log' # log]_vars
=============================================================================
