# A TLA+ model of the distributed rate limiter

This directory models the rate limiter service: what its Redis scripts admit when
many app instances call them at once, which rule limits a route, how stale the
cached rules can be, how a check ends when Redis or the instance goes away, what
happens to projects and API keys when requests overlap and fail, how sign-ups are
limited, and what overlapping runs of the migration program do to the database.  TLC
checks the modules on small instances; TLAPS proves their safety properties, all but
one that is about `ENABLED`, for all values of the parameters.

## 1. Inventory of the system

A service written in Go answers `POST /v1/check`: may this tenant do this, on
this route, now?  Several instances run side by side.  They share Postgres (tenants,
keys, rules) and Redis (counters); each has a rule cache of its own.

    request -> AuthMiddleware -> RequireCheckRole -> CheckHandler -> CheckService
                  |  Postgres        |  Postgres                      |-> RuleCache -> Postgres
                                                                      |-> RuleResolver
                                                                      '-> RateLimiter -> Redis (Lua)

| Component | State | Operations | What is hard | What makes it correct |
|---|---|---|---|---|
| Token bucket (`token_bucket.lua`, `rate_limiter.go`) | a Redis hash (tokens, last_refill_ms) with a time to live | one script per check | stamps are taken by the callers' clocks, before the command is sent; lost replies are retried; the key expires | admits at most capacity and refill; expiry gives nothing away; `retry_after` and `reset_at` can be relied on |
| Sliding window (`sliding_window.lua`) | three Redis keys: current count, previous count, window index | one script per check | late stamps at a rollover, expiry, the weighted estimate | no window charged beyond the limit; bounded over every stretch of a window's length |
| Rule resolution (`rule_resolver.go`, `entity/rule.go`) | none | `Resolve` | scores of different kinds of match share one scale | exact over longer prefix over shorter prefix over default, whatever the order of rows |
| Rule cache (`rule_cache.go`) | an entry per tenant with an expiry, under a lock | `ListByTenant` = get, query, set | the query runs without the lock: misses overlap | bounded staleness; converges |
| Authentication (`auth_service.go`, middleware) | tables `api_keys`, `tenants` | `Authenticate`: two queries, on the check route twice | revocation and suspension between the queries | what was revoked or suspended before the query that looks at it is refused |
| Provisioning (`provisioning_service.go`, `project_repository.go`, handlers) | tables `tenants`, `api_keys`, `rules`; the connection pool | create project, list, get, add key, revoke key; from the console and from the operator | transactions that compete for names and hashes, failures anywhere, lost commit replies | projects are whole, names and hashes have one owner, keys change for managers only, nobody waits forever |
| Configuration API (`handlers/config.go`) | none | reads | | own tenant only |
| Check service and handler (`check_service.go`, `keys.go`) | none; the names of the counters | validation, composition | an error of any part must not become an admission; routes fall together in one counter | a deployed limit takes hold; every check is answered; each rule's limit is kept |
| Signup limiter (`signup_limit.go`) | times per client, under a lock | `client`, `allow` | `now` is read before the lock; one client's request prunes the others; forwarded headers | at most 5 an hour, for one's own requests only, and again after `Retry-After` |
| Migration runner (`cmd/migrate`) | `schema_migrations` | apply what is missing, seed | two runs at once, a run killed between statements, a commit that is not heard of | each file takes effect once and in order; running again completes the work |
| Server lifecycle (`cmd/server`, health) | serving or draining | start, readiness, signal, shutdown | Redis restarts without its scripts | a shutdown ends; ready means able to check |
| Web console, example clients, metrics, logging | | | | |

`PROJECT.json` lists the hazards at their lines, each with the properties that
would catch it.

## 2. Modules

| Module | What it is |
|---|---|
| `LimiterCalls` | the callers of a Redis script: own clocks, delay, retries, lost replies |
| `TokenBucket` | the bucket's script over its hash; extends `LimiterCalls` |
| `EagerBucket` | abstract: a level that grows by the rate at every tick and never expires |
| `TokenBucketProofs` | theorems about `TokenBucket` |
| `WindowScript` | the window's script over its three keys, for any limit and window; extends `LimiterCalls` |
| `SlidingWindow` | a counter that one rule uses; extends `WindowScript` |
| `SlidingWindowProofs` | theorems about `SlidingWindow` |
| `SharedWindow` | a counter that several rules use; extends `WindowScript` |
| `SharedWindowProofs` | a theorem about `SharedWindow` |
| `WindowCounts` | abstract: a count kept for every window for ever |
| `RuleResolver`, `RuleResolverProofs` | the loop of `Resolve`, and theorems about it |
| `RuleCache` | requests, the cache entry of a tenant, the rule table |
| `CheckPath` | a check from handler to answer, in an instance and against a Redis that come and go; composes `RuleCache` |
| `CheckPathProofs` | theorems about `RuleCache` and `CheckPath` |
| `Accounts` | requests against the three tables, statement by statement |
| `AccountsProofs` | theorems about `Accounts` |
| `SignupLimit` | the sign-up limit of one instance: requests, clock, lock, map |
| `SignupLimitProofs` | theorems about `SignupLimit` |
| `Migrate` | runs of the migration program on one database |
| `MigrateProofs` | theorems about `Migrate` |
| `MC...` | the same modules with symmetry sets and sample values for TLC |

Definitions carry the source's names where they can; `PROJECT.json` maps each to
the lines it stands for.  Definitions whose comment begins with "Mutant" are not
part of any specification: each is a plausible mistake in the definition that
follows it, and shows that a property can fail.

### LimiterCalls, TokenBucket, WindowScript, SlidingWindow, SharedWindow

`clock` is Redis's time.  `Send` is the start of `checkTokenBucket` or
`checkSlidingWindow`: the caller's clock is read, then the command sent.  Each
reading is off by up to `MaxSkew`, another each time, so clocks that differ, drift
and are set are all covered.  The script runs in one step
(Redis runs one script at a time), with the reply heard (`EvalSha`) or lost
(`ReplyLost`); `SendFails` is a command that never arrives.  After a loss the
client library sends the *same* command, stamp included, up to `MaxRetries` times.
`MaxDelay` bounds the time from reading the clock to the end of the last try, which
is what the client's dial, read and retry time limits bound; the model's clock does
not pass the deadline of a pending call.

`Script` in `TokenBucket` is `token_bucket.lua`.  Tokens are counted in parts of
`1/Unit` token so that a tick refills a whole number, and `PerSecond` ticks are a
second, so the roundings of `retry_after`, `reset_at` and `EXPIRE` are kept.  The
script's floating-point arithmetic is modelled as exact.  A rate of zero, which
leaves the key without expiry, is allowed.  `Script` in `WindowScript` is
`sliding_window.lua`; the estimate is kept exact by multiplying by the window.
`mark` and `spent` are an observer that may start measuring at any moment; in the
bucket, `setback` sums up by how much scripts since then set the stored time back.
`exact` records that every script so far was stamped with Redis's own time, and is
where the refinements and, whatever the delay, the tighter form of `RollingBound`
apply.

The limit and the window are arguments of the script and no part of the keys.
`SharedWindow` runs it for routes that differ in case only: `RouteHash` lowers the
case, `Rule.Matches` does not.  Its history counts what a route was allowed by the
window of the stamp (`charged`, what a user of the route would count) and by the
window the counter was in (`counted`, and `together` for all routes).

### RuleResolver

Paths are sequences of bytes and a pattern is a path with or without a trailing
star.  One step is one turn of the loop; the initial states are all lists of
distinct patterns up to `MaxRules` (the table has a unique constraint).

### RuleCache

Time is relative: the age of the entry and of each superseded version of the
table, so behaviours are infinite and liveness can be checked.  `MaxLoad` bounds
the time from a miss to its set.  `Restart` is the end of the instance: its cache
and its requests are gone.

### CheckPath

The composition: each step of a request in the cache is conjoined with what the
check service does with its result (`ListRules`), then `EvalSha` has the script run
or fails.  `server` is the process as `main` takes it through start, `Signal`,
draining and `Exit`; `redis` says whether Redis can be reached and `scripts` whether
it holds the scripts, which an instance loads when it starts, this one (`Start`) or
another (`PeerStarts`), and which `RedisRestarts` loses.  Versions of the table in
`Limited` have a rule for the route; which rule, and what its script decides, is the
business of the other modules.  Authentication is in `Accounts`.  `Ready` is the
Redis half of the probe: the ping of Postgres is taken to succeed.
`Signal` closes the listener and the idle connections.  Some that were accepted
just before have brought no request yet (`"new"`): `Shutdown` lets them bring one,
which is served (`Accept`), or closes them after a few seconds (`CloseNew`).

### Accounts

A request is a record with a program counter; a step is one SQL statement.  Since
rows are never deleted, a tenant is known by its name and a key by its hash.  A
transaction's rows are in the record of its request until `Commit`; `NamePending`
and `HashPending` make another insert of the same unique value wait, as Postgres
does.  Connections are counted, in a pool whose size `conns` is chosen at the start:
a transaction keeps one for its whole life and an `INSERT` that waits keeps one.  `Waits` is all that a request can wait for: a
connection if it has none, then its name or its hash.  `Fails` can end any request at any statement with
503 (404 where `ListTenantRules` cannot get its tenant); `CommitUnheard`, `AddUnheard` and `RevokeUnheard` take effect and are
answered 503.  `Suspend` and `Reactivate` are done by hand in the table.  The
initial states are the tables after the migrations: empty, or with the seeded
project, whose only key is a check key.  The check route ends here at the point
where `CheckService` takes over.  `ListTenantRules` makes two reads, of the tenant
and then of its rules, the second possibly from the rule cache.  The history
`late` says of a request why it comes too late for its next query: it is taken
afresh when authentication begins, when it begins a second time on the check route
and when the key was found, and cleared for a tenant that is reactivated.

### SignupLimit

A request is told its client and its time in one step (`Arrive`) and has the lock
later (`Allow`), within `MaxDelay`.  Requests so overtake each other, and the list
of a client's times is not in order.  A list is a function on increasing
positions: filtering it leaves gaps, and its last element is the one at the greatest
position.  `trustXF` is chosen at the start.  With it
the service is behind a proxy that appends the host it was called by to
`X-Forwarded-For`, whatever the sender wrote there.  The proxy is not in the
repository; that it always writes this header, and in one line (`Header.Get` reads
the first), is an assumption about it.  `Client` falls back on the other end of the
connection, as the code does, where there is no header.  `log` and `told` record what became of the requests of one sender,
`Watched`, the others being there to share the map and its pruning.

### Migrate

Files are their numbers, in the order of their names; a build has the files
`1..n`.  `effects` is what the database has gone through, file by file.  A run
reads whether a version is recorded and acts on it later, in a transaction of its
own; `Record` waits for a run that inserted the same version, as Postgres has it
wait at the primary key.  `Fails` is an error anywhere or the end of the process,
`CommitUnheard` a commit whose reply is lost.  The SQL of a file that another run
has just applied may itself fail, on an object that is there already, before its
`Record` would: this too is `Fails`.  Older builds may be deployed beside
or after newer ones.

## 3. Runs

| Run | Bounds | Shows |
|---|---|---|
| `token_bucket` | 2 callers, costs 1 and 2, capacity 2, half a token a tick, delay 1, one retry, 7 ticks | `AdmissionBound`, `ExpiryForgetsNothing`, `RetryAfterEnough`, `ResetAtWithinASecond`; implements `EagerBucket` while stamps are exact |
| `token_bucket_skew` | each clock up to one tick off Redis's, two readings so up to two ticks apart | **finding**: `NeverOverAllows` fails |
| `sliding_window` | 2 callers, limit 2, window 3, delay 2, one retry, 8 ticks | `WindowNeverOvercharged`, `RollingBound`, `ExpiryForgetsNothing`, `IndexNeverGoesBack`, `ClearAfterAnotherWindow`; implements `WindowCounts` while stamps are exact |
| `sliding_window_reset` | without delay, 9 ticks | **finding**: `ClearAtResetAt` fails |
| `shared_window` | 2 callers, two spellings of a route with limit 2 in 4 ticks and limit 1 in 2 | **finding**: `EachRuleHolds` fails |
| `rule_resolver` | all lists of up to three rules over the sample paths | `BestRuleChosen`, `OrderIrrelevant` |
| `rule_precedence` | the same | **finding**: `DocumentedPrecedence` fails |
| `check_path` | 2 requests, ttl 1, load 1, a limit that is lifted and deployed again | `StalenessBounded`, `LimitTakesHold`, `EveryCheckAnswered`, `DrainEnds`, `CacheConverges` |
| `check_path_ready` | the same | **finding**: `AbleOrRemoved` fails |
| `accounts` | 2 requests at a time, 2 names, 2 hashes, a pool of 1 or 2 connections | `ProjectsWhole`, `ListingsWhole`, `CreatedIsOwned`, `RefusalIsFinal`, `NoStandstill`, `NothingElseWaits`, `KeysChangeForManagers`, `NoAdminForGood` |
| `signup_limit` | 2 requests at a time, 2 senders and the proxy, limit 2 in 4 ticks, delay 1, a map pruned above one client, 7 ticks | `SignupBound`, `RefusedForCause`, `WaitIsEnough` |
| `migrate` | 2 runs at a time, builds of up to 3 files, 2 faults | `AppliedOnceInOrder`, `CompleteIsMigrated`, `RunEnds`, `EventuallyMigrated` |

Why the bounds are enough: the clock passes several refill periods and enters three
windows, so that the bucket fills, empties and expires, and the window rolls over
to a neighbour, to a later window and from nothing; two callers are what it takes
to run scripts out of the order of their stamps.  In `Accounts` two requests are
what a race takes, and slots are used again, so behaviours of any length are
explored (so are requests, outages and restarts in `CheckPath` and runs in
`Migrate`); two hashes allow two admins, two names two tenants,
and a pool of one connection is exhausted by either request.  In `SignupLimit`
two requests are what overtaking takes, the clock passes a window and the delay
after it, and a map of one client that is pruned at the second is pruned in many
states, where the code's 10 000 would never be reached.  Three files let a run be
ahead of another by more than one.  Deadlock is not
checked where the model's clock (or the loop) really ends.  Symmetry is used for
safety only.

What the runs say beyond a plain "holds":

- `AdmissionBound` is the bound on a bucket whatever the order of stamps: capacity,
  and the refill of the time that passed, of what delay and skew can add, and of
  `setback`.  The last term is what finding 1 costs: time that is set back is
  refilled once more.
- `RollingBound`.  The code's README speaks of "no burst at window boundaries"; what
  is true is that a stretch of a window's length admits less than twice the limit
  (2 - 1/W of it, for a window of W seconds), and the mutant `EstimateCurrOnly` shows
  that a window that ignored its predecessor would break the bound.  This needs
  stamps that are true to within a second.  With more drift a stretch can charge
  three windows, the first of them late and the last one early, and the bound is
  3 - 2/W + 1/W^2 of the limit.  The proof brought this out: the bound was stated too
  low at first, and TLC refutes that (limit 4, window 4, delay 2 admits 10).
- `StalenessBounded` is ttl *plus one load*, and tight: ADR 006 names the ttl alone.
- `LimitTakesHold` is the end-to-end form of it: from ttl and one load after a limit
  was deployed no failure, restart or stale entry lets a request through that no
  script allowed.
- `DrainEnds` holds without the shutdown timeout, because a draining server takes no
  connections, those it has just accepted bring one request at most, and each request
  is answered, with 503 if need be.
- `RefusalIsFinal` speaks of changes between the queries of a request too: of keys
  revoked before the (last) authentication began, and of tenants suspended when that
  began or by the time the key was found, and since.  It cannot say more: the key and
  the tenant are read one after the other, so a request may pass although at no single
  moment both were in order, and one that has passed still acts after its key is
  revoked.
- `NoAdminForGood` states a limit of the design: the operator's API mints check keys
  only, so a project that revokes its last admin key, and the seeded project from
  the start, cannot be managed from the console any more.  "For good" is meant: not to
  have an admin key, with no request under way that found one, is preserved by every
  step.
- `NoStandstill` is about waiting among requests: transactions wait for names and
  hashes while they hold connections, and still one of the requests in progress, and
  one of those that hold a connection, waits for nothing, because a transaction never
  asks for a second connection (`WaitsInTx` shows what would happen if it did).
  `NothingElseWaits` is the other half: a request that does not wait has a next
  statement whatever the tables hold.
- `SignupBound` counts over a stretch a little shorter than the window
  (`Stretch`).  A request that overtook another drops times up to the delay before
  the lock early, and pruning, which looks at the last element of a list that is out
  of order, twice that.  The delay is that of a mutex, so against an hour this is
  nothing; without delay the bound is the window itself.
- `CompleteIsMigrated` holds although an older build may run at the same time, and
  the API, which starts after "migrations complete", finds every file of its build
  in effect.

### Findings

1. `token_bucket.lua:26` stores the caller's stamp even if it is older than the
   stored one; the next caller with a later stamp is credited again for the time in
   between.  ADR 002 says instances must not over-allow.
2. `sliding_window.lua:45-46`: at `reset_at` the limit has not "fully" reset
   (`docs/api/openapi.yaml:81`), and a request that waits `retry_after` may be
   refused.
3. `entity/rule.go:98-100`: the prefix rule `/*` ties with the default `*`;
   the order of rows decides, against README.md:45.
4. `rate_limiter.go:40`: scripts are loaded when an instance starts and never again.
   After a restart of Redis `EVALSHA` answers `NOSCRIPT` and limited checks get 503
   until some instance starts; the probe, which pings, stays ready, so that nothing
   is removed from the load balancer as ADR 005 has it.
5. `keys.go:21`: routes are hashed in lower case and matched as spelled, so rules for
   two spellings of a route share a counter.  If their windows differ, the shorter
   one's index is the greater, and its rollover wipes out what the longer window has
   counted: the rule with the longer window admits more than its `LimitCount`, "max
   requests in window" (`entity/rule.go:17`).  The same rollover comes with a rule
   whose window is changed while its counter is in use.  It takes different windows:
   with the same window rules of different limits share a counter and each is held to
   its own limit (`EqualWindowsHold`, section 4).  The converse does not hold: what the
   route with the greater limit uses up is refused to the other.

### Fairness

`CheckPath` (and `RuleCache` within it) assumes that time passes, that a goroutine
that can go on does, and that a query or command is answered or fails (the Redis
client has time limits; a query ends at the latest with its client's connection), and
that a new connection does not stay so while the server drains (`Shutdown` closes it).
Nobody has to send requests, Redis need not come back, and neither restarts nor the
shutdown timeout are counted on.  `Migrate` assumes that a run that can go on does
(weakly: what it waits for, another run's commit, is such a step too), and that the
newest build is deployed again as long as it can be; that assumption is about
people, is needed by `EventuallyMigrated` alone, and is what "safe to run again"
means.  No fairness is assumed of failures, of clients or of revocations.  The other
modules assume none: that requests in `Accounts` do not all wait for each other is
the invariants `NoStandstill` and `NothingElseWaits`.

## 4. Proofs

| Module | Theorems, each `Spec => []P` or, for an action property or a refinement, `Spec => P` |
|---|---|
| `TokenBucketProofs` | `TypeCorrect`; `AdmissionIsBounded` (`AdmissionBound`); `ExpiryIsHarmless` (`ExpiryForgetsNothing`); `RetryAfterSuffices` (`RetryAfterEnough`); `ResetAtIsRight` (`ResetAtWithinASecond`); `RefinesEagerBucket` (`ImplementsEagerBucket`) |
| `SlidingWindowProofs` | `TypeCorrect`; `NeverOvercharged` (`WindowNeverOvercharged`); `RollingBoundHolds` (`RollingBound`); `ExpiryHarmless` (`ExpiryForgetsNothing`); `IndexOnlyForward` (`IndexNeverGoesBack`); `ClearLater` (`ClearAfterAnotherWindow`); `RefinesWindowCounts` (`ImplementsWindowCounts`) |
| `SharedWindowProofs` | `EqualWindowsShare` (`EqualWindowsHold`) |
| `RuleResolverProofs` | `TypeCorrect`; `ResolverIsCorrect` (`BestRuleChosen`); `OrderDoesNotMatter` (`OrderIrrelevant`) |
| `CheckPathProofs` | `CacheStaleness` (`StalenessBounded`, of the cache by itself); `PathTypeCorrect` (`PathTypeOK`); `StalenessIsBounded` (`StalenessBounded`, of `PathSpec`); `DeployedLimitTakesHold` (`LimitTakesHold`) |
| `AccountsProofs` | `TypeCorrect`; `ProjectsAreWhole` (`ProjectsWhole`); `ListingsAreWhole` (`ListingsWhole`); `CreatedOwned` (`CreatedIsOwned`); `LateIsRefused` (`RefusalIsFinal`); `KeysOnlyForManagers` (`KeysChangeForManagers`); `NoAdminIsFinal` (`NoAdminForGood`); `SomeoneGoesOn` (`NoStandstill`) |
| `SignupLimitProofs` | `TypeCorrect`; `SignupsAreBounded` (`SignupBound`); `RefusalsHaveCause` (`RefusedForCause`); `WaitingSuffices` (`WaitIsEnough`) |
| `MigrateProofs` | `TypeCorrect`; `AppliedOnce` (`AppliedOnceInOrder`); `CompleteMeansMigrated` (`CompleteIsMigrated`) |

They hold for every value of the constants that the named assumptions allow:

- bucket and window: positive capacity, unit, ticks per second, limit and window, a
  rate that may be zero, natural bounds on skew, delay and retries, any set of
  callers, integer costs; for the window, stamps that are off by at most a window
  altogether (`MaxDelay + 2 * MaxSkew <= Window`).  The client's time limits add up to
  seconds, so with a window of a few seconds a command can be later than that, and of
  such commands the theorems about the window say nothing;
- the shared window: any routes, callers as above; that the limits and windows are
  positive, the windows the same and stamps off by at most one is a premise of the
  property itself (`SameWindow`);
- resolver: any paths and any length of list;
- cache and check path: natural ttl, load time and number of versions, any set of
  requests, any set of versions that limit the route;
- accounts: any sets of names and hashes and any *finite* set of requests at a time
  (the pool counts its connections), an operator's token that is no API key, a
  positive pool and bound on rules;
- sign-ups: any sets of requests and of senders, any one of them watched, a positive
  limit and window, any delay to the lock and any size at which the map is pruned, a
  `RetryAfter` of at least the window (in the code both are an hour);
- migrations: any set of runs, positive number of files, any number of faults.

In each module an inductive invariant (`IInv`; `CacheInv` and `PathInv` in
`CheckPathProofs`, `LoopInv` in `RuleResolverProofs`) was checked with TLC on the
run's instance before it was proved.

*The bucket.*  `AdmissionBound` is not inductive: what may be admitted next depends
on what the hash holds.  `IInv` adds `StampsInv` (a pending stamp is at most
`MaxDelay` and `MaxSkew` off Redis's clock), `ExpiryInv` (the time to live left is at
least what it takes the hash to fill up, counted from its last stamp) and
`PaidForInv` (what was spent since the observer's mark, and what the bucket still
holds, were in the bucket at the mark or refilled up to the stored stamp, the time
that was set back counted again).  A script preserves `PaidForInv` because refill
and price move tokens from one side of the inequality to the other, and a stamp that
goes back adds to `setback` what it takes from the stored one (`ScriptPays`); a
missing key preserves it because `ExpiryInv` makes
the forgotten bucket full (`ExpiryHarmless`).  Products of variables are kept to three
lemmas (`NatProduct`, `ProductMonotone`, `ProductSum`), so that the rest is linear.

*The times the bucket answers.*  `VerdictInv` ties the last answer to the hash: the
refused price is more than it holds, and `retry_after` and `reset_at` are what the
script computes from the hash as it is.  Lemmas about the roundings then say that
`retry_after` seconds refill what was missing, and that `reset_at`, which adds a
rounded-up duration to a rounded-down time, is within a second of when the hash is
full.  A key that has expired meanwhile means a full bucket, which pays for all that
was refused for lack of tokens.

*The refinement.*  The level of the abstract bucket is what a script would find at
the current time.  `ImplementsEagerBucket` asks for a step of `EagerBucket` for as
long as `exact` holds, and assumes nothing of the constants: `MaxDelay` and `MaxSkew`
may be anything.  `ExactInv`, another part of `IInv`, says what `exact` is worth:
the stored stamp is not in the future and the time to live counts from it at the
least, so that the level is never less than what is stored.  A tick maps to `Gain`
(`TickGains`), a script to `Admit` or `Refuse` (`RunDecides`), all else to
stuttering.

*The window.* `KeysInv` says that the stored window is not in the future and that the
keys outlive it by another window, so that keys that are gone were no longer wanted
and the next script starts no earlier window; `ChargedInv` that the keys hold what the
history says was charged.  `RollingBound` needs `SpentInv`: what was admitted since
the mark is in the counts of at most three consecutive windows, and each that was
charged while the one before it still weighed left room for at least one second's
weight of it (`Tight`).  Two such windows give the bound for true stamps, three the
bound for drifting ones.  The refinement maps the abstract count of every window to
`charged`; a rollover, a fresh start after expiry and a script within the window are
shown to decide as the abstract script does.

*The shared window.* `EqualWindowsHold` belongs to no run; `MCSharedWindowEqual.cfg`
checks it on a small instance of `MCSharedWindow` (limits 1 and 2 in 2 ticks, delay 2,
one retry, 8 ticks), where TLC also shows that it fails with the mutants
`RollsOverEitherWay` and `OneWindow`.  The counter may hold more than the limit of the
rule it is used with, so no bound on it is inductive by itself.  What is: the count is
what all routes were allowed in the stored window (`CountedInv`), and a script adds to
it only within its own rule's limit (`ScriptFacts`), so neither that route's part nor
the whole exceeds it then.  A rollover, also one after expiry, is to a window in which
nothing has been allowed yet (`RollsToUnused`); this is where `SameWindow` is needed.

*The resolver.*  The loop invariant says that `best` has the greatest score among
the enabled, matching rules before `i`; `RankIsScore` relates scores to the kinds
of match: an exact pattern scores 1000 and the length of the route, and no prefix
that matches is longer than the route, so it never reaches that.  That the order of rows does not matter follows
from the invariant: two applicable rules with the same score have the same
pattern, or are `*` and `/*`.

*The cache and the check.*  `EntryInv` bounds the age of the cached rules by that of
the entry and one load, `ReadsInv` the age of what a request has read by how long it
has waited: the interleaving that sets old rules over newer ones stays within one
load.  The steps of a check are steps of the cache or leave it alone (`PathIsCache`),
so the same bound holds on the path.  A check that is let through without a script
was given a version without a rule; once the route has been limited for longer than
the ttl and one load, every such version was replaced longer ago than that, and the
cache cannot have returned it.

*The accounts.*  `TablesOK` is `ProjectsWhole` and the shape of rows.  `ReqsOK` says
of each request which fields it has at each step (`Shape`) and what the tables hold
for it (`Backed`: a request at a transaction's later statements has a name and a hash
that the tables do not have, a request that manages a project has a key that is one
of its admin keys, a listed project exists), and of any two that they have not
inserted the same name or hash (`ApartFrom`).  `ConnsOK` counts the pool, of whatever size it was made.  A request whose
`late` says that it is too late has a key, or a tenant, that the tables still hold
that against (`LatenessIs`), so that the query it comes to turns it away.  Every
action moves one request (`Move`); most leave the tables alone (`QuietMove`,
`CalmMove`), and those that write must keep what backs the others (`Written`).
`NoStandstill` rests on the order in which things are waited for (`HolderGoesOn`):
a transaction that has inserted its key waits for nothing; if there is none, no hash
is waited for, so a transaction that has its name goes on; if there is none of
these either, no name is.  When nobody holds a connection the pool, which is not
empty, has one for whoever asks.

*The sign-ups.*  What is bounded is the history of a sender, and what is enforced is
a count over a list that has been filtered and pruned; `LogInv` says what the one has
to do with the other.  There is an injection from the list into the history, so that
a list that is full is a cause in the history (`RememberedCount`), and the
history has nothing later than a `Stretch` before the oldest request that can still
have the lock that the list does not have, so that a list with room is a history with
room (`ListedCount`).  To keep this a request may drop only what is old:
`RequestsInv` bounds how far behind the clock a request that has the lock can be, and
`ListsInv` how far a list can be out of order, so that all of it is old when its last
element is (`StaleIs`).  `RequestsInv` also says that the client of a request is its
sender, whatever hops it claimed (`ClientIs`).  `ToldInv` says that no time in the
list is later than the last refusal, so all of them have left the window when
`Retry-After` has passed.

*The migrations.*  A run knows that the files before the one it is at are recorded,
and, once its insert went through, that nobody recorded its own (`RunInv`); of two
runs at the commit of the same version there is only one (`OneHolder`), because
`Record` waits.

Left to TLC:

- liveness and fairness: `EveryCheckAnswered`, `DrainEnds`, `CacheConverges`,
  `RunEnds`, `EventuallyMigrated`;
- `NothingElseWaits`, which is about `ENABLED`;
- the runs that expect a violation, which show counterexamples.

## 5. Plan

*Done*: the scripts and their callers, counters that rules share, resolution, the
cache, the path of a check, accounts, sign-ups, migrations; every safety property
and refinement of the passing runs proved but `NothingElseWaits`.

*Left*: Redis failover, where a replica that lost the last writes takes over with
older counts, would be a fault of its own in `LimiterCalls`.

## 6. Not modelled

The storage of rule parameters is a conversion without state: zero becomes `NULL`
and is read as zero again, `refill_rate` is rounded to two decimals by its column.
A rate that is rounded to zero, which `Validate` lets through, makes a bucket that
never refills and whose key never expires; `TokenBucket` has both branches of the
script, and its theorems include that rate.

The sign-up limit is modelled for one instance and one life of it: the map is not
shared and is lost at a restart, so the limit is per instance and per life.  Nothing
in the code says otherwise.

Reading the environment, logging, metrics and CORS keep no state that a decision
depends on.  The web console and the example clients only send requests that
`Accounts` and `CheckPath` already allow in any order.  JSON, headers and the
hash functions are left out: SHA-256 is taken to be injective.  The floating point
of the Lua scripts is exact here.  Redis persistence and failover (a replica that
lost the last writes) are outside of the code.
