------------------------------ MODULE Accounts ------------------------------
(***************************************************************************)
(* Projects and their API keys: the requests of the HTTP API that read or  *)
(* change the tables tenants, api_keys and rules, statement by statement.  *)
(*                                                                         *)
(* A request authenticates with two queries (the key, then its tenant) and *)
(* acts with later ones, so keys are revoked and tenants suspended between *)
(* any two of them.  CreateProject is one transaction: its rows are seen   *)
(* when it commits, and another insert of the same name or hash waits for  *)
(* it.  A connection of the pool is held while a statement waits and for   *)
(* the whole of a transaction.                                             *)
(*                                                                         *)
(* Rows are never deleted and names and hashes are unique, so a tenant is  *)
(* known by its name and a key by its hash.                                *)
(***************************************************************************)
EXTENDS Naturals, FiniteSets

CONSTANTS Requests,     \* requests that can be served at a time
          Names,        \* project names
          Hashes,       \* hashes of API keys
          Operator,     \* the credential that is the ADMIN_TOKEN
          Nobody,       \* no credential, no tenant, no key
          MaxRules,     \* maxRulesPerProject
          MaxConns      \* connections of the largest pgx pool

ASSUME AccountsAssumption ==
  /\ MaxRules \in Nat \ {0} /\ MaxConns \in Nat \ {0}
  /\ Operator \notin Hashes \cup {Nobody} /\ Nobody \notin Hashes \cup Names
  /\ IsFiniteSet(Requests)

VARIABLES tenants,   \* tenants[n]: the status of project n
          keys,      \* keys[h]: the api_keys row with key_hash h
          rules,     \* rules[n]: the number of n's rows in table rules
          conns,     \* connections of the pgx pool, fixed when it is made
          reqs       \* the requests

vars == <<tenants, keys, rules, conns, reqs>>

NoRow == [tenant |-> Nobody, status |-> "none", role |-> "none"]
Row(n, role) == [tenant |-> n, status |-> "active", role |-> role]

\* A request as it is sent, and no request.
Request(route, cred, tenant, hash, role, count) ==
  [pc |-> "idle", route |-> route, cred |-> cred, tenant |-> tenant,
   hash |-> hash, role |-> role, count |-> count, key |-> NoRow,
   pass |-> 0, listed |-> {}, keyed |-> {}, ruled |-> {},
   late |-> "no", answer |-> 0]
IdleReq == Request("none", Nobody, Nobody, Nobody, "none", 0)

Routes == {"create", "check", "tenant", "config", "me", "list", "add", "revoke"}

\* Steps at which a request holds a connection of the pool.
InTx == {"insert_tenant", "insert_key", "insert_rules", "commit"}
Holders == {r \in Requests : reqs[r].pc \in InTx \cup {"adding"}}
ConnFree == Cardinality(Holders) < conns

\* Rows another transaction has inserted and not committed.
NamePending(r) == \E s \in Requests \ {r} :
  reqs[s].pc \in InTx \ {"insert_tenant"} /\ reqs[s].tenant = reqs[r].tenant
HashPending(r) == \E s \in Requests \ {r} :
  reqs[s].pc \in InTx \ {"insert_tenant", "insert_key"} /\ reqs[s].hash = reqs[r].hash

\* Mutant: the key is inserted on the pool while the transaction is open.
WaitsInTx(r) ==
  \/ reqs[r].pc \notin InTx \cup {"adding"} /\ ~ConnFree
  \/ reqs[r].pc = "insert_tenant" /\ NamePending(r)
  \/ reqs[r].pc = "insert_key" /\ (HashPending(r) \/ ~ConnFree)
  \/ reqs[r].pc = "adding" /\ tenants[reqs[r].tenant] # "none" /\ HashPending(r)

\* What a request waits for before its next statement: a connection, unless it
\* has one; with one, the end of a transaction that inserted its name or hash.
\* AddAPIKey inserts nothing for a tenant that does not exist.
Waits(r) ==
  \/ reqs[r].pc \notin InTx \cup {"adding"} /\ ~ConnFree
  \/ reqs[r].pc = "insert_tenant" /\ NamePending(r)
  \/ reqs[r].pc = "insert_key" /\ HashPending(r)
  \/ reqs[r].pc = "adding" /\ tenants[reqs[r].tenant] # "none" /\ HashPending(r)

\* How a request goes on or is answered; of one that failed only the answer is
\* left.  One that is answered holds neither a connection nor a transaction,
\* which is the effect of the deferred Rollback.
Proceed(q, pc) == [q EXCEPT !.pc = pc]
Turn(q, code) ==
  IF code < 300 THEN [q EXCEPT !.pc = "done", !.answer = code]
  ELSE [IdleReq EXCEPT !.pc = "done", !.cred = q.cred, !.late = q.late, !.answer = code]

Goto(r, pc) == reqs' = [reqs EXCEPT ![r] = Proceed(reqs[r], pc)]
Answer(r, code) == reqs' = [reqs EXCEPT ![r] = Turn(reqs[r], code)]
Tables == <<tenants, keys, rules>>

-----------------------------------------------------------------------------
\* The migrations leave the tables empty, or (002) with a project that has rules
\* and one key, which 003 makes a check key.
Empty ==
  /\ tenants = [n \in Names |-> "none"]
  /\ keys = [h \in Hashes |-> NoRow]
  /\ rules = [n \in Names |-> 0]

Seeded == \E m \in Names, g \in Hashes :
  /\ tenants = [n \in Names |-> IF n = m THEN "active" ELSE "none"]
  /\ keys = [h \in Hashes |-> IF h = g THEN Row(m, "check") ELSE NoRow]
  /\ rules = [n \in Names |-> IF n = m THEN MaxRules ELSE 0]

Init ==
  /\ Empty \/ Seeded
  /\ conns \in 1..MaxConns
  /\ reqs = [r \in Requests |-> IdleReq]

\* History: why the request of an API key comes too late for the query it is
\* about to make, as its authentication begins and when it begins again; and as
\* its key is found, for the query of its tenant.
Lateness(h) ==
  IF keys[h].status = "revoked" THEN "revoked"
  ELSE IF keys[h] # NoRow /\ tenants[keys[h].tenant] = "suspended" THEN "suspended"
  ELSE "no"

\* Mutant: the operator mints admin keys.
AdminKeys == "admin"

\* AdminHandler.AddKey mints keys of this role, whatever the body says.
OperatorKeys == "check"

\* The requests of each route.  One that is not well-formed is answered 400 and
\* leaves no trace.

\* ProjectHandler.Create, for anybody; the first key is an admin key.
Creates ==
  {Request("create", Nobody, n, h, "admin", c) :
     n \in Names, h \in Hashes, c \in 0..(MaxRules + 1)}

\* AdminHandler.CreateProject.
OperatorCreates ==
  {Request("create", Operator, n, h, "admin", c) :
     n \in Names, h \in Hashes, c \in 0..(MaxRules + 1)}

\* POST /v1/check and ConfigHandler's ListTenants and ListTenantRules, behind
\* AuthMiddleware.
Checks == {Request("check", cred, Nobody, Nobody, "none", 0) : cred \in Hashes}
Tenants == {Request("tenant", cred, Nobody, Nobody, "none", 0) : cred \in Hashes}
Configs == {Request("config", cred, n, Nobody, "none", 0) : cred \in Hashes, n \in Names}

\* ProjectHandler.Me, AddKey and RevokeKey, behind ProjectAuth.  A role that is
\* not given is "check".
Mes == {Request("me", cred, Nobody, Nobody, "none", 0) : cred \in Hashes}
Adds ==
  {Request("add", cred, Nobody, h, role, 0) :
     cred \in Hashes, h \in Hashes, role \in {"admin", "check", "other"}}
Revokes ==
  {Request("revoke", cred, Nobody, h, "none", 0) : cred \in Hashes, h \in Hashes}

\* AdminHandler.ListProjects, AddKey and RevokeKey, behind AdminAuth.
Lists == {Request("list", Operator, Nobody, Nobody, "none", 0)}
OperatorAdds ==
  {Request("add", Operator, n, h, OperatorKeys, 0) : n \in Names, h \in Hashes}
OperatorRevokes ==
  {Request("revoke", Operator, n, h, "none", 0) : n \in Names, h \in Hashes}

\* All of them; a request without a credential is one of the last set.
Incoming ==
  UNION {Creates, OperatorCreates, Checks, Tenants, Configs, Mes, Adds, Revokes,
         Lists, OperatorAdds, OperatorRevokes,
         {Request(route, Nobody, Nobody, Nobody, "none", 0) :
            route \in Routes \ {"create"}}}

\* Mutants: one of the two bounds on the rules is missing.
NotTooMany(count) == count <= MaxRules
NotEmpty(count) == count > 0

\* CreateProject wants at least one rule and at most maxRulesPerProject.
ValidCount(count) == count > 0 /\ count <= MaxRules

\* ProvisioningService.CreateProject and AddAPIKey check their input first.
CreateProject(q) == IF ValidCount(q.count) THEN Proceed(q, "begin") ELSE Turn(q, 400)
AddKey(q) == IF q.role \in {"admin", "check"} THEN Proceed(q, "add") ELSE Turn(q, 400)

\* ConfigHandler: the rules of another tenant are not found.
Config(q) ==
  IF q.route = "config" /\ q.tenant # q.key.tenant THEN Turn(q, 404)
  ELSE Proceed(q, "config")

\* The handlers that manage projects and their keys.
Manage(q) ==
  IF q.route = "create" THEN CreateProject(q)
  ELSE IF q.route = "add" THEN AddKey(q)
  ELSE IF q.route = "revoke" THEN Proceed(q, "revoke")
  ELSE Proceed(q, "tenants")

\* AdminAuth lets the operator's token through to the handlers.
AdminAuth(q) == IF q.cred = Operator THEN Manage(q) ELSE Turn(q, 401)

\* The mux: an API key is to be authenticated, anybody may create a project,
\* and what has no credential is turned away, with the same answer on the
\* operator's routes and on the others.
Arrive(r) == \E q \in Incoming :
  /\ reqs[r].pc = "idle"
  /\ reqs' = [reqs EXCEPT ![r] =
       IF q.cred \in Hashes
       THEN [q EXCEPT !.pc = "find_key", !.pass = 1,
                      !.late = Lateness(q.cred)]
       ELSE IF q.cred = Nobody /\ q.route = "create" THEN CreateProject(q)
       ELSE AdminAuth(q)]
  /\ UNCHANGED Tables

\* The client has its answer.
Answered(r) ==
  /\ reqs[r].pc = "done"
  /\ reqs' = [reqs EXCEPT ![r] = IdleReq]
  /\ UNCHANGED Tables

-----------------------------------------------------------------------------
(* Authentication *)

\* Mutant: the key's status is not looked at.
FindAnyKey(r) ==
  /\ reqs[r].pc = "find_key" /\ ~Waits(r)
  /\ LET key == keys[reqs[r].cred]
     IN  IF key # NoRow
         THEN reqs' = [reqs EXCEPT ![r] = [@ EXCEPT !.pc = "get_tenant", !.key = key]]
         ELSE Answer(r, 401)
  /\ UNCHANGED Tables

\* Authenticate: FindByHash, and the key must be active.
FindByHash(r) ==
  /\ reqs[r].pc = "find_key" /\ ~Waits(r)
  /\ LET key == keys[reqs[r].cred]
     IN  IF key.status = "active"
         THEN reqs' = [reqs EXCEPT ![r] =
                [@ EXCEPT !.pc = "get_tenant", !.key = key, !.late = Lateness(reqs[r].cred)]]
         ELSE Answer(r, 401)
  /\ UNCHANGED Tables

\* RequireCheckRole: authenticates a second time, and turns admin keys away; 200
\* stands for what CheckService then answers.
RequireCheckRole(q) ==
  IF q.pass = 1 THEN [q EXCEPT !.pc = "find_key", !.pass = 2, !.late = Lateness(q.cred)]
  ELSE IF q.key.role = "admin" THEN Turn(q, 403)
  ELSE Turn(q, 200)

\* ProjectAuth: admin keys only, and the tenant is the key's.
ProjectAuth(q) ==
  IF q.key.role # "admin" THEN Turn(q, 401)
  ELSE Manage([q EXCEPT !.tenant = q.key.tenant])

\* The handler behind the authentication.
Authenticated(q) ==
  IF q.route = "check" THEN RequireCheckRole(q)
  ELSE IF q.route \in {"tenant", "config"} THEN Config(q)
  ELSE ProjectAuth(q)

\* Authenticate: GetByID of the key's tenant, which must be active.
GetByID(r) ==
  /\ reqs[r].pc = "get_tenant" /\ ~Waits(r)
  /\ IF tenants[reqs[r].key.tenant] = "active"
     THEN reqs' = [reqs EXCEPT ![r] = Authenticated(reqs[r])]
     ELSE Answer(r, 403)
  /\ UNCHANGED Tables

-----------------------------------------------------------------------------
(* CreateProject *)

Begin(r) ==
  /\ reqs[r].pc = "begin" /\ ~Waits(r)
  /\ Goto(r, "insert_tenant")
  /\ UNCHANGED Tables

\* Mutant: the tenant is inserted on the pool, outside of the transaction.
InsertTenantAtOnce(r) ==
  /\ reqs[r].pc = "insert_tenant" /\ ~Waits(r)
  /\ IF tenants[reqs[r].tenant] = "none"
     THEN /\ tenants' = [tenants EXCEPT ![reqs[r].tenant] = "active"]
          /\ Goto(r, "insert_key")
     ELSE Answer(r, 409) /\ UNCHANGED tenants
  /\ UNCHANGED <<keys, rules>>

\* INSERT INTO tenants; a name that is taken ends the transaction.
InsertTenant(r) ==
  /\ reqs[r].pc = "insert_tenant" /\ ~Waits(r)
  /\ IF tenants[reqs[r].tenant] = "none" THEN Goto(r, "insert_key")
                                         ELSE Answer(r, 409)
  /\ UNCHANGED Tables

\* Mutant: a key whose hash is taken is tried again and again.
InsertKeyAgain(r) ==
  /\ reqs[r].pc = "insert_key" /\ ~Waits(r) /\ keys[reqs[r].hash] = NoRow
  /\ Goto(r, "insert_rules")
  /\ UNCHANGED Tables

\* INSERT INTO api_keys, likewise for the hash.
InsertKey(r) ==
  /\ reqs[r].pc = "insert_key" /\ ~Waits(r)
  /\ IF keys[reqs[r].hash] = NoRow THEN Goto(r, "insert_rules")
                                   ELSE Answer(r, 409)
  /\ UNCHANGED Tables

\* The batch of INSERT INTO rules; the patterns are distinct and the tenant new.
InsertRules(r) ==
  /\ reqs[r].pc = "insert_rules"
  /\ Goto(r, "commit")
  /\ UNCHANGED Tables

\* The transaction's rows become visible.
Store(q) ==
  /\ tenants' = [tenants EXCEPT ![q.tenant] = "active"]
  /\ keys' = [keys EXCEPT ![q.hash] = Row(q.tenant, q.role)]
  /\ rules' = [rules EXCEPT ![q.tenant] = q.count]

Commit(r) ==
  /\ reqs[r].pc = "commit"
  /\ Store(reqs[r])
  /\ Answer(r, 201)

\* COMMIT takes effect, and its reply is lost.
CommitUnheard(r) ==
  /\ reqs[r].pc = "commit"
  /\ Store(reqs[r])
  /\ Answer(r, 503)

-----------------------------------------------------------------------------
(* Keys of a project that exists *)

AcquireConn(r) ==
  /\ reqs[r].pc = "add" /\ ~Waits(r)
  /\ Goto(r, "adding")
  /\ UNCHANGED Tables

AddRow(q) == keys' = [keys EXCEPT ![q.hash] = Row(q.tenant, q.role)]

\* Mutant: a hash that is taken is given to the project (ON CONFLICT DO UPDATE).
AddOverwriting(r) ==
  /\ reqs[r].pc = "adding" /\ ~Waits(r)
  /\ IF tenants[reqs[r].tenant] = "none" THEN Answer(r, 404) /\ UNCHANGED keys
     ELSE AddRow(reqs[r]) /\ Answer(r, 201)
  /\ UNCHANGED <<tenants, rules>>

\* AddAPIKey: no row is inserted for a tenant that does not exist; every tenant
\* that exists will do, a suspended one too.
AddAPIKey(r) ==
  /\ reqs[r].pc = "adding" /\ ~Waits(r)
  /\ \/ tenants[reqs[r].tenant] = "none" /\ Answer(r, 404) /\ UNCHANGED keys
     \/ /\ tenants[reqs[r].tenant] # "none"
        /\ IF keys[reqs[r].hash] = NoRow
           THEN AddRow(reqs[r]) /\ Answer(r, 201)
           ELSE Answer(r, 409) /\ UNCHANGED keys
  /\ UNCHANGED <<tenants, rules>>

\* The row is inserted, and the reply is lost.
AddUnheard(r) ==
  /\ reqs[r].pc = "adding" /\ ~Waits(r)
  /\ tenants[reqs[r].tenant] # "none"
  /\ keys[reqs[r].hash] = NoRow
  /\ AddRow(reqs[r])
  /\ Answer(r, 503)
  /\ UNCHANGED <<tenants, rules>>

\* Mutant: the UPDATE does not ask for the tenant.
AnyTenant(q) == keys[q.hash] # NoRow

\* WHERE id = $1 AND tenant_id = $2
Owned(q) == keys[q.hash].tenant = q.tenant

RevokeRow(q) == keys' = [keys EXCEPT ![q.hash].status = "revoked"]

\* RevokeAPIKey, also of a key that is revoked already.
RevokeAPIKey(r) ==
  /\ reqs[r].pc = "revoke" /\ ~Waits(r)
  /\ IF Owned(reqs[r]) THEN RevokeRow(reqs[r]) /\ Answer(r, 204)
                       ELSE Answer(r, 404) /\ UNCHANGED keys
  /\ UNCHANGED <<tenants, rules>>

\* The row is updated, and the reply is lost.
RevokeUnheard(r) ==
  /\ reqs[r].pc = "revoke" /\ ~Waits(r)
  /\ Owned(reqs[r])
  /\ RevokeRow(reqs[r])
  /\ Answer(r, 503)
  /\ UNCHANGED <<tenants, rules>>

-----------------------------------------------------------------------------
(* Reads *)

\* ListTenants reads the key's own tenant, which is there to be found.
ListTenants(r) ==
  /\ reqs[r].pc = "config" /\ ~Waits(r) /\ reqs[r].route = "tenant"
  /\ Answer(r, 200)
  /\ UNCHANGED Tables

\* ListTenantRules reads it too, and then its rules: by a query, or from the rule
\* cache, for which it needs no connection.
ListTenantRules(r) ==
  /\ \/ reqs[r].pc = "config" /\ ~Waits(r) /\ reqs[r].route = "config"
        /\ Goto(r, "config_rules")
     \/ reqs[r].pc = "config_rules" /\ Answer(r, 200)
  /\ UNCHANGED Tables

\* GetProject reads the key's own tenant, ListProjects reads them all.
Scope(q) == IF q.route = "me" THEN {q.tenant} ELSE Names

QueryTenants(r) ==
  /\ reqs[r].pc = "tenants" /\ ~Waits(r)
  /\ LET found == {n \in Scope(reqs[r]) : tenants[n] # "none"}
     IN  IF found = {} THEN Answer(r, 200)
         ELSE reqs' = [reqs EXCEPT ![r] = [@ EXCEPT !.pc = "keys", !.listed = found]]
  /\ UNCHANGED Tables

QueryKeys(r) ==
  /\ reqs[r].pc = "keys" /\ ~Waits(r)
  /\ reqs' = [reqs EXCEPT ![r] = [@ EXCEPT !.pc = "rules",
       !.keyed = {n \in reqs[r].listed : \E h \in Hashes : keys[h].tenant = n}]]
  /\ UNCHANGED Tables

QueryRules(r) ==
  /\ reqs[r].pc = "rules" /\ ~Waits(r)
  /\ reqs' = [reqs EXCEPT ![r] = [Turn(@, 200) EXCEPT
       !.ruled = {n \in reqs[r].listed : rules[n] > 0}]]
  /\ UNCHANGED Tables

\* Both read the tenants, then the keys of the tenants they found, then their
\* rules, in three queries with no transaction.
Query(r) == QueryTenants(r) \/ QueryKeys(r) \/ QueryRules(r)
GetProject(r) == reqs[r].route = "me" /\ Query(r)
ListProjects(r) == reqs[r].route = "list" /\ Query(r)

-----------------------------------------------------------------------------
\* Any statement fails (or the client is gone, and its context with it): the
\* transaction is rolled back and the answer is 503, or 404 where
\* ListTenantRules cannot get the tenant.
Fails(r) ==
  /\ reqs[r].pc \notin {"idle", "done"}
  /\ Answer(r, IF reqs[r].pc = "config" /\ reqs[r].route = "config" THEN 404 ELSE 503)
  /\ UNCHANGED Tables

\* No code of the service changes a tenant's status: it is done in the table.
Suspend(n) ==
  /\ tenants[n] = "active"
  /\ tenants' = [tenants EXCEPT ![n] = "suspended"]
  /\ UNCHANGED <<keys, rules, reqs>>

Reactivate(n) ==
  /\ tenants[n] = "suspended"
  /\ tenants' = [tenants EXCEPT ![n] = "active"]
  /\ reqs' = [r \in Requests |->
       IF reqs[r].late = "suspended" /\ keys[reqs[r].cred].tenant = n
       THEN [reqs[r] EXCEPT !.late = "no"] ELSE reqs[r]]
  /\ UNCHANGED <<keys, rules>>

\* What the service does for a request it has.
Serve(r) ==
  \/ FindByHash(r) \/ GetByID(r)
  \/ Begin(r) \/ InsertTenant(r) \/ InsertKey(r) \/ InsertRules(r) \/ Commit(r)
  \/ AcquireConn(r) \/ AddAPIKey(r) \/ RevokeAPIKey(r)
  \/ ListTenants(r) \/ ListTenantRules(r) \/ GetProject(r) \/ ListProjects(r)

Next ==
  /\ \/ \E r \in Requests :
          \/ Arrive(r) \/ Serve(r) \/ Answered(r)
          \/ CommitUnheard(r) \/ AddUnheard(r) \/ RevokeUnheard(r) \/ Fails(r)
     \/ \E n \in Names : Suspend(n) \/ Reactivate(n)
  /\ UNCHANGED conns

Spec == Init /\ [][Next]_vars

-----------------------------------------------------------------------------
(* Properties *)

Statuses == {"none", "active", "revoked"}
Roles == {"none", "admin", "check", "other"}
Rows == [tenant : Names \cup {Nobody}, status : Statuses, role : Roles]

\* Type correctness; a pool never lends more connections than it has.
TypeOK ==
  /\ tenants \in [Names -> {"none", "active", "suspended"}]
  /\ keys \in [Hashes -> Rows]
  /\ rules \in [Names -> 0..MaxRules]
  /\ \A r \in Requests :
       /\ reqs[r].route \in Routes \cup {"none"}
       /\ reqs[r].cred \in Hashes \cup {Operator, Nobody}
       /\ reqs[r].tenant \in Names \cup {Nobody}
       /\ reqs[r].hash \in Hashes \cup {Nobody}
       /\ reqs[r].key \in Rows
       /\ reqs[r].answer \in {0, 200, 201, 204, 400, 401, 403, 404, 409, 503}
  /\ conns \in 1..MaxConns /\ Cardinality(Holders) <= conns

\* CreateProject's transaction writes a tenant, a key and the rules together:
\* whatever fails, and whoever competes for the name or the key, a project
\* that is in the tables has rules and a key, and a key has its project.
ProjectsWhole ==
  /\ \A n \in Names : tenants[n] # "none" =>
       rules[n] > 0 /\ \E h \in Hashes : keys[h].tenant = n
  /\ \A h \in Hashes : keys[h] # NoRow => tenants[keys[h].tenant] # "none"

\* GetProject and ListProjects read three tables with no transaction, and yet
\* show no project without its keys and its rules.
ListingsWhole == \A r \in Requests :
  reqs[r].pc = "done" /\ reqs[r].answer = 200 =>
    reqs[r].keyed = reqs[r].listed /\ reqs[r].ruled = reqs[r].listed

\* Of the requests that compete for a name or a hash one is answered 201, and
\* it has what it asked for: the key is its project's, in its role.
CreatedIsOwned == \A r \in Requests : reqs[r].answer = 201 =>
  /\ keys[reqs[r].hash].tenant = reqs[r].tenant
  /\ keys[reqs[r].hash].role = reqs[r].role
  /\ \A s \in Requests \ {r} : reqs[s].answer = 201 =>
       /\ reqs[s].hash # reqs[r].hash
       /\ ~(/\ reqs[s].route = "create" /\ reqs[r].route = "create"
            /\ reqs[s].tenant = reqs[r].tenant)

\* A key that is revoked, or a tenant that is suspended, between any two queries
\* of a request stops it at the next one that looks: a request whose key was
\* revoked before its (last) authentication began, or whose tenant was suspended
\* when that began or when it found the key and has been so since, gets no
\* further than authentication.
RefusalIsFinal == \A r \in Requests : reqs[r].late # "no" =>
  /\ reqs[r].pc \in {"find_key", "get_tenant", "done"}
  /\ reqs[r].answer \in {0, 401, 403, 503}

\* r may act for project n: it has the operator's token or an admin key of n
\* that was not revoked when r looked for it.
MayManage(r, n) ==
  \/ reqs[r].cred = Operator
  \/ /\ reqs[r].cred \in Hashes /\ reqs[r].late # "revoked"
     /\ keys[reqs[r].cred].tenant = n /\ keys[reqs[r].cred].role = "admin"

\* A project's keys change when it is created, or in the step of a request that
\* asked for that very key and may manage the project; no request of another
\* tenant or with a check key touches them.
KeysChangeForManagers == [][\A h \in Hashes : keys'[h] # keys[h] =>
  LET n == keys'[h].tenant IN
  /\ keys[h] # NoRow => keys[h].tenant = n
  /\ \/ tenants[n] = "none" /\ tenants'[n] = "active"
     \/ \E r \in Requests :
          /\ reqs[r].pc \in {"adding", "revoke"} /\ reqs'[r].pc = "done"
          /\ reqs[r].hash = h /\ MayManage(r, n)]_vars

\* A request found an admin key of n and may still mint another one.
Minting(q, n) ==
  /\ q.pc \in {"get_tenant", "add", "adding"} /\ q.route = "add" /\ q.role = "admin"
  /\ q.key.tenant = n /\ q.key.role = "admin"

\* Project n has no admin key, and none is being minted.
Leaderless(n) ==
  /\ tenants[n] # "none"
  /\ ~\E h \in Hashes :
       keys[h].tenant = n /\ keys[h].status = "active" /\ keys[h].role = "admin"
  /\ ~\E r \in Requests : Minting(reqs[r], n)

\* The operator's AddKey mints check keys only: a project whose last admin key
\* is revoked, with none being minted, has no admin key ever after.
NoAdminForGood == [][\A n \in Names : Leaderless(n) => Leaderless(n)']_vars

InProgress == {r \in Requests : reqs[r].pc \notin {"idle", "done"}}

\* Requests wait for connections of the pool while others that hold one wait for
\* names and hashes, but never all of them: of the requests in progress one can
\* always go on, without any of them failing, and of those that hold connections
\* too, so that a drained pool is given its connections back.
NoStandstill ==
  /\ InProgress # {} => \E r \in InProgress : ~Waits(r)
  /\ Holders # {} => \E r \in Holders : ~Waits(r)

\* And what does not wait can go on: no answer of the database and no branch of
\* a handler leaves a request that is neither served further nor answered.
NothingElseWaits == \A r \in InProgress : Waits(r) \/ ENABLED Serve(r)
=============================================================================
