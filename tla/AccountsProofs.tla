--------------------------- MODULE AccountsProofs ---------------------------
(***************************************************************************)
(* Accounts, for any requests, names and hashes: what the tables and the   *)
(* requests look like in every reachable state.                            *)
(*                                                                         *)
(* The inductive invariant IInv says of the tables that projects are whole *)
(* (TablesOK), of one request what its fields are at each step (Shape) and *)
(* what the tables then hold for it (Backed), and of two requests that     *)
(* they have not inserted the same name or the same hash (ApartFrom).      *)
(***************************************************************************)
EXTENDS Accounts, FiniteSetTheorems, TLAPS

Pcs == {"idle", "find_key", "get_tenant", "begin", "insert_tenant", "insert_key",
        "insert_rules", "commit", "add", "adding", "revoke", "config",
        "config_rules",        "tenants", "keys", "rules", "done"}
Codes == {0, 200, 201, 204, 400, 401, 403, 404, 409, 503}
ReqRecords ==
  [pc : Pcs, route : Routes \cup {"none"}, cred : Hashes \cup {Operator, Nobody},
   tenant : Names \cup {Nobody}, hash : Hashes \cup {Nobody}, role : Roles,
   count : 0..(MaxRules + 1), key : Rows, pass : 0..2, listed : SUBSET Names,
   keyed : SUBSET Names, ruled : SUBSET Names,
   late : {"no", "revoked", "suspended"}, answer : Codes]

\* The steps at which a request has a connection, has inserted its tenant, and
\* has inserted its key; those at which it waits to change a project's keys.
Holding == InTx \cup {"adding"}
Named == {"insert_key", "insert_rules", "commit"}
Hashed == {"insert_rules", "commit"}
Managing == {"add", "adding", "revoke"}

\* A row that is in the table is of a project, and active or revoked.
RowsOK == \A h \in Hashes : keys[h] # NoRow =>
  /\ keys[h].tenant \in Names
  /\ keys[h].status \in {"active", "revoked"}
  /\ keys[h].role \in {"admin", "check"}

TablesOK ==
  /\ tenants \in [Names -> {"none", "active", "suspended"}]
  /\ keys \in [Hashes -> Rows]
  /\ rules \in [Names -> 0..MaxRules]
  /\ RowsOK
  /\ ProjectsWhole

\* The fields of a request at each of its steps.
CreateShape(q) == q.pc \in InTx \cup {"begin"} =>
  /\ q.route = "create" /\ q.role = "admin"
  /\ q.tenant \in Names /\ q.hash \in Hashes /\ ValidCount(q.count)
ManageShape(q) == q.pc \in Managing =>
  /\ q.tenant \in Names /\ q.hash \in Hashes
  /\ q.pc # "revoke" => /\ q.route = "add" /\ q.role \in {"admin", "check"}
                        /\ q.cred = Operator => q.role = "check"
                        /\ q.cred # Operator => /\ q.key.tenant = q.tenant
                                                /\ q.key.role = "admin"
AuthShape(q) == q.pc \in {"find_key", "get_tenant"} =>
  /\ q.cred \in Hashes /\ q.route \notin {"create", "list"}
  /\ q.route \in {"add", "revoke"} => q.hash \in Hashes
  /\ q.pc = "get_tenant" => q.key.tenant \in Names
LateShape(q) == q.late # "no" =>
  /\ q.pc \in {"find_key", "get_tenant", "done"}
  /\ q.answer \in {0, 401, 403, 503}
  /\ q.cred \in Hashes
  /\ q.late = "revoked" => q.pc # "get_tenant"
ListShape(q) ==
  /\ q.pc \notin {"keys", "rules", "done"} => q.listed = {} /\ q.keyed = {} /\ q.ruled = {}
  /\ q.pc \in {"rules", "done"} => q.keyed = q.listed
  /\ q.pc = "done" => q.ruled = q.listed
  /\ q.pc \in {"tenants", "keys", "rules"} /\ q.route = "me" => q.tenant \in Names
AnswerShape(q) ==
  /\ q.pc = "idle" => q = IdleReq
  /\ q.pc # "done" => q.answer = 0
  /\ q.answer = 201 => q.hash \in Hashes /\ q.tenant \in Names

Shape(q) ==
  /\ CreateShape(q) /\ ManageShape(q) /\ AuthShape(q)
  /\ LateShape(q) /\ ListShape(q) /\ AnswerShape(q)

\* What the tables t (tenants) and k (keys) hold for a request.
KeyBacked(q, k) == q.pc = "get_tenant" =>
  /\ k[q.cred] # NoRow
  /\ k[q.cred].tenant = q.key.tenant /\ k[q.cred].role = q.key.role
ManageBacked(q, k) == q.pc \in Managing =>
  \/ q.cred = Operator
  \/ /\ q.cred \in Hashes /\ k[q.cred] # NoRow
     /\ k[q.cred].tenant = q.tenant /\ k[q.cred].role = "admin"
NewBacked(q, t, k) ==
  /\ q.pc \in Named => t[q.tenant] = "none"
  /\ q.pc \in Hashed => k[q.hash] = NoRow
LateBacked(q, t, k) ==
  /\ q.late = "revoked" => k[q.cred] # NoRow /\ k[q.cred].status = "revoked"
  /\ q.late = "suspended" => k[q.cred] # NoRow /\ t[k[q.cred].tenant] = "suspended"
ListBacked(q, t) == \A n \in q.listed : t[n] # "none"
AnswerBacked(q, t, k) == q.answer = 201 =>
  /\ k[q.hash] # NoRow /\ t[q.tenant] # "none"
  /\ k[q.hash].tenant = q.tenant /\ k[q.hash].role = q.role

Backed(q, t, k) ==
  /\ KeyBacked(q, k) /\ ManageBacked(q, k) /\ NewBacked(q, t, k)
  /\ LateBacked(q, t, k) /\ ListBacked(q, t) /\ AnswerBacked(q, t, k)

\* Two requests that insert the same name, or the same hash, or were answered
\* that they have.
ApartFrom(p, q) ==
  /\ p.pc \in Named /\ q.pc \in Named => p.tenant # q.tenant
  /\ p.pc \in Hashed /\ q.pc \in Hashed => p.hash # q.hash
  /\ p.answer = 201 /\ q.answer = 201 =>
       /\ p.hash # q.hash
       /\ p.route = "create" /\ q.route = "create" => p.tenant # q.tenant

ConnsOK == conns \in 1..MaxConns /\ Cardinality(Holders) <= conns

ReqsOK ==
  /\ reqs \in [Requests -> ReqRecords]
  /\ \A r \in Requests : Shape(reqs[r]) /\ Backed(reqs[r], tenants, keys)
  /\ \A r, s \in Requests : r # s => ApartFrom(reqs[r], reqs[s])

IInv == TablesOK /\ ReqsOK /\ ConnsOK

-----------------------------------------------------------------------------
(* Requests as records *)

\* p asks for what q asks; p has listed what q has.
SameAsk(p, q) ==
  /\ p.route = q.route /\ p.cred = q.cred /\ p.tenant = q.tenant
  /\ p.hash = q.hash /\ p.role = q.role /\ p.count = q.count
SameLists(p, q) == p.listed = q.listed /\ p.keyed = q.keyed /\ p.ruled = q.ruled

\* The request that is not being served, and the row that is not there.
LEMMA IdleIs == NoRow \in Rows /\ IdleReq \in ReqRecords
  BY AccountsAssumption DEF IdleReq, Request, NoRow, ReqRecords, Rows, Pcs, Codes, Statuses,
     Roles, AccountsAssumption

\* What Proceed changes.
LEMMA ProceedIs ==
  ASSUME NEW q \in ReqRecords, NEW pc \in Pcs
  PROVE  LET p == Proceed(q, pc)
         IN  /\ p \in ReqRecords /\ p.pc = pc
             /\ SameAsk(p, q) /\ SameLists(p, q)
             /\ p.key = q.key /\ p.pass = q.pass /\ p.late = q.late /\ p.answer = q.answer
  BY DEF Proceed, ReqRecords, SameAsk, SameLists

\* What an answer changes, of a request that succeeds and of one that fails.
LEMMA TurnOkIs ==
  ASSUME NEW q \in ReqRecords, NEW code \in Codes, code < 300
  PROVE  LET p == Turn(q, code)
         IN  /\ p \in ReqRecords /\ p.pc = "done" /\ p.answer = code
             /\ SameAsk(p, q) /\ SameLists(p, q)
             /\ p.key = q.key /\ p.pass = q.pass /\ p.late = q.late
<1> DEFINE p == Turn(q, code)
<1>1. p \in ReqRecords /\ p.pc = "done" /\ p.answer = code
  BY DEF Turn, ReqRecords, Pcs
<1>2. SameAsk(p, q)
  BY DEF Turn, ReqRecords, SameAsk
<1>3. SameLists(p, q) /\ p.key = q.key /\ p.pass = q.pass /\ p.late = q.late
  BY DEF Turn, ReqRecords, SameLists
<1> QED BY <1>1, <1>2, <1>3

LEMMA TurnBadIs ==
  ASSUME NEW q \in ReqRecords, NEW code \in Codes, ~(code < 300)
  PROVE  LET p == Turn(q, code)
         IN  /\ p \in ReqRecords /\ p.pc = "done" /\ p.answer = code
             /\ p.cred = q.cred /\ p.late = q.late
             /\ p.route = "none" /\ SameLists(p, IdleReq)
<1> DEFINE p == Turn(q, code)
<1>1. IdleReq \in ReqRecords
  BY IdleIs
<1>2. q.cred \in Hashes \cup {Operator, Nobody} /\ q.late \in {"no", "revoked", "suspended"}
  BY DEF ReqRecords
<1>3. p \in ReqRecords
  <2>1. ASSUME NEW i \in ReqRecords, NEW a \in Pcs,
               NEW c \in Hashes \cup {Operator, Nobody}, NEW l \in {"no", "revoked", "suspended"}
        PROVE  [i EXCEPT !.pc = a, !.cred = c, !.late = l, !.answer = code] \in ReqRecords
    BY DEF ReqRecords
  <2>2. "done" \in Pcs
    BY DEF Pcs
  <2>3. [IdleReq EXCEPT !.pc = "done", !.cred = q.cred, !.late = q.late, !.answer = code] \in ReqRecords
    BY <1>1, <1>2, <2>1, <2>2, Zenon
  <2> QED BY <2>3 DEF Turn
<1>4. p.pc = "done" /\ p.answer = code /\ p.cred = q.cred /\ p.late = q.late
  BY <1>1, <1>2 DEF Turn, ReqRecords
<1>5. p.route = IdleReq.route /\ SameLists(p, IdleReq)
  BY <1>1, <1>2 DEF Turn, ReqRecords, SameLists
<1>6. IdleReq.route = "none"
  BY DEF IdleReq, Request
<1> QED BY <1>3, <1>4, <1>5, <1>6

\* An API key's request on its way to authentication, for the first time and
\* again; and one that is told whose project it is about.
LEMMA ArrivedIs ==
  ASSUME NEW q \in ReqRecords, NEW late \in {"no", "revoked", "suspended"}
  PROVE  LET p == [q EXCEPT !.pc = "find_key", !.pass = 1, !.late = late]
         IN  /\ p \in ReqRecords /\ p.pc = "find_key" /\ p.late = late
             /\ SameAsk(p, q) /\ SameLists(p, q) /\ p.answer = q.answer
<1>1. "find_key" \in Pcs /\ 1 \in 0..2
  BY DEF Pcs
<1>2. \A a \in Pcs, b \in 0..2 :
        LET p == [q EXCEPT !.pc = a, !.pass = b, !.late = late]
        IN  /\ p \in ReqRecords /\ p.pc = a /\ p.late = late
            /\ SameAsk(p, q) /\ SameLists(p, q) /\ p.answer = q.answer
  BY DEF ReqRecords, SameAsk, SameLists
<1> QED BY <1>1, <1>2

LEMMA AgainIs ==
  ASSUME NEW q \in ReqRecords, NEW late \in {"no", "revoked", "suspended"}
  PROVE  LET p == [q EXCEPT !.pc = "find_key", !.pass = 2, !.late = late]
         IN  /\ p \in ReqRecords /\ p.pc = "find_key" /\ p.late = late
             /\ SameAsk(p, q) /\ SameLists(p, q) /\ p.answer = q.answer
<1>1. "find_key" \in Pcs /\ 2 \in 0..2
  BY DEF Pcs
<1>2. \A a \in Pcs, b \in 0..2 :
        LET p == [q EXCEPT !.pc = a, !.pass = b, !.late = late]
        IN  /\ p \in ReqRecords /\ p.pc = a /\ p.late = late
            /\ SameAsk(p, q) /\ SameLists(p, q) /\ p.answer = q.answer
  BY DEF ReqRecords, SameAsk, SameLists
<1> QED BY <1>1, <1>2

LEMMA OwnerIs ==
  ASSUME NEW q \in ReqRecords
  PROVE  LET p == [q EXCEPT !.tenant = q.key.tenant]
         IN  /\ p \in ReqRecords /\ p.tenant = q.key.tenant
             /\ p.pc = q.pc /\ p.route = q.route /\ p.cred = q.cred /\ p.hash = q.hash
             /\ p.role = q.role /\ p.count = q.count /\ p.key = q.key /\ p.late = q.late
             /\ SameLists(p, q) /\ p.answer = q.answer
<1>1. q.key.tenant \in Names \cup {Nobody}
  BY DEF ReqRecords, Rows
<1> QED BY <1>1 DEF ReqRecords, SameLists

\* What is asked of the service: a request of an API key never creates a
\* project, and the operator's are about projects of their own.
FreshReq(q) ==
  /\ q.pc = "idle" /\ q.late = "no" /\ q.answer = 0 /\ SameLists(q, IdleReq)
Asked(q) ==
  /\ q.route = "create" => /\ q.cred \notin Hashes /\ q.role = "admin"
                           /\ q.tenant \in Names /\ q.hash \in Hashes
  /\ q.cred \in Hashes => /\ q.route # "list"
                          /\ q.route \in {"add", "revoke"} => q.hash \in Hashes
  /\ q.cred = Operator =>
       /\ q.route \in {"create", "add", "revoke", "list"}
       /\ q.route \in {"add", "revoke"} => q.tenant \in Names /\ q.hash \in Hashes
       /\ q.route = "add" => q.role = "check"

LEMMA RequestIs ==
  ASSUME NEW route \in Routes, NEW cred \in Hashes \cup {Operator, Nobody},
         NEW tenant \in Names \cup {Nobody}, NEW hash \in Hashes \cup {Nobody},
         NEW role \in Roles, NEW count \in 0..(MaxRules + 1)
  PROVE  LET q == Request(route, cred, tenant, hash, role, count)
         IN  /\ q \in ReqRecords /\ FreshReq(q)
             /\ q.route = route /\ q.cred = cred /\ q.tenant = tenant
             /\ q.hash = hash /\ q.role = role /\ q.count = count
<1> DEFINE q == Request(route, cred, tenant, hash, role, count)
<1>1. q \in ReqRecords
  <2>1. "idle" \in Pcs /\ 0 \in Codes
    BY DEF Pcs, Codes
  <2> QED BY <2>1, IdleIs DEF Request, ReqRecords
<1>2. FreshReq(q)
  BY DEF Request, FreshReq, SameLists, IdleReq
<1>3. /\ q.route = route /\ q.cred = cred /\ q.tenant = tenant
      /\ q.hash = hash /\ q.role = role /\ q.count = count
  BY DEF Request
<1> QED BY <1>1, <1>2, <1>3

LEMMA IncomingIs ==
  ASSUME NEW q \in Incoming
  PROVE  q \in ReqRecords /\ FreshReq(q) /\ Asked(q)
<1> DEFINE Good(p) == p \in ReqRecords /\ FreshReq(p) /\ Asked(p)
<1>1. /\ {"admin", "check", "other", "none"} \subseteq Roles
      /\ 0 \in 0..(MaxRules + 1)
      /\ Operator \notin Hashes /\ Nobody \notin Hashes /\ Operator # Nobody
  BY AccountsAssumption DEF Roles, AccountsAssumption
<1>2. \A n \in Names, h \in Hashes, c \in 0..(MaxRules + 1) :
        /\ Good(Request("create", Nobody, n, h, "admin", c))
        /\ Good(Request("create", Operator, n, h, "admin", c))
  BY <1>1, RequestIs DEF Asked, Routes
<1>3. \A cred \in Hashes, n \in Names :
        /\ Good(Request("config", cred, n, Nobody, "none", 0))
  BY <1>1, RequestIs DEF Asked, Routes
<1>4. \A cred \in Hashes :
        /\ Good(Request("check", cred, Nobody, Nobody, "none", 0))
        /\ Good(Request("tenant", cred, Nobody, Nobody, "none", 0))
        /\ Good(Request("me", cred, Nobody, Nobody, "none", 0))
  BY <1>1, RequestIs DEF Asked, Routes
<1>5. \A cred \in Hashes, h \in Hashes :
        /\ \A role \in {"admin", "check", "other"} :
             Good(Request("add", cred, Nobody, h, role, 0))
        /\ Good(Request("revoke", cred, Nobody, h, "none", 0))
  <2>1. ASSUME NEW cred \in Hashes, NEW h \in Hashes, NEW role \in {"admin", "check", "other"}
        PROVE  Good(Request("add", cred, Nobody, h, role, 0))
    <3> DEFINE p == Request("add", cred, Nobody, h, role, 0)
    <3>1. "add" \in Routes /\ role \in Roles
      BY <1>1 DEF Routes
    <3>2. p \in ReqRecords /\ FreshReq(p) /\ p.route = "add" /\ p.cred = cred /\ p.hash = h
      BY <1>1, <3>1, RequestIs
    <3>3. p.cred \in Hashes /\ p.cred # Operator
      BY <1>1, <3>2
    <3> HIDE DEF p
    <3> QED BY <3>2, <3>3 DEF Asked, p
  <2>2. ASSUME NEW cred \in Hashes, NEW h \in Hashes
        PROVE  Good(Request("revoke", cred, Nobody, h, "none", 0))
    BY <1>1, RequestIs DEF Asked, Routes
  <2> QED BY <2>1, <2>2
<1>6. Good(Request("list", Operator, Nobody, Nobody, "none", 0))
  <2> DEFINE p == Request("list", Operator, Nobody, Nobody, "none", 0)
  <2>1. "list" \in Routes
    BY DEF Routes
  <2>2. p \in ReqRecords /\ FreshReq(p) /\ p.route = "list" /\ p.cred = Operator
    <3>1. Operator \in Hashes \cup {Operator, Nobody} /\ Nobody \in Names \cup {Nobody}
          /\ Nobody \in Hashes \cup {Nobody} /\ "none" \in Roles
          /\ 0 \in 0..(MaxRules + 1)
      BY <1>1
    <3>2. ASSUME NEW cred \in Hashes \cup {Operator, Nobody}, NEW tenant \in Names \cup {Nobody},
                 NEW hash \in Hashes \cup {Nobody}, NEW role \in Roles,
                 NEW count \in 0..(MaxRules + 1)
          PROVE  LET x == Request("list", cred, tenant, hash, role, count)
                 IN  x \in ReqRecords /\ FreshReq(x) /\ x.route = "list" /\ x.cred = cred
      BY <2>1, RequestIs
    <3> QED BY <3>1, <3>2, Zenon
  <2> HIDE DEF p
  <2> QED BY <1>1, <2>2 DEF Asked, p
<1>7. \A n \in Names, h \in Hashes :
        /\ Good(Request("add", Operator, n, h, OperatorKeys, 0))
        /\ Good(Request("revoke", Operator, n, h, "none", 0))
  BY <1>1, RequestIs DEF Asked, Routes, OperatorKeys
<1>8. \A route \in Routes \ {"create"} :
        Good(Request(route, Nobody, Nobody, Nobody, "none", 0))
  BY <1>1, RequestIs DEF Asked, Routes
<1> HIDE DEF Good
<1>9. Good(q)
  BY <1>2, <1>3, <1>4, <1>5, <1>6, <1>7, <1>8 DEF Incoming, Creates, OperatorCreates,
     Checks, Tenants, Configs, Mes, Adds, Revokes, Lists, OperatorAdds, OperatorRevokes
<1> QED BY <1>9 DEF Good

-----------------------------------------------------------------------------
(* What every move of a request keeps *)

\* The pool: a request takes a connection only when one is free.
LEMMA ConnsMove ==
  ASSUME ConnsOK, UNCHANGED conns, NEW r \in Requests,
         \A s \in Requests : reqs'[s].pc \in Holding => reqs[s].pc \in Holding \/ s = r,
         reqs'[r].pc \in Holding => reqs[r].pc \in Holding \/ ConnFree
  PROVE  ConnsOK'
<1>1. IsFiniteSet(Requests) /\ conns \in Nat /\ conns' = conns
  BY AccountsAssumption DEF AccountsAssumption, ConnsOK
<1>2. Holders \subseteq Requests /\ Holders' \subseteq Requests
  BY DEF Holders
<1>3. IsFiniteSet(Holders) /\ Cardinality(Holders) \in Nat
      /\ IsFiniteSet(Holders') /\ Cardinality(Holders') \in Nat
  BY <1>1, <1>2, FS_Subset, FS_CardinalityType
<1>4. CASE Holders' \subseteq Holders
  <2>1. Cardinality(Holders') <= Cardinality(Holders)
    BY <1>3, <1>4, FS_Subset
  <2> QED BY <1>1, <1>3, <2>1 DEF ConnsOK
<1>5. CASE ~(Holders' \subseteq Holders)
  <2>1. Holders' \subseteq Holders \cup {r} /\ ConnFree
    BY <1>5 DEF Holders, Holding
  <2>2. /\ IsFiniteSet(Holders \cup {r})
        /\ Cardinality(Holders \cup {r}) <= Cardinality(Holders) + 1
        /\ Cardinality(Holders \cup {r}) \in Nat
    <3>1. IsFiniteSet(Holders \cup {r})
      BY <1>3, FS_AddElement
    <3>2. \/ Cardinality(Holders \cup {r}) = Cardinality(Holders) + 1
          \/ Cardinality(Holders \cup {r}) = Cardinality(Holders)
      BY <1>3, FS_AddElement
    <3> QED BY <1>3, <3>1, <3>2
  <2>3. Cardinality(Holders') <= Cardinality(Holders \cup {r})
    BY <2>1, <2>2, FS_Subset
  <2> QED BY <1>1, <1>3, <2>1, <2>2, <2>3 DEF ConnsOK, ConnFree
<1> QED BY <1>4, <1>5

\* One request moves to q, and the tables may change under the others.
MovesTo(r, q) ==
  /\ q \in ReqRecords /\ reqs' = [reqs EXCEPT ![r] = q]
  /\ Shape(q) /\ Backed(q, tenants', keys')
  /\ \A s \in Requests \ {r} : Backed(reqs[s], tenants', keys') /\ ApartFrom(reqs[s], q)
  /\ q.pc \in Holding => reqs[r].pc \in Holding \/ ConnFree

LEMMA Move ==
  ASSUME IInv, UNCHANGED conns, TablesOK', NEW r \in Requests, NEW q, MovesTo(r, q)
  PROVE  IInv'
<1> USE DEF MovesTo
<1>1. reqs \in [Requests -> ReqRecords] /\ ConnsOK
  BY DEF IInv, ReqsOK
<1>2. reqs' \in [Requests -> ReqRecords]
  BY <1>1
<1>3. reqs'[r] = q /\ \A s \in Requests \ {r} : reqs'[s] = reqs[s]
  BY <1>1
<1>4. ConnsOK'
  BY <1>1, <1>3, ConnsMove
<1>5. \A s \in Requests : Shape(reqs'[s]) /\ Backed(reqs'[s], tenants', keys')
  BY <1>3 DEF IInv, ReqsOK
<1>6. \A s, u \in Requests : s # u => ApartFrom(reqs'[s], reqs'[u])
  <2>1. \A p \in ReqRecords : ApartFrom(p, q) => ApartFrom(q, p)
    BY DEF ApartFrom
  <2> TAKE s, u \in Requests
  <2> HAVE s # u
  <2>2. CASE s = r
    BY <1>1, <1>3, <2>1, <2>2
  <2>3. CASE u = r
    BY <1>3, <2>3
  <2>4. CASE s # r /\ u # r
    BY <1>3, <2>4 DEF IInv, ReqsOK
  <2> QED BY <2>2, <2>3, <2>4
<1> QED BY <1>2, <1>4, <1>5, <1>6 DEF IInv, ReqsOK, Shape, Backed

\* One request moves, the tables stay.
LEMMA QuietMove ==
  ASSUME IInv, UNCHANGED conns, NEW r \in Requests, NEW q \in ReqRecords,
         reqs' = [reqs EXCEPT ![r] = q], UNCHANGED Tables,
         Shape(q), Backed(q, tenants, keys),
         \A s \in Requests \ {r} : ApartFrom(reqs[s], q),
         q.pc \in Holding => reqs[r].pc \in Holding \/ ConnFree
  PROVE  IInv'
<1>1. tenants' = tenants /\ keys' = keys /\ rules' = rules
  BY DEF Tables
<1>2. TablesOK'
  BY <1>1 DEF IInv, TablesOK, RowsOK, ProjectsWhole
<1>3. Backed(q, tenants', keys') /\ \A s \in Requests \ {r} : Backed(reqs[s], tenants', keys')
  BY <1>1 DEF IInv, ReqsOK
<1> QED BY <1>2, <1>3, Move DEF MovesTo

\* The same, to a step at which it holds no connection, unless it was answered
\* 201.
Calm(q) == q.pc \notin Holding /\ q.answer # 201

LEMMA CalmMove ==
  ASSUME IInv, UNCHANGED conns, NEW r \in Requests, NEW q \in ReqRecords,
         reqs' = [reqs EXCEPT ![r] = q], UNCHANGED Tables,
         Shape(q), Backed(q, tenants, keys), Calm(q)
  PROVE  IInv'
<1>1. \A s \in Requests \ {r} : ApartFrom(reqs[s], q)
  BY DEF ApartFrom, Calm, Holding, InTx, Named, Hashed
<1> QED BY <1>1, QuietMove DEF Calm

\* A request that is turned away is as it should be.
LEMMA Refusal ==
  ASSUME NEW q \in ReqRecords, NEW t, NEW k, LateBacked(q, t, k),
         NEW code \in {400, 401, 403, 404, 409, 503},
         q.late # "no" => code \in {401, 403, 503} /\ q.cred \in Hashes
  PROVE  LET p == Turn(q, code)
         IN  p \in ReqRecords /\ Shape(p) /\ Backed(p, t, k) /\ Calm(p)
<1> DEFINE p == Turn(q, code)
<1>1. /\ p \in ReqRecords /\ p.pc = "done" /\ p.answer = code
      /\ p.cred = q.cred /\ p.late = q.late
      /\ p.route = "none" /\ SameLists(p, IdleReq)
  <2>1. code \in Codes /\ ~(code < 300)
    BY DEF Codes
  <2> QED BY <2>1, TurnBadIs
<1> HIDE DEF p
<1>2. p.listed = {} /\ p.keyed = {} /\ p.ruled = {}
  BY <1>1 DEF SameLists, IdleReq, Request
<1>3. CreateShape(p) /\ ManageShape(p) /\ AuthShape(p)
  BY <1>1 DEF CreateShape, ManageShape, AuthShape, InTx, Managing
<1>4. LateShape(p)
  BY <1>1 DEF LateShape
<1>5. ListShape(p) /\ AnswerShape(p)
  BY <1>1, <1>2 DEF ListShape, AnswerShape
<1>6. KeyBacked(p, k) /\ ManageBacked(p, k) /\ NewBacked(p, t, k)
  BY <1>1 DEF KeyBacked, ManageBacked, NewBacked, Managing, Named, Hashed
<1>7. LateBacked(p, t, k) /\ ListBacked(p, t) /\ AnswerBacked(p, t, k)
  BY <1>1, <1>2 DEF LateBacked, ListBacked, AnswerBacked
<1>8. Calm(p)
  BY <1>1 DEF Calm, Holding, InTx
<1> QED BY <1>1, <1>3, <1>4, <1>5, <1>6, <1>7, <1>8 DEF p, Shape, Backed

\* A request that the handlers of projects and keys are given.
Unserved(q) == q.late = "no" /\ q.answer = 0 /\ SameLists(q, IdleReq)
Entitled(q, k) ==
  /\ q.route = "create" =>
       q.role = "admin" /\ q.tenant \in Names /\ q.hash \in Hashes
  /\ q.route \in {"add", "revoke"} =>
       /\ q.tenant \in Names /\ q.hash \in Hashes
       /\ \/ q.cred = Operator /\ (q.route = "add" => q.role = "check")
          \/ /\ q.cred \in Hashes /\ k[q.cred] # NoRow
             /\ q.key.tenant = q.tenant /\ q.key.role = "admin"
             /\ k[q.cred].tenant = q.tenant /\ k[q.cred].role = "admin"
  /\ q.route = "me" => q.tenant \in Names

\* It goes on to a step before its first statement, or is turned away.
LEMMA Entering ==
  ASSUME NEW q \in ReqRecords, NEW t, NEW k, Unserved(q), Entitled(q, k),
         NEW pc \in {"begin", "add", "revoke", "tenants", "config", "config_rules"},
         pc = "begin" => q.route = "create" /\ ValidCount(q.count),
         pc = "add" => q.route = "add" /\ q.role \in {"admin", "check"},
         pc = "revoke" => q.route = "revoke"
  PROVE  LET p == Proceed(q, pc)
         IN  p \in ReqRecords /\ Shape(p) /\ Backed(p, t, k) /\ Calm(p)
<1> DEFINE p == Proceed(q, pc)
<1>1. /\ p \in ReqRecords /\ p.pc = pc
      /\ SameAsk(p, q) /\ SameLists(p, q)
      /\ p.key = q.key /\ p.late = q.late /\ p.answer = q.answer
  <2>1. pc \in Pcs
    BY DEF Pcs
  <2> QED BY <2>1, ProceedIs
<1> HIDE DEF p
<1>2. p.listed = {} /\ p.keyed = {} /\ p.ruled = {}
  BY <1>1 DEF Unserved, SameLists, IdleReq, Request
<1>3. /\ p.route = q.route /\ p.cred = q.cred /\ p.tenant = q.tenant
      /\ p.hash = q.hash /\ p.role = q.role /\ p.count = q.count
  BY <1>1 DEF SameAsk
<1>4. p.late = "no" /\ p.answer = 0
  BY <1>1 DEF Unserved
<1>5. CreateShape(p)
  BY <1>1, <1>3 DEF CreateShape, Entitled, InTx
<1>6. ManageShape(p) /\ ManageBacked(p, k)
  <2>1. Operator \notin Hashes
    BY AccountsAssumption DEF AccountsAssumption
  <2> QED BY <1>1, <1>3, <2>1 DEF ManageShape, ManageBacked, Entitled, Managing
<1>7. AuthShape(p) /\ LateShape(p)
  BY <1>1, <1>4 DEF AuthShape, LateShape
<1>8. ListShape(p) /\ AnswerShape(p)
  BY <1>1, <1>2, <1>3, <1>4 DEF ListShape, AnswerShape, Entitled
<1>9. KeyBacked(p, k) /\ NewBacked(p, t, k) /\ AnswerBacked(p, t, k)
  BY <1>1, <1>4 DEF KeyBacked, NewBacked, AnswerBacked, Named, Hashed
<1>10. LateBacked(p, t, k) /\ ListBacked(p, t)
  BY <1>2, <1>4 DEF LateBacked, ListBacked
<1>11. Calm(p)
  BY <1>1, <1>4 DEF Calm, Holding, InTx
<1> QED BY <1>1, <1>5, <1>6, <1>7, <1>8, <1>9, <1>10, <1>11 DEF p, Shape, Backed

LEMMA Managed ==
  ASSUME NEW q \in ReqRecords, NEW t, NEW k, Unserved(q), Entitled(q, k)
  PROVE  LET p == Manage(q)
         IN  p \in ReqRecords /\ Shape(p) /\ Backed(p, t, k) /\ Calm(p)
<1> DEFINE Good(p) == p \in ReqRecords /\ Shape(p) /\ Backed(p, t, k) /\ Calm(p)
<1>1. Good(Turn(q, 400))
  BY Refusal DEF Unserved, LateBacked
<1>2. q.route = "create" /\ ValidCount(q.count) => Good(Proceed(q, "begin"))
  BY Entering
<1>3. q.route = "add" /\ q.role \in {"admin", "check"} => Good(Proceed(q, "add"))
  BY Entering
<1>4. q.route = "revoke" => Good(Proceed(q, "revoke"))
  BY Entering
<1>5. Good(Proceed(q, "tenants"))
  BY Entering
<1> HIDE DEF Good
<1>6. Good(Manage(q))
  BY <1>1, <1>2, <1>3, <1>4, <1>5 DEF Manage, CreateProject, AddKey
<1> QED BY <1>6 DEF Good

\* It is answered, with what it has listed.
LEMMA Success ==
  ASSUME NEW q \in ReqRecords, NEW t, NEW k, NEW code \in {200, 204},
         q.late = "no", q.keyed = q.listed, q.ruled = q.listed, ListBacked(q, t)
  PROVE  LET p == Turn(q, code)
         IN  p \in ReqRecords /\ Shape(p) /\ Backed(p, t, k) /\ Calm(p)
<1> DEFINE p == Turn(q, code)
<1>1. /\ p \in ReqRecords /\ p.pc = "done" /\ p.answer = code
      /\ SameLists(p, q) /\ p.late = q.late
  <2>1. code \in Codes /\ code < 300
    BY DEF Codes
  <2> QED BY <2>1, TurnOkIs
<1> HIDE DEF p
<1>2. CreateShape(p) /\ ManageShape(p) /\ AuthShape(p) /\ LateShape(p)
  BY <1>1 DEF CreateShape, ManageShape, AuthShape, LateShape, InTx, Managing
<1>3. ListShape(p) /\ AnswerShape(p)
  BY <1>1 DEF ListShape, AnswerShape, SameLists
<1>4. KeyBacked(p, k) /\ ManageBacked(p, k) /\ NewBacked(p, t, k)
  BY <1>1 DEF KeyBacked, ManageBacked, NewBacked, Managing, Named, Hashed
<1>5. LateBacked(p, t, k) /\ ListBacked(p, t) /\ AnswerBacked(p, t, k)
  BY <1>1 DEF LateBacked, ListBacked, AnswerBacked, SameLists
<1>6. Calm(p)
  BY <1>1 DEF Calm, Holding, InTx
<1> QED BY <1>1, <1>2, <1>3, <1>4, <1>5, <1>6 DEF p, Shape, Backed

\* What the invariant says of one request.
LEMMA Standing ==
  ASSUME IInv, NEW r \in Requests
  PROVE  /\ reqs[r] \in ReqRecords
         /\ Shape(reqs[r]) /\ Backed(reqs[r], tenants, keys)
  BY DEF IInv, ReqsOK

\* A request is answered that it fails.
LEMMA AnswerFails ==
  ASSUME IInv, UNCHANGED conns, NEW r \in Requests, NEW code \in {400, 401, 403, 404, 409, 503},
         Answer(r, code), UNCHANGED Tables,
         code \in {401, 403, 503} \/ reqs[r].late = "no"
  PROVE  IInv'
<1> DEFINE q == Turn(reqs[r], code)
<1>1. q \in ReqRecords /\ Shape(q) /\ Backed(q, tenants, keys) /\ Calm(q)
  BY Standing, Refusal DEF Shape, LateShape, Backed
<1>2. reqs' = [reqs EXCEPT ![r] = q]
  BY DEF Answer
<1> HIDE DEF q
<1> QED BY <1>1, <1>2, CalmMove

\* What the history says of the tables.
LEMMA LatenessIs ==
  ASSUME NEW h
  PROVE  LET late == Lateness(h)
         IN  /\ late \in {"no", "revoked", "suspended"}
             /\ late = "revoked" => keys[h] # NoRow /\ keys[h].status = "revoked"
             /\ late = "suspended" => /\ keys[h] # NoRow
                                      /\ tenants[keys[h].tenant] = "suspended"
<1>1. keys[h].status = "revoked" => keys[h] # NoRow
  BY DEF NoRow
<1> QED BY <1>1 DEF Lateness

-----------------------------------------------------------------------------
(* Requests come and go *)

LEMMA ArriveKeeps ==
  ASSUME IInv, UNCHANGED conns, NEW r \in Requests, Arrive(r)
  PROVE  IInv'
<1> DEFINE Good(p) == p \in ReqRecords /\ Shape(p) /\ Backed(p, tenants, keys) /\ Calm(p)
           Arrived(q) == [q EXCEPT !.pc = "find_key", !.pass = 1, !.late = Lateness(q.cred)]
<1>1. PICK q \in Incoming :
        reqs' = [reqs EXCEPT ![r] =
          IF q.cred \in Hashes THEN Arrived(q)
          ELSE IF q.cred = Nobody /\ q.route = "create" THEN CreateProject(q)
          ELSE AdminAuth(q)]
  BY DEF Arrive
<1>2. q \in ReqRecords /\ FreshReq(q) /\ Asked(q)
  BY IncomingIs
<1>3. UNCHANGED Tables
  BY DEF Arrive
<1>4. Unserved(q)
  BY <1>2 DEF FreshReq, Unserved
<1>5. CASE q.cred \in Hashes
  <2> DEFINE late == Lateness(q.cred)
             p == Arrived(q)
  <2>1. /\ late \in {"no", "revoked", "suspended"}
        /\ late = "revoked" => keys[q.cred] # NoRow /\ keys[q.cred].status = "revoked"
        /\ late = "suspended" => /\ keys[q.cred] # NoRow
                                 /\ tenants[keys[q.cred].tenant] = "suspended"
    BY LatenessIs
  <2>3. /\ p \in ReqRecords /\ p.pc = "find_key" /\ p.late = late
        /\ SameAsk(p, q) /\ SameLists(p, q) /\ p.answer = q.answer
    BY <1>2, <2>1, ArrivedIs
  <2> HIDE DEF late, p
  <2>4. p.cred = q.cred /\ p.route = q.route /\ p.hash = q.hash
    BY <2>3 DEF SameAsk
  <2>5. p.answer = 0 /\ p.listed = {} /\ p.keyed = {} /\ p.ruled = {}
    BY <1>2, <2>3 DEF FreshReq, SameLists, IdleReq, Request
  <2>6. CreateShape(p) /\ ManageShape(p) /\ LateShape(p)
    BY <1>5, <2>3, <2>4, <2>5 DEF CreateShape, ManageShape, LateShape, InTx, Managing
  <2>7. AuthShape(p)
    BY <1>2, <1>5, <2>3, <2>4 DEF AuthShape, Asked
  <2>8. ListShape(p) /\ AnswerShape(p)
    BY <2>3, <2>5 DEF ListShape, AnswerShape
  <2>9. KeyBacked(p, keys) /\ ManageBacked(p, keys) /\ NewBacked(p, tenants, keys)
    BY <2>3 DEF KeyBacked, ManageBacked, NewBacked, Managing, Named, Hashed
  <2>10. LateBacked(p, tenants, keys)
    BY <2>1, <2>3, <2>4 DEF LateBacked
  <2>11. ListBacked(p, tenants) /\ AnswerBacked(p, tenants, keys) /\ Calm(p)
    BY <2>3, <2>5 DEF ListBacked, AnswerBacked, Calm, Holding, InTx
  <2>12. reqs' = [reqs EXCEPT ![r] = p]
    BY <1>1, <1>5 DEF p
  <2> QED BY <1>3, <2>3, <2>6, <2>7, <2>8, <2>9, <2>10, <2>11, <2>12, CalmMove
          DEF Shape, Backed
<1>6. CASE q.cred \notin Hashes
  <2>1. q.cred = Operator \/ q.route = "create" => Entitled(q, keys)
    BY <1>2 DEF Entitled, Asked
  <2>2. q.cred = Operator \/ q.route = "create" => Good(Manage(q))
    BY <1>2, <1>4, <2>1, Managed
  <2>3. Good(Turn(q, 401))
    BY <1>2, <1>4, Refusal DEF Unserved, LateBacked
  <2> DEFINE p == IF q.cred = Nobody /\ q.route = "create" THEN CreateProject(q)
                  ELSE AdminAuth(q)
  <2> HIDE DEF Good
  <2>4. Good(p)
    BY <2>2, <2>3 DEF Manage, AdminAuth
  <2>5. reqs' = [reqs EXCEPT ![r] = p]
    BY <1>1, <1>6
  <2> HIDE DEF p
  <2> QED BY <1>3, <2>4, <2>5, CalmMove DEF Good
<1> QED BY <1>5, <1>6

LEMMA AnsweredKeeps ==
  ASSUME IInv, UNCHANGED conns, NEW r \in Requests, Answered(r)
  PROVE  IInv'
<1> DEFINE p == IdleReq
<1>1. /\ p \in ReqRecords /\ p.pc = "idle" /\ p.late = "no" /\ p.answer = 0
      /\ p.listed = {} /\ p.keyed = {} /\ p.ruled = {}
  BY IdleIs DEF IdleReq, Request
<1>2. reqs' = [reqs EXCEPT ![r] = p] /\ UNCHANGED Tables
  BY DEF Answered
<1>3. AnswerShape(p)
  BY <1>1 DEF AnswerShape
<1> HIDE DEF p
<1>4. Shape(p)
  BY <1>1, <1>3 DEF Shape, CreateShape, ManageShape, AuthShape, LateShape, ListShape,
     InTx, Managing
<1>5. Backed(p, tenants, keys) /\ Calm(p)
  BY <1>1 DEF Backed, KeyBacked, ManageBacked, NewBacked, LateBacked, ListBacked,
     AnswerBacked, Managing, Named, Hashed, Calm, Holding, InTx
<1> QED BY <1>1, <1>2, <1>4, <1>5, CalmMove

-----------------------------------------------------------------------------
(* Authentication *)

LEMMA FindByHashKeeps ==
  ASSUME IInv, UNCHANGED conns, NEW r \in Requests, FindByHash(r)
  PROVE  IInv'
<1> DEFINE q == reqs[r]
           key == keys[q.cred]
           late == Lateness(q.cred)
           p == [q EXCEPT !.pc = "get_tenant", !.key = key, !.late = late]
<1>1. q \in ReqRecords /\ Shape(q) /\ Backed(q, tenants, keys)
  BY Standing
<1>2. q.pc = "find_key" /\ UNCHANGED Tables
  BY DEF FindByHash
<1>3. q.cred \in Hashes /\ q.answer = 0 /\ q.listed = {} /\ q.keyed = {} /\ q.ruled = {}
  BY <1>1, <1>2 DEF Shape, AuthShape, ListShape, AnswerShape
<1>4. CASE key.status = "active"
  <2>1. key \in Rows /\ key # NoRow /\ key.tenant \in Names
    <3>1. key \in Rows
      BY <1>3 DEF IInv, TablesOK
    <3>2. key # NoRow
      BY <1>4 DEF NoRow
    <3> QED BY <1>3, <3>1, <3>2 DEF IInv, TablesOK, RowsOK
  <2>2. reqs' = [reqs EXCEPT ![r] = p]
    BY <1>4 DEF FindByHash
  <2>0. /\ late \in {"no", "revoked", "suspended"} /\ late # "revoked"
        /\ late = "suspended" => /\ keys[q.cred] # NoRow
                                 /\ tenants[keys[q.cred].tenant] = "suspended"
    BY <1>4, LatenessIs
  <2> HIDE DEF key, late
  <2>3. /\ p \in ReqRecords /\ p.pc = "get_tenant" /\ p.key = key
        /\ SameAsk(p, q) /\ SameLists(p, q) /\ p.late = late /\ p.answer = q.answer
    <3>1. ASSUME NEW a \in Pcs
          PROVE  LET x == [q EXCEPT !.pc = a, !.key = key, !.late = late]
                 IN  /\ x \in ReqRecords /\ x.pc = a /\ x.key = key
                     /\ SameAsk(x, q) /\ SameLists(x, q)
                     /\ x.late = late /\ x.answer = q.answer
      BY <1>1, <2>0, <2>1 DEF ReqRecords, SameAsk, SameLists
    <3>2. "get_tenant" \in Pcs
      BY DEF Pcs
    <3> QED BY <3>1, <3>2, Zenon
  <2> HIDE DEF p
  <2>4. p.cred = q.cred /\ p.route = q.route /\ p.hash = q.hash
    BY <2>3 DEF SameAsk
  <2>5. p.answer = 0 /\ p.listed = {} /\ p.keyed = {} /\ p.ruled = {}
    BY <1>3, <2>3 DEF SameLists
  <2>6. p.late # "revoked"
    BY <2>0, <2>3
  <2>7. CreateShape(p) /\ ManageShape(p)
    BY <2>3 DEF CreateShape, ManageShape, InTx, Managing
  <2>8. LateShape(p)
    BY <1>3, <2>3, <2>4, <2>5, <2>6 DEF LateShape
  <2>9. AuthShape(p)
    BY <1>1, <1>2, <2>1, <2>3, <2>4 DEF AuthShape, Shape
  <2>10. ListShape(p) /\ AnswerShape(p)
    BY <2>3, <2>5 DEF ListShape, AnswerShape
  <2>11. KeyBacked(p, keys)
    BY <2>1, <2>3, <2>4 DEF KeyBacked, key
  <2>12. ManageBacked(p, keys) /\ NewBacked(p, tenants, keys)
    BY <2>3 DEF ManageBacked, NewBacked, Managing, Named, Hashed
  <2>13. LateBacked(p, tenants, keys)
    BY <2>0, <2>3, <2>4 DEF LateBacked
  <2>14. ListBacked(p, tenants) /\ AnswerBacked(p, tenants, keys) /\ Calm(p)
    BY <2>3, <2>5 DEF ListBacked, AnswerBacked, Calm, Holding, InTx
  <2> QED BY <1>2, <2>2, <2>3, <2>7, <2>8, <2>9, <2>10, <2>11, <2>12, <2>13, <2>14,
             CalmMove DEF Shape, Backed
<1>5. CASE key.status # "active"
  <2>1. Answer(r, 401)
    BY <1>5 DEF FindByHash
  <2> QED BY <1>2, <2>1, AnswerFails
<1> QED BY <1>4, <1>5

\* A request whose tenant is found active did not come too late.
LEMMA AuthenticatedIs ==
  ASSUME IInv, NEW r \in Requests, reqs[r].pc = "get_tenant",
         tenants[reqs[r].key.tenant] = "active"
  PROVE  LET p == Authenticated(reqs[r])
         IN  p \in ReqRecords /\ Shape(p) /\ Backed(p, tenants, keys) /\ Calm(p)
<1> DEFINE q == reqs[r]
           Good(p) == p \in ReqRecords /\ Shape(p) /\ Backed(p, tenants, keys) /\ Calm(p)
<1>1. q \in ReqRecords /\ Shape(q) /\ Backed(q, tenants, keys)
  BY Standing
<1>2. /\ q.cred \in Hashes /\ q.answer = 0 /\ q.listed = {} /\ q.keyed = {} /\ q.ruled = {}
      /\ q.route \notin {"create", "list"} /\ q.key.tenant \in Names
      /\ q.route \in {"add", "revoke"} => q.hash \in Hashes
  BY <1>1 DEF Shape, AuthShape, ListShape, AnswerShape
<1>3. keys[q.cred] # NoRow /\ keys[q.cred].tenant = q.key.tenant
      /\ keys[q.cred].role = q.key.role
  BY <1>1 DEF Backed, KeyBacked
<1>4. q.late = "no"
  <2>1. q.late \in {"no", "revoked", "suspended"}
    BY <1>1 DEF ReqRecords
  <2>2. q.late # "revoked"
    BY <1>1 DEF Shape, LateShape
  <2>3. q.late # "suspended"
    BY <1>1, <1>3 DEF Backed, LateBacked
  <2> QED BY <2>1, <2>2, <2>3
<1>5. Unserved(q)
  BY <1>2, <1>4 DEF Unserved, SameLists, IdleReq, Request
<1>6. Good(Turn(q, 401)) /\ Good(Turn(q, 403)) /\ Good(Turn(q, 404))
  <2>1. LateBacked(q, tenants, keys)
    BY <1>1 DEF Backed
  <2> HIDE DEF q
  <2> QED BY <1>1, <1>4, <2>1, Refusal
<1>7. Good(Turn(q, 200))
  <2>1. ListBacked(q, tenants) /\ q.keyed = q.listed /\ q.ruled = q.listed
    BY <1>1, <1>2 DEF Backed
  <2> HIDE DEF q
  <2> QED BY <1>1, <1>4, <2>1, Success
<1>8. Good([q EXCEPT !.pc = "find_key", !.pass = 2, !.late = Lateness(q.cred)])
  <2> DEFINE late == Lateness(q.cred)
             p == [q EXCEPT !.pc = "find_key", !.pass = 2, !.late = late]
  <2>0. /\ late \in {"no", "revoked", "suspended"}
        /\ late = "revoked" => keys[q.cred] # NoRow /\ keys[q.cred].status = "revoked"
        /\ late = "suspended" => /\ keys[q.cred] # NoRow
                                 /\ tenants[keys[q.cred].tenant] = "suspended"
    BY LatenessIs
  <2> HIDE DEF late
  <2>1. /\ p \in ReqRecords /\ p.pc = "find_key" /\ p.late = late
        /\ SameAsk(p, q) /\ SameLists(p, q) /\ p.answer = q.answer
    BY <1>1, <2>0, AgainIs
  <2> HIDE DEF p
  <2>2. p.cred = q.cred /\ p.route = q.route /\ p.hash = q.hash
    BY <2>1 DEF SameAsk
  <2>3. p.answer = 0 /\ p.listed = {} /\ p.keyed = {} /\ p.ruled = {}
    BY <1>2, <2>1 DEF SameLists
  <2>4. CreateShape(p) /\ ManageShape(p) /\ AuthShape(p)
    BY <1>2, <2>1, <2>2 DEF CreateShape, ManageShape, AuthShape, InTx, Managing
  <2>5. LateShape(p) /\ ListShape(p) /\ AnswerShape(p)
    BY <1>2, <2>1, <2>2, <2>3 DEF LateShape, ListShape, AnswerShape
  <2>6. LateBacked(p, tenants, keys)
    BY <2>0, <2>1, <2>2 DEF LateBacked
  <2>7. Backed(p, tenants, keys) /\ Calm(p)
    BY <2>1, <2>3, <2>6 DEF Backed, KeyBacked, ManageBacked, NewBacked, ListBacked,
       AnswerBacked, Managing, Named, Hashed, Calm, Holding, InTx
  <2> QED BY <2>1, <2>4, <2>5, <2>7 DEF p, late, Shape
<1>9. q.route \in {"tenant", "config"} => Good(Proceed(q, "config"))
  BY <1>1, <1>5, Entering DEF Entitled
<1>10. q.key.role = "admin" => Good(Manage([q EXCEPT !.tenant = q.key.tenant]))
  <2> SUFFICES ASSUME q.key.role = "admin"
               PROVE  Good(Manage([q EXCEPT !.tenant = q.key.tenant]))
    OBVIOUS
  <2> DEFINE p == [q EXCEPT !.tenant = q.key.tenant]
  <2>1. /\ p \in ReqRecords /\ p.tenant = q.key.tenant
        /\ p.route = q.route /\ p.cred = q.cred /\ p.hash = q.hash
        /\ p.role = q.role /\ p.key = q.key /\ p.late = q.late
        /\ SameLists(p, q) /\ p.answer = q.answer
    BY <1>1, OwnerIs
  <2> HIDE DEF p
  <2>2. Unserved(p)
    BY <1>5, <2>1 DEF Unserved, SameLists
  <2>3. Entitled(p, keys)
    BY <1>2, <1>3, <2>1 DEF Entitled
  <2> QED BY <2>1, <2>2, <2>3, Managed DEF p
<1> HIDE DEF Good
<1>11. Good(Authenticated(q))
  <2>1. CASE q.route = "check"
    BY <1>6, <1>7, <1>8, <2>1 DEF Authenticated, RequireCheckRole
  <2>2. CASE q.route \in {"tenant", "config"}
    BY <1>6, <1>9, <2>2 DEF Authenticated, Config
  <2>3. CASE q.route \notin {"check", "tenant", "config"}
    BY <1>6, <1>10, <2>3 DEF Authenticated, ProjectAuth
  <2> QED BY <2>1, <2>2, <2>3
<1> QED BY <1>11 DEF Good

LEMMA GetByIDKeeps ==
  ASSUME IInv, UNCHANGED conns, NEW r \in Requests, GetByID(r)
  PROVE  IInv'
<1>1. reqs[r].pc = "get_tenant" /\ UNCHANGED Tables
  BY DEF GetByID
<1>2. CASE tenants[reqs[r].key.tenant] = "active"
  <2> DEFINE p == Authenticated(reqs[r])
  <2>1. p \in ReqRecords /\ Shape(p) /\ Backed(p, tenants, keys) /\ Calm(p)
    BY <1>1, <1>2, AuthenticatedIs
  <2>2. reqs' = [reqs EXCEPT ![r] = p]
    BY <1>2 DEF GetByID
  <2> HIDE DEF p
  <2> QED BY <1>1, <2>1, <2>2, CalmMove
<1>3. CASE tenants[reqs[r].key.tenant] # "active"
  <2>1. Answer(r, 403)
    BY <1>3 DEF GetByID
  <2> QED BY <1>1, <2>1, AnswerFails
<1> QED BY <1>2, <1>3

-----------------------------------------------------------------------------
(* CreateProject, before it commits *)

\* A transaction goes on to its next statement.
LEMMA InTxMove ==
  ASSUME IInv, UNCHANGED conns, NEW r \in Requests, NEW pc \in InTx,
         reqs[r].pc \in InTx \cup {"begin"},
         Goto(r, pc), UNCHANGED Tables,
         reqs[r].pc \in InTx \/ ConnFree,
         pc \in Named => /\ tenants[reqs[r].tenant] = "none"
                         /\ \A s \in Requests \ {r} :
                              reqs[s].pc \in Named => reqs[s].tenant # reqs[r].tenant,
         pc \in Hashed => /\ keys[reqs[r].hash] = NoRow
                          /\ \A s \in Requests \ {r} :
                               reqs[s].pc \in Hashed => reqs[s].hash # reqs[r].hash
  PROVE  IInv'
<1> DEFINE q == reqs[r]
           p == Proceed(q, pc)
<1>1. q \in ReqRecords /\ Shape(q) /\ Backed(q, tenants, keys)
  BY Standing
<1>2. /\ q.route = "create" /\ q.role = "admin" /\ q.tenant \in Names
      /\ q.hash \in Hashes /\ ValidCount(q.count) /\ q.answer = 0
      /\ q.listed = {} /\ q.keyed = {} /\ q.ruled = {}
  BY <1>1 DEF Shape, CreateShape, ListShape, AnswerShape, InTx
<1>3. q.late = "no"
  BY <1>1 DEF Shape, LateShape, InTx
<1>4. /\ p \in ReqRecords /\ p.pc = pc
      /\ SameAsk(p, q) /\ SameLists(p, q)
      /\ p.key = q.key /\ p.late = q.late /\ p.answer = q.answer
  <2>1. pc \in Pcs
    BY DEF Pcs, InTx
  <2> QED BY <1>1, <2>1, ProceedIs
<1>5. reqs' = [reqs EXCEPT ![r] = p]
  BY DEF Goto
<1> HIDE DEF p
<1>6. /\ p.route = q.route /\ p.cred = q.cred /\ p.tenant = q.tenant
      /\ p.hash = q.hash /\ p.role = q.role /\ p.count = q.count
  BY <1>4 DEF SameAsk
<1>7. p.listed = {} /\ p.keyed = {} /\ p.ruled = {} /\ p.late = "no" /\ p.answer = 0
  BY <1>2, <1>3, <1>4 DEF SameLists
<1>8. CreateShape(p)
  BY <1>2, <1>6 DEF CreateShape
<1>9. ManageShape(p) /\ AuthShape(p) /\ LateShape(p)
  BY <1>4, <1>7 DEF ManageShape, AuthShape, LateShape, InTx, Managing
<1>10. ListShape(p) /\ AnswerShape(p)
  BY <1>4, <1>7 DEF ListShape, AnswerShape, InTx
<1>11. KeyBacked(p, keys) /\ ManageBacked(p, keys)
  BY <1>4 DEF KeyBacked, ManageBacked, InTx, Managing
<1>12. NewBacked(p, tenants, keys)
  BY <1>4, <1>6 DEF NewBacked
<1>13. LateBacked(p, tenants, keys) /\ ListBacked(p, tenants) /\ AnswerBacked(p, tenants, keys)
  BY <1>7 DEF LateBacked, ListBacked, AnswerBacked
<1>14. \A s \in Requests \ {r} : ApartFrom(reqs[s], p)
  BY <1>4, <1>6, <1>7 DEF ApartFrom
<1> QED BY <1>4, <1>5, <1>8, <1>9, <1>10, <1>11, <1>12, <1>13, <1>14, QuietMove
        DEF Shape, Backed, Holding

LEMMA TransactionKeeps ==
  ASSUME IInv, UNCHANGED conns, NEW r \in Requests,
         Begin(r) \/ InsertTenant(r) \/ InsertKey(r) \/ InsertRules(r)
  PROVE  IInv'
<1> DEFINE q == reqs[r]
<1>1. q \in ReqRecords /\ Shape(q) /\ Backed(q, tenants, keys)
  BY Standing
<1>2. UNCHANGED Tables
  BY DEF Begin, InsertTenant, InsertKey, InsertRules
<1>3. q.pc \in InTx \cup {"begin"}
  BY DEF Begin, InsertTenant, InsertKey, InsertRules, InTx
<1>4. q.late = "no"
  BY <1>1, <1>3 DEF Shape, LateShape, InTx
<1>5. \A s \in Requests \ {r} :
        /\ q.pc \in Named /\ reqs[s].pc \in Named => reqs[s].tenant # q.tenant
        /\ q.pc \in Hashed /\ reqs[s].pc \in Hashed => reqs[s].hash # q.hash
  BY DEF IInv, ReqsOK, ApartFrom
<1>6. CASE Begin(r)
  <2>1. Goto(r, "insert_tenant") /\ ConnFree
    BY <1>6 DEF Begin, Waits, InTx
  <2>2. /\ "insert_tenant" \in InTx
        /\ "insert_tenant" \notin Named /\ "insert_tenant" \notin Hashed
    BY DEF InTx, Named, Hashed
  <2> QED BY <1>2, <1>3, <2>1, <2>2, InTxMove
<1>7. CASE InsertTenant(r)
  <2>1. CASE tenants[q.tenant] = "none"
    <3>1. Goto(r, "insert_key") /\ q.pc \in InTx
      BY <1>7, <2>1 DEF InsertTenant, InTx
    <3>2. \A s \in Requests \ {r} : reqs[s].pc \in Named => reqs[s].tenant # q.tenant
      BY <1>7 DEF InsertTenant, Waits, NamePending, Named, InTx
    <3>3. "insert_key" \in InTx /\ "insert_key" \notin Hashed
      BY DEF InTx, Hashed
    <3> QED BY <1>2, <1>3, <2>1, <3>1, <3>2, <3>3, InTxMove
  <2>2. CASE tenants[q.tenant] # "none"
    <3>1. Answer(r, 409)
      BY <1>7, <2>2 DEF InsertTenant
    <3> QED BY <1>2, <1>4, <3>1, AnswerFails
  <2> QED BY <2>1, <2>2
<1>8. CASE InsertKey(r)
  <2>1. q.pc \in Named /\ q.pc \in InTx
    BY <1>8 DEF InsertKey, Named, InTx
  <2>2. CASE keys[q.hash] = NoRow
    <3>1. Goto(r, "insert_rules")
      BY <1>8, <2>2 DEF InsertKey
    <3>2. \A s \in Requests \ {r} : reqs[s].pc \in Hashed => reqs[s].hash # q.hash
      BY <1>8 DEF InsertKey, Waits, HashPending, Hashed, InTx
    <3>3. tenants[q.tenant] = "none"
      BY <1>1, <2>1 DEF Backed, NewBacked
    <3>4. "insert_rules" \in InTx
      BY DEF InTx
    <3> QED BY <1>2, <1>3, <1>5, <2>1, <2>2, <3>1, <3>2, <3>3, <3>4, InTxMove
  <2>3. CASE keys[q.hash] # NoRow
    <3>1. Answer(r, 409)
      BY <1>8, <2>3 DEF InsertKey
    <3> QED BY <1>2, <1>4, <3>1, AnswerFails
  <2> QED BY <2>2, <2>3
<1>9. CASE InsertRules(r)
  <2>1. q.pc \in Named /\ q.pc \in Hashed /\ q.pc \in InTx /\ Goto(r, "commit")
    BY <1>9 DEF InsertRules, Named, Hashed, InTx
  <2>2. tenants[q.tenant] = "none" /\ keys[q.hash] = NoRow
    BY <1>1, <2>1 DEF Backed, NewBacked
  <2>3. "commit" \in InTx
    BY DEF InTx
  <2> QED BY <1>2, <1>3, <1>5, <2>1, <2>2, <2>3, InTxMove
<1> QED BY <1>6, <1>7, <1>8, <1>9

-----------------------------------------------------------------------------
(* Reads, and failures *)

\* A request that has read one table more.
HasRead(p) ==
  /\ p.pc \in {"keys", "rules", "done"} /\ p.late = "no" /\ p.answer # 201
  /\ p.pc # "done" => p.answer = 0
  /\ p.route = "me" => p.tenant \in Names
  /\ p.pc \in {"rules", "done"} => p.keyed = p.listed
  /\ p.pc = "done" => p.ruled = p.listed

LEMMA ReadMove ==
  ASSUME IInv, UNCHANGED conns, NEW r \in Requests, NEW p \in ReqRecords,
         reqs' = [reqs EXCEPT ![r] = p], UNCHANGED Tables,
         HasRead(p), ListBacked(p, tenants)
  PROVE  IInv'
<1>1. CreateShape(p) /\ ManageShape(p) /\ AuthShape(p) /\ LateShape(p)
  BY DEF HasRead, CreateShape, ManageShape, AuthShape, LateShape, InTx, Managing
<1>2. ListShape(p) /\ AnswerShape(p)
  BY DEF HasRead, ListShape, AnswerShape
<1>3. KeyBacked(p, keys) /\ ManageBacked(p, keys) /\ NewBacked(p, tenants, keys)
  BY DEF HasRead, KeyBacked, ManageBacked, NewBacked, Managing, Named, Hashed
<1>4. LateBacked(p, tenants, keys) /\ AnswerBacked(p, tenants, keys)
  BY DEF HasRead, LateBacked, AnswerBacked
<1>5. Calm(p)
  BY DEF HasRead, Calm, Holding, InTx
<1> QED BY <1>1, <1>2, <1>3, <1>4, <1>5, CalmMove DEF Shape, Backed

\* Reading one table after the other shows whole projects, because a project
\* that is there stays, with its keys and its rules.
LEMMA ReadsKeep ==
  ASSUME IInv, UNCHANGED conns, NEW r \in Requests,
         ListTenants(r) \/ ListTenantRules(r) \/ Query(r)
  PROVE  IInv'
<1> DEFINE q == reqs[r]
<1>1. q \in ReqRecords /\ Shape(q) /\ Backed(q, tenants, keys)
  BY Standing
<1>2. UNCHANGED Tables
  BY DEF ListTenants, ListTenantRules, Query, QueryTenants, QueryKeys, QueryRules
<1>3. q.pc \in {"config", "config_rules", "tenants", "keys", "rules"}
  BY DEF ListTenants, ListTenantRules, Query, QueryTenants, QueryKeys, QueryRules
<1>4. q.late = "no" /\ q.answer = 0
  BY <1>1, <1>3 DEF Shape, LateShape, AnswerShape
<1>5. q.pc \in {"tenants", "keys", "rules"} /\ q.route = "me" => q.tenant \in Names
  BY <1>1, <1>3 DEF Shape, ListShape
<1>6. q.pc \in {"config", "config_rules", "tenants"} => q.listed = {} /\ q.keyed = {} /\ q.ruled = {}
  BY <1>1 DEF Shape, ListShape
<1>7. q.listed \subseteq Names /\ \A n \in q.listed : tenants[n] # "none"
  BY <1>1 DEF ReqRecords, Backed, ListBacked
<1>8. ASSUME Answer(r, 200), q.pc \in {"config", "config_rules", "tenants"}
      PROVE  IInv'
  <2> DEFINE p == Turn(q, 200)
  <2>1. q.keyed = q.listed /\ q.ruled = q.listed /\ ListBacked(q, tenants)
    BY <1>1, <1>6, <1>8 DEF Backed
  <2>2. reqs' = [reqs EXCEPT ![r] = p]
    BY <1>8 DEF Answer
  <2> HIDE DEF q
  <2>3. p \in ReqRecords /\ Shape(p) /\ Backed(p, tenants, keys) /\ Calm(p)
    BY <1>1, <1>4, <2>1, Success
  <2> HIDE DEF p
  <2> QED BY <1>2, <2>2, <2>3, CalmMove
<1>9. CASE ListTenants(r) \/ ListTenantRules(r)
  <2>1. CASE Answer(r, 200) /\ q.pc \in {"config", "config_rules"}
    BY <1>8, <2>1
  <2>2. CASE Goto(r, "config_rules") /\ q.pc = "config" /\ q.route = "config"
    <3> DEFINE p == Proceed(q, "config_rules")
    <3>1. Unserved(q) /\ Entitled(q, keys)
      BY <1>4, <1>6, <2>2 DEF Unserved, Entitled, SameLists, IdleReq, Request
    <3>2. reqs' = [reqs EXCEPT ![r] = p]
      BY <2>2 DEF Goto
    <3>3. p \in ReqRecords /\ Shape(p) /\ Backed(p, tenants, keys) /\ Calm(p)
      BY <1>1, <3>1, Entering
    <3> HIDE DEF p
    <3> QED BY <1>2, <3>2, <3>3, CalmMove
  <2> QED BY <1>9, <2>1, <2>2 DEF ListTenants, ListTenantRules
<1>10. CASE QueryTenants(r)
  <2> DEFINE found == {n \in Scope(q) : tenants[n] # "none"}
  <2>1. q.pc = "tenants"
    BY <1>10 DEF QueryTenants
  <2>2. CASE found = {}
    BY <1>8, <1>10, <2>1, <2>2 DEF QueryTenants
  <2>3. CASE found # {}
    <3> DEFINE p == [q EXCEPT !.pc = "keys", !.listed = found]
    <3>1. reqs' = [reqs EXCEPT ![r] = p]
      BY <1>10, <2>3 DEF QueryTenants
    <3>2. found \in SUBSET Names
      BY <1>5, <2>1 DEF Scope
    <3>3. \A n \in found : tenants[n] # "none"
      OBVIOUS
    <3> HIDE DEF found
    <3>4. /\ p \in ReqRecords /\ p.pc = "keys" /\ p.listed = found /\ SameAsk(p, q)
          /\ p.late = q.late /\ p.answer = q.answer
      <4>1. ASSUME NEW a \in Pcs
            PROVE  LET x == [q EXCEPT !.pc = a, !.listed = found]
                   IN  /\ x \in ReqRecords /\ x.pc = a /\ x.listed = found /\ SameAsk(x, q)
                       /\ x.late = q.late /\ x.answer = q.answer
        BY <1>1, <3>2 DEF ReqRecords, SameAsk
      <4>2. "keys" \in Pcs
        BY DEF Pcs
      <4> QED BY <4>1, <4>2, Zenon
    <3> HIDE DEF p
    <3>5. ListBacked(p, tenants)
      BY <3>3, <3>4 DEF ListBacked
    <3>6. HasRead(p)
      BY <1>4, <1>5, <2>1, <3>4 DEF SameAsk, HasRead
    <3> QED BY <1>2, <3>1, <3>4, <3>5, <3>6, ReadMove
  <2> QED BY <2>2, <2>3
<1>11. CASE QueryKeys(r)
  <2> DEFINE keyed == {n \in q.listed : \E h \in Hashes : keys[h].tenant = n}
             p == [q EXCEPT !.pc = "rules", !.keyed = keyed]
  <2>1. q.pc = "keys" /\ reqs' = [reqs EXCEPT ![r] = p]
    BY <1>11 DEF QueryKeys
  <2>2. keyed = q.listed /\ keyed \in SUBSET Names
    BY <1>7 DEF IInv, TablesOK, ProjectsWhole
  <2> HIDE DEF keyed
  <2>3. /\ p \in ReqRecords /\ p.pc = "rules" /\ p.keyed = keyed /\ p.listed = q.listed
        /\ SameAsk(p, q) /\ p.late = q.late /\ p.answer = q.answer
    <3>1. ASSUME NEW a \in Pcs
          PROVE  LET x == [q EXCEPT !.pc = a, !.keyed = keyed]
                 IN  /\ x \in ReqRecords /\ x.pc = a /\ x.keyed = keyed /\ x.listed = q.listed
                     /\ SameAsk(x, q) /\ x.late = q.late /\ x.answer = q.answer
      BY <1>1, <2>2 DEF ReqRecords, SameAsk
    <3>2. "rules" \in Pcs
      BY DEF Pcs
    <3> QED BY <3>1, <3>2, Zenon
  <2> HIDE DEF p
  <2>4. ListBacked(p, tenants)
    BY <1>7, <2>3 DEF ListBacked
  <2>5. HasRead(p)
    BY <1>4, <1>5, <2>1, <2>2, <2>3 DEF SameAsk, HasRead
  <2> QED BY <1>2, <2>1, <2>3, <2>4, <2>5, ReadMove
<1>12. CASE QueryRules(r)
  <2> DEFINE ruled == {n \in q.listed : rules[n] > 0}
             x == Turn(q, 200)
             p == [x EXCEPT !.ruled = ruled]
  <2>1. q.pc = "rules" /\ reqs' = [reqs EXCEPT ![r] = p]
    BY <1>12 DEF QueryRules
  <2>2. ruled = q.listed /\ ruled \in SUBSET Names
    BY <1>7 DEF IInv, TablesOK, ProjectsWhole
  <2>3. q.keyed = q.listed
    BY <1>1, <2>1 DEF Shape, ListShape
  <2>4. /\ x \in ReqRecords /\ x.pc = "done" /\ x.answer = 200
        /\ SameAsk(x, q) /\ SameLists(x, q) /\ x.late = q.late
    <3>1. 200 \in Codes /\ 200 < 300
      BY DEF Codes
    <3> QED BY <1>1, <3>1, TurnOkIs
  <2> HIDE DEF ruled, x
  <2>5. /\ p \in ReqRecords /\ p.ruled = ruled /\ SameAsk(p, x)
        /\ p.pc = x.pc /\ p.answer = x.answer /\ p.late = x.late
        /\ p.keyed = x.keyed /\ p.listed = x.listed
    BY <2>2, <2>4 DEF ReqRecords, SameAsk
  <2> HIDE DEF p
  <2>6. p.listed = q.listed /\ p.keyed = p.listed /\ p.ruled = p.listed
    BY <2>2, <2>3, <2>4, <2>5 DEF SameLists
  <2>7. ListBacked(p, tenants)
    BY <1>7, <2>6 DEF ListBacked
  <2>8. p.pc = "done" /\ p.answer = 200 /\ p.late = "no"
    BY <1>4, <2>4, <2>5
  <2>9. p.route = "me" => p.tenant \in Names
    BY <1>5, <2>1, <2>4, <2>5 DEF SameAsk
  <2>10. HasRead(p)
    BY <2>6, <2>8, <2>9 DEF HasRead
  <2> QED BY <1>2, <2>1, <2>5, <2>7, <2>10, ReadMove
<1> QED BY <1>9, <1>10, <1>11, <1>12 DEF Query

LEMMA FailsKeep ==
  ASSUME IInv, UNCHANGED conns, NEW r \in Requests, Fails(r)
  PROVE  IInv'
<1>1. UNCHANGED Tables
  BY DEF Fails
<1>2. CASE Answer(r, 503)
  BY <1>1, <1>2, AnswerFails
<1>3. CASE reqs[r].pc = "config" /\ Answer(r, 404)
  <2>1. reqs[r].late = "no"
    BY <1>3, Standing DEF Shape, LateShape
  <2> QED BY <1>1, <1>3, <2>1, AnswerFails
<1> QED BY <1>2, <1>3 DEF Fails

LEMMA AcquireConnKeeps ==
  ASSUME IInv, UNCHANGED conns, NEW r \in Requests, AcquireConn(r)
  PROVE  IInv'
<1> DEFINE q == reqs[r]
           p == Proceed(q, "adding")
<1>1. q \in ReqRecords /\ Shape(q) /\ Backed(q, tenants, keys)
  BY Standing
<1>2. q.pc = "add" /\ ConnFree /\ UNCHANGED Tables /\ reqs' = [reqs EXCEPT ![r] = p]
  BY DEF AcquireConn, Goto, Waits, InTx
<1>3. /\ p \in ReqRecords /\ p.pc = "adding"
      /\ SameAsk(p, q) /\ SameLists(p, q)
      /\ p.key = q.key /\ p.late = q.late /\ p.answer = q.answer
  <2>1. "adding" \in Pcs
    BY DEF Pcs
  <2> QED BY <1>1, <2>1, ProceedIs
<1> HIDE DEF p
<1>4. /\ p.route = q.route /\ p.cred = q.cred /\ p.tenant = q.tenant
      /\ p.hash = q.hash /\ p.role = q.role
  BY <1>3 DEF SameAsk
<1>5. q.late = "no" /\ q.answer = 0 /\ q.listed = {} /\ q.keyed = {} /\ q.ruled = {}
  BY <1>1, <1>2 DEF Shape, LateShape, ListShape, AnswerShape
<1>6. p.late = "no" /\ p.answer = 0 /\ p.listed = {} /\ p.keyed = {} /\ p.ruled = {}
  BY <1>3, <1>5 DEF SameLists
<1>7. ManageShape(p) /\ ManageBacked(p, keys)
  BY <1>1, <1>2, <1>3, <1>4 DEF Shape, ManageShape, Backed, ManageBacked, Managing
<1>8. CreateShape(p) /\ AuthShape(p) /\ LateShape(p)
  BY <1>3, <1>6 DEF CreateShape, AuthShape, LateShape, InTx
<1>9. ListShape(p) /\ AnswerShape(p)
  BY <1>3, <1>6 DEF ListShape, AnswerShape
<1>10. KeyBacked(p, keys) /\ NewBacked(p, tenants, keys)
  BY <1>3 DEF KeyBacked, NewBacked, Named, Hashed
<1>11. LateBacked(p, tenants, keys) /\ ListBacked(p, tenants) /\ AnswerBacked(p, tenants, keys)
  BY <1>6 DEF LateBacked, ListBacked, AnswerBacked
<1>12. \A s \in Requests \ {r} : ApartFrom(reqs[s], p)
  BY <1>3, <1>6 DEF ApartFrom, Named, Hashed
<1> QED BY <1>2, <1>3, <1>7, <1>8, <1>9, <1>10, <1>11, <1>12, QuietMove DEF Shape, Backed

-----------------------------------------------------------------------------
(* Writes *)

\* The tables grow: a project stays, and a key stays its project's, in its role,
\* and revoked if it is.
Growth ==
  /\ \A n \in Names : tenants[n] # "none" => tenants'[n] = tenants[n]
  /\ \A h \in Hashes : keys[h] # NoRow =>
       /\ keys'[h] # NoRow
       /\ keys'[h].tenant = keys[h].tenant /\ keys'[h].role = keys[h].role
       /\ keys[h].status = "revoked" => keys'[h].status = "revoked"

\* A request is backed by tables that have grown, if not by what it inserts.
LEMMA Grown ==
  ASSUME IInv, NEW s \in Requests, Growth, NewBacked(reqs[s], tenants', keys')
  PROVE  Backed(reqs[s], tenants', keys')
<1> DEFINE q == reqs[s]
<1>1. q \in ReqRecords /\ Shape(q) /\ Backed(q, tenants, keys)
  BY Standing
<1>2. KeyBacked(q, keys')
  BY <1>1 DEF Growth, Shape, AuthShape, Backed, KeyBacked
<1>3. ManageBacked(q, keys')
  BY <1>1 DEF Growth, Backed, ManageBacked
<1>4. LateBacked(q, tenants', keys')
  <2>1. q.late # "no" => q.cred \in Hashes
    BY <1>1 DEF Shape, LateShape
  <2>2. \A h \in Hashes : keys[h] # NoRow => keys[h].tenant \in Names
    BY DEF IInv, TablesOK, RowsOK
  <2> QED BY <1>1, <2>1, <2>2 DEF Growth, Backed, LateBacked
<1>5. ListBacked(q, tenants')
  BY <1>1 DEF Growth, Backed, ListBacked, ReqRecords
<1>6. AnswerBacked(q, tenants', keys')
  BY <1>1 DEF Growth, Shape, AnswerShape, Backed, AnswerBacked
<1> QED BY <1>2, <1>3, <1>4, <1>5, <1>6 DEF Backed

\* A request that has written is answered so, or its reply is lost.
LEMMA Written ==
  ASSUME NEW q \in ReqRecords, NEW t, NEW k, NEW code \in {201, 204, 503},
         q.late = "no", SameLists(q, IdleReq),
         code = 201 => /\ q.hash \in Hashes /\ q.tenant \in Names
                       /\ k[q.hash] # NoRow /\ t[q.tenant] # "none"
                       /\ k[q.hash].tenant = q.tenant /\ k[q.hash].role = q.role
  PROVE  LET p == Turn(q, code)
         IN  /\ p \in ReqRecords /\ Shape(p) /\ Backed(p, t, k)
             /\ p.pc = "done" /\ p.answer = code
             /\ code = 201 => SameAsk(p, q)
<1>1. q.listed = {} /\ q.keyed = {} /\ q.ruled = {}
  BY DEF SameLists, IdleReq, Request
<1>2. CASE code = 503
  <2>1. 503 \in Codes /\ ~(503 < 300)
    BY DEF Codes
  <2>2. Turn(q, 503).pc = "done" /\ Turn(q, 503).answer = 503
    BY <2>1, TurnBadIs
  <2>3. Turn(q, 503) \in ReqRecords /\ Shape(Turn(q, 503)) /\ Backed(Turn(q, 503), t, k)
    <3>1. LateBacked(q, t, k)
      BY DEF LateBacked
    <3> QED BY <3>1, Refusal
  <2> QED BY <1>2, <2>2, <2>3
<1>3. CASE code = 204
  <2>1. 204 \in Codes /\ 204 < 300
    BY DEF Codes
  <2>2. Turn(q, 204).pc = "done" /\ Turn(q, 204).answer = 204
    BY <2>1, TurnOkIs
  <2>3. Turn(q, 204) \in ReqRecords /\ Shape(Turn(q, 204)) /\ Backed(Turn(q, 204), t, k)
    <3>1. ListBacked(q, t)
      BY <1>1 DEF ListBacked
    <3> QED BY <1>1, <3>1, Success
  <2> QED BY <1>3, <2>2, <2>3
<1>4. CASE code = 201
  <2> DEFINE p == Turn(q, code)
  <2>1. /\ p \in ReqRecords /\ p.pc = "done" /\ p.answer = 201
        /\ SameAsk(p, q) /\ SameLists(p, q) /\ p.late = q.late
    <3>1. 201 \in Codes /\ 201 < 300
      BY DEF Codes
    <3> QED BY <1>4, <3>1, TurnOkIs
  <2> HIDE DEF p
  <2>2. p.listed = {} /\ p.keyed = {} /\ p.ruled = {} /\ p.late = "no"
    BY <1>1, <2>1 DEF SameLists
  <2>3. p.hash = q.hash /\ p.tenant = q.tenant /\ p.role = q.role
    BY <2>1 DEF SameAsk
  <2>4. CreateShape(p) /\ ManageShape(p) /\ AuthShape(p) /\ LateShape(p)
    BY <2>1, <2>2 DEF CreateShape, ManageShape, AuthShape, LateShape, InTx, Managing
  <2>5. ListShape(p) /\ AnswerShape(p)
    BY <1>4, <2>1, <2>2, <2>3 DEF ListShape, AnswerShape
  <2>6. KeyBacked(p, k) /\ ManageBacked(p, k) /\ NewBacked(p, t, k)
    BY <2>1 DEF KeyBacked, ManageBacked, NewBacked, Managing, Named, Hashed
  <2>7. LateBacked(p, t, k) /\ ListBacked(p, t) /\ AnswerBacked(p, t, k)
    BY <1>4, <2>1, <2>2, <2>3 DEF LateBacked, ListBacked, AnswerBacked
  <2>8. Shape(p) /\ Backed(p, t, k)
    BY <2>4, <2>5, <2>6, <2>7 DEF Shape, Backed
  <2> QED BY <1>4, <2>1, <2>8 DEF p
<1> QED BY <1>2, <1>3, <1>4

LEMMA CommitKeeps ==
  ASSUME IInv, UNCHANGED conns, NEW r \in Requests, Commit(r) \/ CommitUnheard(r)
  PROVE  IInv'
<1> DEFINE q == reqs[r]
<1>1. q \in ReqRecords /\ Shape(q) /\ Backed(q, tenants, keys)
  BY Standing
<1>2. q.pc = "commit" /\ Store(q)
  BY DEF Commit, CommitUnheard
<1>3. PICK code \in {201, 503} : Answer(r, code)
  BY DEF Commit, CommitUnheard
<1>4. /\ q.route = "create" /\ q.role = "admin" /\ q.tenant \in Names
      /\ q.hash \in Hashes /\ q.count \in 1..MaxRules
  <2>1. q.count \in 0..(MaxRules + 1) /\ MaxRules \in Nat
    BY <1>1, AccountsAssumption DEF ReqRecords, AccountsAssumption
  <2> QED BY <1>1, <1>2, <2>1 DEF Shape, CreateShape, InTx, ValidCount
<1>5. q.late = "no" /\ SameLists(q, IdleReq)
  BY <1>1, <1>2 DEF Shape, LateShape, ListShape, SameLists, IdleReq, Request
<1>6. tenants[q.tenant] = "none" /\ keys[q.hash] = NoRow
  BY <1>1, <1>2 DEF Backed, NewBacked, Named, Hashed
<1>7. /\ tenants \in [Names -> {"none", "active", "suspended"}]
      /\ keys \in [Hashes -> Rows] /\ rules \in [Names -> 0..MaxRules]
      /\ RowsOK /\ ProjectsWhole
  BY DEF IInv, TablesOK
<1> DEFINE row == Row(q.tenant, q.role)
<1>8. /\ row \in Rows /\ row # NoRow /\ row.tenant = q.tenant
      /\ row.status = "active" /\ row.role = "admin"
  BY <1>4 DEF Row, Rows, Statuses, Roles, NoRow
<1>9. /\ tenants' = [tenants EXCEPT ![q.tenant] = "active"]
      /\ keys' = [keys EXCEPT ![q.hash] = row]
      /\ rules' = [rules EXCEPT ![q.tenant] = q.count]
  BY <1>2 DEF Store
<1> HIDE DEF q, row
<1>10. /\ tenants'[q.tenant] = "active" /\ keys'[q.hash] = row /\ rules'[q.tenant] = q.count
       /\ \A n \in Names \ {q.tenant} : tenants'[n] = tenants[n] /\ rules'[n] = rules[n]
       /\ \A h \in Hashes \ {q.hash} : keys'[h] = keys[h]
  BY <1>4, <1>7, <1>9
<1>11. TablesOK'
  <2>1. /\ tenants' \in [Names -> {"none", "active", "suspended"}]
        /\ keys' \in [Hashes -> Rows]
    BY <1>7, <1>8, <1>9
  <2>2. rules' \in [Names -> 0..MaxRules]
    BY <1>4, <1>7, <1>9
  <2>3. RowsOK'
    BY <1>4, <1>7, <1>8, <1>10 DEF RowsOK
  <2>4. ASSUME NEW n \in Names, tenants'[n] # "none"
        PROVE  rules'[n] > 0 /\ \E h \in Hashes : keys'[h].tenant = n
    <3>1. CASE n = q.tenant
      BY <1>4, <1>8, <1>10, <3>1
    <3>2. CASE n # q.tenant
      <4>1. rules[n] > 0 /\ \E h \in Hashes : keys[h].tenant = n
        BY <1>7, <1>10, <2>4, <3>2 DEF ProjectsWhole
      <4>2. keys[q.hash].tenant # n
        BY <1>6, AccountsAssumption DEF NoRow, AccountsAssumption
      <4> QED BY <1>10, <3>2, <4>1, <4>2
    <3> QED BY <3>1, <3>2
  <2>5. ASSUME NEW h \in Hashes, keys'[h] # NoRow
        PROVE  tenants'[keys'[h].tenant] # "none"
    <3>1. CASE h = q.hash
      BY <1>8, <1>10, <3>1
    <3>2. CASE h # q.hash
      <4>1. keys'[h] = keys[h] /\ keys[h].tenant \in Names /\ tenants[keys[h].tenant] # "none"
        BY <1>7, <1>10, <2>5, <3>2 DEF RowsOK, ProjectsWhole
      <4> QED BY <1>10, <4>1
    <3> QED BY <3>1, <3>2
  <2> QED BY <2>1, <2>2, <2>3, <2>4, <2>5 DEF TablesOK, ProjectsWhole
<1>12. Growth
  BY <1>6, <1>10 DEF Growth
<1>13. \A s \in Requests \ {r} : Backed(reqs[s], tenants', keys')
  <2> TAKE s \in Requests \ {r}
  <2>1. reqs[s] \in ReqRecords /\ Shape(reqs[s]) /\ Backed(reqs[s], tenants, keys)
    BY Standing
  <2>2. ApartFrom(reqs[s], q)
    BY DEF q, IInv, ReqsOK
  <2>3. reqs[s].pc \in Named => reqs[s].tenant \in Names /\ reqs[s].tenant # q.tenant
    BY <1>2, <2>1, <2>2 DEF Shape, CreateShape, ApartFrom, Named, InTx, q
  <2>4. reqs[s].pc \in Hashed => reqs[s].hash \in Hashes /\ reqs[s].hash # q.hash
    BY <1>2, <2>1, <2>2 DEF Shape, CreateShape, ApartFrom, Hashed, InTx, q
  <2>5. NewBacked(reqs[s], tenants', keys')
    BY <1>10, <2>1, <2>3, <2>4 DEF Backed, NewBacked
  <2> QED BY <1>12, <2>5, Grown
<1> DEFINE p == Turn(q, code)
<1>14. /\ p \in ReqRecords /\ Shape(p) /\ Backed(p, tenants', keys')
       /\ p.pc = "done" /\ p.answer = code
       /\ code = 201 => SameAsk(p, q)
  <2>1. /\ keys'[q.hash] # NoRow /\ tenants'[q.tenant] # "none"
        /\ keys'[q.hash].tenant = q.tenant /\ keys'[q.hash].role = q.role
    BY <1>4, <1>8, <1>10
  <2> QED BY <1>1, <1>4, <1>5, <2>1, Written
<1>15. reqs' = [reqs EXCEPT ![r] = p]
  BY <1>3 DEF Answer, q
<1> HIDE DEF p
<1>16. \A s \in Requests \ {r} : ApartFrom(reqs[s], p)
  <2> TAKE s \in Requests \ {r}
  <2>1. reqs[s].answer = 201 => keys[reqs[s].hash] # NoRow /\ tenants[reqs[s].tenant] # "none"
    BY Standing DEF Backed, AnswerBacked
  <2>2. p.answer = 201 => p.hash = q.hash /\ p.tenant = q.tenant
    BY <1>14 DEF SameAsk
  <2> QED BY <1>6, <1>14, <2>1, <2>2 DEF ApartFrom, Named, Hashed
<1>17. p.pc \notin Holding
  BY <1>14 DEF Holding, InTx
<1>18. MovesTo(r, p)
  BY <1>13, <1>14, <1>15, <1>16, <1>17 DEF MovesTo
<1> QED BY <1>11, <1>18, Move

LEMMA AddKeeps ==
  ASSUME IInv, UNCHANGED conns, NEW r \in Requests, AddAPIKey(r) \/ AddUnheard(r)
  PROVE  IInv'
<1> DEFINE q == reqs[r]
<1>1. q \in ReqRecords /\ Shape(q) /\ Backed(q, tenants, keys)
  BY Standing
<1>2. q.pc = "adding" /\ UNCHANGED <<tenants, rules>>
  BY DEF AddAPIKey, AddUnheard
<1>3. /\ q.tenant \in Names /\ q.hash \in Hashes /\ q.role \in {"admin", "check"}
      /\ q.route = "add"
  BY <1>1, <1>2 DEF Shape, ManageShape, Managing
<1>4. q.late = "no" /\ SameLists(q, IdleReq)
  BY <1>1, <1>2 DEF Shape, LateShape, ListShape, SameLists, IdleReq, Request
<1>5. CASE UNCHANGED keys /\ \E code \in {404, 409} : Answer(r, code)
  <2>1. UNCHANGED Tables
    BY <1>2, <1>5 DEF Tables
  <2>2. PICK code \in {404, 409} : Answer(r, code)
    BY <1>5
  <2> QED BY <1>4, <2>1, <2>2, AnswerFails
<1>6. CASE /\ tenants[q.tenant] # "none" /\ ~HashPending(r) /\ keys[q.hash] = NoRow
           /\ AddRow(q) /\ \E code \in {201, 503} : Answer(r, code)
  <2>1. PICK code \in {201, 503} : Answer(r, code)
    BY <1>6
  <2>2. /\ tenants \in [Names -> {"none", "active", "suspended"}]
        /\ keys \in [Hashes -> Rows] /\ rules \in [Names -> 0..MaxRules]
        /\ RowsOK /\ ProjectsWhole
    BY DEF IInv, TablesOK
  <2> DEFINE row == Row(q.tenant, q.role)
  <2>3. /\ row \in Rows /\ row # NoRow /\ row.tenant = q.tenant
        /\ row.status = "active" /\ row.role = q.role
    BY <1>3 DEF Row, Rows, Statuses, Roles, NoRow
  <2>4. /\ tenants' = tenants /\ rules' = rules /\ keys' = [keys EXCEPT ![q.hash] = row]
        /\ keys[q.hash] = NoRow /\ tenants[q.tenant] # "none"
    BY <1>2, <1>6 DEF AddRow
  <2>5. \A s \in Requests \ {r} : reqs[s].pc \in Hashed => reqs[s].hash # q.hash
    BY <1>6 DEF HashPending, InTx, Hashed
  <2> HIDE DEF q, row
  <2>6. keys'[q.hash] = row /\ \A h \in Hashes \ {q.hash} : keys'[h] = keys[h]
    BY <1>3, <2>2, <2>4
  <2>7. TablesOK'
    <3>1. /\ tenants' \in [Names -> {"none", "active", "suspended"}]
          /\ keys' \in [Hashes -> Rows] /\ rules' \in [Names -> 0..MaxRules]
      BY <2>2, <2>3, <2>4
    <3>2. RowsOK'
      BY <1>3, <2>2, <2>3, <2>6 DEF RowsOK
    <3>3. ASSUME NEW n \in Names, tenants'[n] # "none"
          PROVE  rules'[n] > 0 /\ \E h \in Hashes : keys'[h].tenant = n
      <4>1. rules[n] > 0 /\ \E h \in Hashes : keys[h].tenant = n
        BY <2>2, <2>4, <3>3 DEF ProjectsWhole
      <4>2. keys[q.hash].tenant # n
        BY <2>4, AccountsAssumption DEF NoRow, AccountsAssumption
      <4> QED BY <2>4, <2>6, <4>1, <4>2
    <3>4. ASSUME NEW h \in Hashes, keys'[h] # NoRow
          PROVE  tenants'[keys'[h].tenant] # "none"
      BY <2>2, <2>3, <2>4, <2>6, <3>4 DEF ProjectsWhole
    <3> QED BY <3>1, <3>2, <3>3, <3>4 DEF TablesOK, ProjectsWhole
  <2>8. Growth
    BY <2>4, <2>6 DEF Growth
  <2>9. \A s \in Requests \ {r} : Backed(reqs[s], tenants', keys')
    <3> TAKE s \in Requests \ {r}
    <3>1. Shape(reqs[s]) /\ Backed(reqs[s], tenants, keys)
      BY Standing
    <3>2. reqs[s].pc \in Hashed => reqs[s].hash \in Hashes /\ reqs[s].hash # q.hash
      BY <2>5, <3>1 DEF Shape, CreateShape, Hashed, InTx
    <3>3. NewBacked(reqs[s], tenants', keys')
      BY <2>4, <2>6, <3>1, <3>2 DEF Backed, NewBacked
    <3> QED BY <2>8, <3>3, Grown
  <2> DEFINE p == Turn(q, code)
  <2>10. /\ p \in ReqRecords /\ Shape(p) /\ Backed(p, tenants', keys')
         /\ p.pc = "done" /\ p.answer = code
         /\ code = 201 => SameAsk(p, q)
    <3>1. /\ keys'[q.hash] # NoRow /\ tenants'[q.tenant] # "none"
          /\ keys'[q.hash].tenant = q.tenant /\ keys'[q.hash].role = q.role
      BY <2>3, <2>4, <2>6
    <3> QED BY <1>1, <1>3, <1>4, <3>1, Written
  <2>11. reqs' = [reqs EXCEPT ![r] = p]
    BY <2>1 DEF Answer, q
  <2> HIDE DEF p
  <2>12. \A s \in Requests \ {r} : ApartFrom(reqs[s], p)
    <3> TAKE s \in Requests \ {r}
    <3>1. reqs[s].answer = 201 => keys[reqs[s].hash] # NoRow
      BY Standing DEF Backed, AnswerBacked
    <3>2. p.answer = 201 => p.hash = q.hash /\ p.route = "add"
      BY <1>3, <2>10 DEF SameAsk
    <3> QED BY <2>4, <2>10, <3>1, <3>2 DEF ApartFrom, Named, Hashed
  <2>13. p.pc \notin Holding
    BY <2>10 DEF Holding, InTx
  <2>14. MovesTo(r, p)
    BY <2>9, <2>10, <2>11, <2>12, <2>13 DEF MovesTo
  <2> QED BY <2>7, <2>14, Move
<1>7. AddAPIKey(r) \/ AddUnheard(r) => (tenants[q.tenant] # "none" => ~HashPending(r))
  BY <1>2 DEF AddAPIKey, AddUnheard, Waits
<1> QED BY <1>5, <1>6, <1>7 DEF AddAPIKey, AddUnheard

LEMMA RevokeKeeps ==
  ASSUME IInv, UNCHANGED conns, NEW r \in Requests, RevokeAPIKey(r) \/ RevokeUnheard(r)
  PROVE  IInv'
<1> DEFINE q == reqs[r]
<1>1. q \in ReqRecords /\ Shape(q) /\ Backed(q, tenants, keys)
  BY Standing
<1>2. q.pc = "revoke" /\ UNCHANGED <<tenants, rules>>
  BY DEF RevokeAPIKey, RevokeUnheard
<1>3. q.tenant \in Names /\ q.hash \in Hashes
  BY <1>1, <1>2 DEF Shape, ManageShape, Managing
<1>4. q.late = "no" /\ SameLists(q, IdleReq)
  BY <1>1, <1>2 DEF Shape, LateShape, ListShape, SameLists, IdleReq, Request
<1>5. CASE UNCHANGED keys /\ Answer(r, 404)
  <2>1. UNCHANGED Tables
    BY <1>2, <1>5 DEF Tables
  <2> QED BY <1>4, <1>5, <2>1, AnswerFails
<1>6. CASE Owned(q) /\ RevokeRow(q) /\ \E code \in {204, 503} : Answer(r, code)
  <2>1. PICK code \in {204, 503} : Answer(r, code)
    BY <1>6
  <2>2. /\ tenants \in [Names -> {"none", "active", "suspended"}]
        /\ keys \in [Hashes -> Rows] /\ rules \in [Names -> 0..MaxRules]
        /\ RowsOK /\ ProjectsWhole
    BY DEF IInv, TablesOK
  <2> DEFINE row == [keys[q.hash] EXCEPT !.status = "revoked"]
  <2>3. keys[q.hash] # NoRow /\ keys[q.hash] \in Rows
    BY <1>3, <1>6, <2>2, AccountsAssumption DEF Owned, NoRow, AccountsAssumption
  <2>4. /\ row \in Rows /\ row.status = "revoked"
        /\ row.tenant = keys[q.hash].tenant /\ row.role = keys[q.hash].role
    BY <2>3 DEF Rows, Statuses
  <2>5. row # NoRow
    BY <2>4 DEF NoRow
  <2>6. tenants' = tenants /\ rules' = rules /\ keys' = [keys EXCEPT ![q.hash] = row]
    BY <1>2, <1>6, <2>2 DEF RevokeRow
  <2> HIDE DEF q, row
  <2>7. keys'[q.hash] = row /\ \A h \in Hashes \ {q.hash} : keys'[h] = keys[h]
    BY <1>3, <2>2, <2>6
  <2>8. TablesOK'
    <3>1. /\ tenants' \in [Names -> {"none", "active", "suspended"}]
          /\ keys' \in [Hashes -> Rows] /\ rules' \in [Names -> 0..MaxRules]
      BY <2>2, <2>4, <2>6
    <3>2. RowsOK'
      BY <1>3, <2>2, <2>3, <2>4, <2>7 DEF RowsOK
    <3>3. ASSUME NEW n \in Names, tenants'[n] # "none"
          PROVE  rules'[n] > 0 /\ \E h \in Hashes : keys'[h].tenant = n
      <4>1. rules[n] > 0 /\ \E h \in Hashes : keys[h].tenant = n
        BY <2>2, <2>6, <3>3 DEF ProjectsWhole
      <4> QED BY <2>4, <2>6, <2>7, <4>1
    <3>4. ASSUME NEW h \in Hashes, keys'[h] # NoRow
          PROVE  tenants'[keys'[h].tenant] # "none"
      BY <1>3, <2>2, <2>3, <2>4, <2>6, <2>7, <3>4 DEF ProjectsWhole
    <3> QED BY <3>1, <3>2, <3>3, <3>4 DEF TablesOK, ProjectsWhole
  <2>9. Growth
    BY <2>4, <2>5, <2>6, <2>7 DEF Growth
  <2>10. \A s \in Requests \ {r} : Backed(reqs[s], tenants', keys')
    <3> TAKE s \in Requests \ {r}
    <3>1. Shape(reqs[s]) /\ Backed(reqs[s], tenants, keys)
      BY Standing
    <3>2. reqs[s].pc \in Hashed => reqs[s].hash \in Hashes /\ reqs[s].hash # q.hash
      BY <2>3, <3>1 DEF Shape, CreateShape, Backed, NewBacked, Hashed, InTx
    <3>3. NewBacked(reqs[s], tenants', keys')
      BY <2>6, <2>7, <3>1, <3>2 DEF Backed, NewBacked
    <3> QED BY <2>9, <3>3, Grown
  <2> DEFINE p == Turn(q, code)
  <2>11. /\ p \in ReqRecords /\ Shape(p) /\ Backed(p, tenants', keys')
         /\ p.pc = "done" /\ p.answer # 201
    BY <1>1, <1>4, Written
  <2>12. reqs' = [reqs EXCEPT ![r] = p]
    BY <2>1 DEF Answer, q
  <2> HIDE DEF p
  <2>13. \A s \in Requests \ {r} : ApartFrom(reqs[s], p)
    BY <2>11 DEF ApartFrom, Named, Hashed
  <2>14. p.pc \notin Holding
    BY <2>11 DEF Holding, InTx
  <2>15. MovesTo(r, p)
    BY <2>10, <2>11, <2>12, <2>13, <2>14 DEF MovesTo
  <2> QED BY <2>8, <2>15, Move
<1> QED BY <1>5, <1>6 DEF RevokeAPIKey, RevokeUnheard

-----------------------------------------------------------------------------
(* Suspension *)

\* A project's status changes, and no project comes or goes.
LEMMA StatusTables ==
  ASSUME TablesOK, NEW n \in Names, NEW status \in {"active", "suspended"},
         tenants[n] # "none", tenants' = [tenants EXCEPT ![n] = status],
         keys' = keys, rules' = rules
  PROVE  /\ TablesOK'
         /\ tenants'[n] = status /\ \A m \in Names \ {n} : tenants'[m] = tenants[m]
         /\ \A m \in Names : tenants'[m] = "none" <=> tenants[m] = "none"
<1>1. /\ tenants \in [Names -> {"none", "active", "suspended"}]
      /\ keys \in [Hashes -> Rows] /\ rules \in [Names -> 0..MaxRules]
      /\ RowsOK /\ ProjectsWhole
  BY DEF TablesOK
<1>2. tenants' \in [Names -> {"none", "active", "suspended"}]
  BY <1>1
<1>3. /\ tenants'[n] = status /\ \A m \in Names \ {n} : tenants'[m] = tenants[m]
      /\ \A m \in Names : tenants'[m] = "none" <=> tenants[m] = "none"
  BY <1>1
<1>4. RowsOK'
  BY <1>1 DEF RowsOK
<1>5. ProjectsWhole'
  BY <1>1, <1>3 DEF ProjectsWhole, RowsOK
<1> QED BY <1>1, <1>2, <1>3, <1>4, <1>5 DEF TablesOK

\* A request stays backed, unless it waited for a suspended project.
LEMMA StatusBacked ==
  ASSUME IInv, NEW s \in Requests,
         \A m \in Names : tenants'[m] = "none" <=> tenants[m] = "none", keys' = keys,
         LateBacked(reqs[s], tenants', keys')
  PROVE  Backed(reqs[s], tenants', keys')
<1> DEFINE q == reqs[s]
<1>1. q \in ReqRecords /\ Shape(q) /\ Backed(q, tenants, keys)
  BY Standing
<1>2. KeyBacked(q, keys') /\ ManageBacked(q, keys')
  BY <1>1 DEF Backed
<1>3. NewBacked(q, tenants', keys')
  BY <1>1 DEF Backed, NewBacked, Shape, CreateShape, Named, Hashed, InTx
<1>4. ListBacked(q, tenants')
  BY <1>1 DEF Backed, ListBacked, ReqRecords
<1>5. AnswerBacked(q, tenants', keys')
  BY <1>1 DEF Backed, AnswerBacked, Shape, AnswerShape
<1> QED BY <1>2, <1>3, <1>4, <1>5 DEF Backed

LEMMA SuspendKeeps ==
  ASSUME IInv, UNCHANGED conns, NEW n \in Names, Suspend(n)
  PROVE  IInv'
<1>1. /\ tenants[n] = "active" /\ tenants' = [tenants EXCEPT ![n] = "suspended"]
      /\ keys' = keys /\ rules' = rules /\ reqs' = reqs
  BY DEF Suspend
<1>2. /\ TablesOK'
      /\ tenants'[n] = "suspended" /\ \A m \in Names \ {n} : tenants'[m] = tenants[m]
      /\ \A m \in Names : tenants'[m] = "none" <=> tenants[m] = "none"
  BY <1>1, StatusTables DEF IInv
<1>3. ASSUME NEW s \in Requests
      PROVE  Backed(reqs[s], tenants', keys')
  <2>1. LateBacked(reqs[s], tenants, keys) /\ LateShape(reqs[s])
    BY Standing DEF Backed, Shape
  <2>2. \A h \in Hashes : keys[h] # NoRow => keys[h].tenant \in Names
    BY DEF IInv, TablesOK, RowsOK
  <2>3. LateBacked(reqs[s], tenants', keys')
    BY <1>1, <1>2, <2>1, <2>2 DEF LateBacked, LateShape
  <2> QED BY <1>1, <1>2, <2>3, StatusBacked
<1>4. ConnsOK'
  BY <1>1 DEF IInv, ConnsOK, Holders
<1>5. ReqsOK'
  BY <1>1, <1>3 DEF IInv, ReqsOK
<1> QED BY <1>2, <1>4, <1>5 DEF IInv

LEMMA ReactivateKeeps ==
  ASSUME IInv, UNCHANGED conns, NEW n \in Names, Reactivate(n)
  PROVE  IInv'
<1>1. /\ tenants[n] = "suspended" /\ tenants' = [tenants EXCEPT ![n] = "active"]
      /\ keys' = keys /\ rules' = rules
      /\ reqs' = [r \in Requests |->
           IF reqs[r].late = "suspended" /\ keys[reqs[r].cred].tenant = n
           THEN [reqs[r] EXCEPT !.late = "no"] ELSE reqs[r]]
  BY DEF Reactivate
<1>2. /\ TablesOK'
      /\ tenants'[n] = "active" /\ \A m \in Names \ {n} : tenants'[m] = tenants[m]
      /\ \A m \in Names : tenants'[m] = "none" <=> tenants[m] = "none"
  BY <1>1, StatusTables DEF IInv
\* A request p that is q, or q that no longer waits.
<1> DEFINE Alike(p, q) ==
      /\ p \in ReqRecords /\ SameAsk(p, q) /\ SameLists(p, q)
      /\ p.pc = q.pc /\ p.key = q.key /\ p.answer = q.answer
<1>3. ASSUME NEW s \in Requests
      PROVE  /\ Alike(reqs'[s], reqs[s])
             /\ Shape(reqs'[s]) /\ Backed(reqs'[s], tenants', keys')
  <2> DEFINE q == reqs[s]
             p == [q EXCEPT !.late = "no"]
  <2>1. q \in ReqRecords /\ Shape(q) /\ Backed(q, tenants, keys)
    BY Standing
  <2>2. \A h \in Hashes : keys[h] # NoRow => keys[h].tenant \in Names
    BY DEF IInv, TablesOK, RowsOK
  <2>3. CASE q.late = "suspended" /\ keys[q.cred].tenant = n
    <3>1. reqs'[s] = p
      BY <1>1, <2>3
    <3>2. Alike(p, q) /\ p.late = "no"
      BY <2>1 DEF ReqRecords, SameAsk, SameLists
    <3> HIDE DEF p
    <3>3. q.pc \in {"find_key", "get_tenant", "done"} /\ q.answer \in {0, 401, 403, 503}
      BY <2>1, <2>3 DEF Shape, LateShape
    <3>4. CreateShape(p) /\ ManageShape(p) /\ LateShape(p)
      BY <3>2, <3>3 DEF CreateShape, ManageShape, LateShape, InTx, Managing
    <3>5. AuthShape(p)
      BY <2>1, <3>2 DEF AuthShape, Shape, SameAsk
    <3>6. ListShape(p)
      BY <2>1, <3>2, <3>3 DEF ListShape, Shape, SameLists
    <3>7. AnswerShape(p)
      BY <2>1, <3>2, <3>3 DEF AnswerShape, Shape
    <3>8. KeyBacked(p, keys')
      BY <1>1, <2>1, <3>2 DEF KeyBacked, Backed, SameAsk
    <3>9. ManageBacked(p, keys') /\ NewBacked(p, tenants', keys')
      BY <3>2, <3>3 DEF ManageBacked, NewBacked, Managing, Named, Hashed
    <3>10. LateBacked(p, tenants', keys') /\ AnswerBacked(p, tenants', keys')
      BY <3>2, <3>3 DEF LateBacked, AnswerBacked
    <3>11. ListBacked(p, tenants')
      BY <1>2, <2>1, <3>2 DEF ListBacked, Backed, SameLists, ReqRecords
    <3> QED BY <3>1, <3>2, <3>4, <3>5, <3>6, <3>7, <3>8, <3>9, <3>10, <3>11
            DEF Shape, Backed
  <2>4. CASE ~(q.late = "suspended" /\ keys[q.cred].tenant = n)
    <3>1. reqs'[s] = q
      BY <1>1, <2>4
    <3>2. LateBacked(q, tenants', keys')
      <4>1. LateBacked(q, tenants, keys) /\ (q.late # "no" => q.cred \in Hashes)
        BY <2>1 DEF Backed, Shape, LateShape
      <4> QED BY <1>1, <1>2, <2>2, <2>4, <4>1 DEF LateBacked
    <3>3. Backed(q, tenants', keys')
      BY <1>1, <1>2, <3>2, StatusBacked
    <3>4. Alike(q, q)
      BY <2>1 DEF SameAsk, SameLists
    <3> QED BY <2>1, <3>1, <3>3, <3>4
  <2> QED BY <2>3, <2>4
<1>4. reqs' \in [Requests -> ReqRecords]
  BY <1>1, <1>3
<1>5. ConnsOK'
  <2>1. \A s \in Requests : reqs'[s].pc = reqs[s].pc
    BY <1>3
  <2>2. Holders' = Holders
    BY <2>1 DEF Holders
  <2> QED BY <2>2 DEF IInv, ConnsOK
<1>6. \A s, u \in Requests : s # u => ApartFrom(reqs'[s], reqs'[u])
  <2> TAKE s, u \in Requests
  <2> HAVE s # u
  <2>1. ApartFrom(reqs[s], reqs[u])
    BY DEF IInv, ReqsOK
  <2>2. Alike(reqs'[s], reqs[s]) /\ Alike(reqs'[u], reqs[u])
    BY <1>3
  <2> QED BY <2>1, <2>2 DEF ApartFrom, SameAsk
<1>7. ReqsOK'
  BY <1>3, <1>4, <1>6 DEF ReqsOK
<1> QED BY <1>2, <1>5, <1>7 DEF IInv

-----------------------------------------------------------------------------
(* The invariant *)

LEMMA InitIInv == Init => IInv
<1> SUFFICES ASSUME Init PROVE IInv
  OBVIOUS
<1>1. reqs = [r \in Requests |-> IdleReq]
  BY DEF Init
<1>2. /\ MaxRules \in Nat \ {0} /\ Nobody \notin Names
      /\ MaxConns \in Nat \ {0}
  BY AccountsAssumption DEF AccountsAssumption
<1>3. TablesOK
  <2>1. CASE Empty
    <3>1. \A n \in Names : tenants[n] = "none"
      BY <2>1 DEF Empty
    <3>2. \A h \in Hashes : keys[h] = NoRow
      BY <2>1 DEF Empty
    <3>3. /\ tenants \in [Names -> {"none", "active", "suspended"}]
          /\ keys \in [Hashes -> Rows] /\ rules \in [Names -> 0..MaxRules]
      BY <1>2, <2>1, IdleIs DEF Empty
    <3> QED BY <3>1, <3>2, <3>3 DEF TablesOK, RowsOK, ProjectsWhole
  <2>2. CASE Seeded
    <3>1. PICK m \in Names, g \in Hashes :
            /\ tenants = [n \in Names |-> IF n = m THEN "active" ELSE "none"]
            /\ keys = [h \in Hashes |-> IF h = g THEN Row(m, "check") ELSE NoRow]
            /\ rules = [n \in Names |-> IF n = m THEN MaxRules ELSE 0]
      BY <2>2 DEF Seeded
    <3>2. /\ Row(m, "check") \in Rows /\ Row(m, "check").tenant = m
          /\ Row(m, "check").status = "active" /\ Row(m, "check").role = "check"
      BY DEF Row, Rows, Statuses, Roles
    <3>3. /\ tenants \in [Names -> {"none", "active", "suspended"}]
          /\ keys \in [Hashes -> Rows]
      BY <3>1, <3>2, IdleIs
    <3>4. rules \in [Names -> 0..MaxRules]
      BY <1>2, <3>1
    <3>5. RowsOK
      BY <3>1, <3>2 DEF RowsOK
    <3>6. ProjectsWhole
      BY <1>2, <3>1, <3>2 DEF ProjectsWhole
    <3> QED BY <3>3, <3>4, <3>5, <3>6 DEF TablesOK
  <2> QED BY <2>1, <2>2 DEF Init
<1>4. ReqsOK
  <2> DEFINE p == IdleReq
  <2>1. /\ p \in ReqRecords /\ p.pc = "idle" /\ p.late = "no" /\ p.answer = 0
        /\ p.listed = {} /\ p.keyed = {} /\ p.ruled = {}
    BY IdleIs DEF IdleReq, Request
  <2>2. AnswerShape(p)
    BY <2>1 DEF AnswerShape
  <2> HIDE DEF p
  <2>3. Shape(p)
    BY <2>1, <2>2 DEF Shape, CreateShape, ManageShape, AuthShape, LateShape, ListShape,
       InTx, Managing
  <2>4. Backed(p, tenants, keys)
    BY <2>1 DEF Backed, KeyBacked, ManageBacked, NewBacked, LateBacked, ListBacked,
       AnswerBacked, Managing, Named, Hashed
  <2>5. ApartFrom(p, p)
    BY <2>1 DEF ApartFrom, Named, Hashed
  <2>6. \A r \in Requests : reqs[r] = p
    BY <1>1 DEF p
  <2>7. reqs \in [Requests -> ReqRecords]
    BY <1>1, <2>1 DEF p
  <2> QED BY <2>3, <2>4, <2>5, <2>6, <2>7 DEF ReqsOK
<1>5. ConnsOK
  <2>1. Holders = {}
    BY <1>1 DEF Holders, IdleReq, Request, InTx
  <2>2. Cardinality(Holders) = 0
    BY <2>1, FS_EmptySet
  <2>3. conns \in 1..MaxConns
    BY DEF Init
  <2> QED BY <1>2, <2>2, <2>3 DEF ConnsOK
<1> QED BY <1>3, <1>4, <1>5 DEF IInv

LEMMA StepIInv == IInv /\ [Next]_vars => IInv'
<1> SUFFICES ASSUME IInv, [Next]_vars PROVE IInv'
  OBVIOUS
<1>0. UNCHANGED conns
  BY DEF Next, vars
<1> USE <1>0
<1>1. ASSUME NEW r \in Requests, Serve(r)
      PROVE  IInv'
  <2>1. CASE FindByHash(r) \/ GetByID(r)
    BY <2>1, FindByHashKeeps, GetByIDKeeps
  <2>2. CASE Begin(r) \/ InsertTenant(r) \/ InsertKey(r) \/ InsertRules(r)
    BY <2>2, TransactionKeeps
  <2>3. CASE Commit(r) \/ AcquireConn(r) \/ AddAPIKey(r) \/ RevokeAPIKey(r)
    BY <2>3, CommitKeeps, AcquireConnKeeps, AddKeeps, RevokeKeeps
  <2>4. CASE ListTenants(r) \/ ListTenantRules(r) \/ GetProject(r) \/ ListProjects(r)
    BY <2>4, ReadsKeep DEF GetProject, ListProjects
  <2> QED BY <1>1, <2>1, <2>2, <2>3, <2>4 DEF Serve
<1>2. ASSUME NEW r \in Requests,
             Arrive(r) \/ Answered(r) \/ CommitUnheard(r) \/ AddUnheard(r)
               \/ RevokeUnheard(r) \/ Fails(r)
      PROVE  IInv'
  BY <1>2, ArriveKeeps, AnsweredKeeps, CommitKeeps, AddKeeps, RevokeKeeps, FailsKeep
<1>3. ASSUME NEW n \in Names, Suspend(n) \/ Reactivate(n)
      PROVE  IInv'
  BY <1>3, SuspendKeeps, ReactivateKeeps
<1>4. CASE UNCHANGED vars
  <2>1. tenants' = tenants /\ keys' = keys /\ rules' = rules /\ reqs' = reqs
    BY <1>4 DEF vars
  <2> QED BY <2>1 DEF IInv, TablesOK, RowsOK, ProjectsWhole, ReqsOK, ConnsOK, Holders
<1> QED BY <1>1, <1>2, <1>3, <1>4 DEF Next

LEMMA Invariance == Spec => []IInv
  BY InitIInv, StepIInv, PTL DEF Spec

-----------------------------------------------------------------------------
(* Theorems *)

(***************************************************************************)
(* Types, and the pool never lends more connections than it has: TypeOK    *)
(* (pgxpool, as project_repository.go and api_key_repository.go use it).   *)
(***************************************************************************)
THEOREM TypeCorrect == Spec => []TypeOK
<1>1. IInv => TypeOK
  <2> SUFFICES ASSUME IInv PROVE TypeOK
    OBVIOUS
  <2>1. ASSUME NEW r \in Requests
        PROVE  /\ reqs[r].route \in Routes \cup {"none"}
               /\ reqs[r].cred \in Hashes \cup {Operator, Nobody}
               /\ reqs[r].tenant \in Names \cup {Nobody}
               /\ reqs[r].hash \in Hashes \cup {Nobody}
               /\ reqs[r].key \in Rows
               /\ reqs[r].answer \in {0, 200, 201, 204, 400, 401, 403, 404, 409, 503}
    BY Standing DEF ReqRecords, Codes
  <2> QED BY <2>1 DEF TypeOK, IInv, TablesOK, ConnsOK
<1> QED BY <1>1, Invariance, PTL

(***************************************************************************)
(* A project that is in the tables has rules and a key, and a key has its  *)
(* project, whatever fails and whoever competes: ProjectsWhole             *)
(* (project_repository.go, CreateProject's transaction).                   *)
(***************************************************************************)
THEOREM ProjectsAreWhole == Spec => []ProjectsWhole
<1>1. IInv => ProjectsWhole
  BY DEF IInv, TablesOK
<1> QED BY <1>1, Invariance, PTL

(***************************************************************************)
(* GetProject and ListProjects, which read three tables with no            *)
(* transaction, show no project without its keys and rules: ListingsWhole. *)
(***************************************************************************)
THEOREM ListingsAreWhole == Spec => []ListingsWhole
<1>1. IInv => ListingsWhole
  BY Standing DEF ListingsWhole, Shape, ListShape
<1> QED BY <1>1, Invariance, PTL

(***************************************************************************)
(* Of the requests that compete for a name or a hash one is answered 201,  *)
(* and it has what it asked for: CreatedIsOwned (CreateProject and         *)
(* AddAPIKey).                                                             *)
(***************************************************************************)
THEOREM CreatedOwned == Spec => []CreatedIsOwned
<1>1. IInv => CreatedIsOwned
  <2> SUFFICES ASSUME IInv, NEW r \in Requests, reqs[r].answer = 201
               PROVE  /\ keys[reqs[r].hash].tenant = reqs[r].tenant
                      /\ keys[reqs[r].hash].role = reqs[r].role
                      /\ \A s \in Requests \ {r} : reqs[s].answer = 201 =>
                           /\ reqs[s].hash # reqs[r].hash
                           /\ ~(/\ reqs[s].route = "create" /\ reqs[r].route = "create"
                                /\ reqs[s].tenant = reqs[r].tenant)
    BY DEF CreatedIsOwned
  <2>1. /\ keys[reqs[r].hash].tenant = reqs[r].tenant
        /\ keys[reqs[r].hash].role = reqs[r].role
    BY Standing DEF Backed, AnswerBacked
  <2>2. \A s \in Requests \ {r} : ApartFrom(reqs[s], reqs[r])
    BY DEF IInv, ReqsOK
  <2> QED BY <2>1, <2>2 DEF ApartFrom
<1> QED BY <1>1, Invariance, PTL

(***************************************************************************)
(* A request whose key was revoked before its last authentication began,   *)
(* or whose project was suspended when that began or when it found the key *)
(* and has been so since, gets no further than authentication:             *)
(* RefusalIsFinal (Authenticate's two queries, RequireCheckRole's second   *)
(* authentication).                                                        *)
(***************************************************************************)
THEOREM LateIsRefused == Spec => []RefusalIsFinal
<1>1. IInv => RefusalIsFinal
  BY Standing DEF RefusalIsFinal, Shape, LateShape
<1> QED BY <1>1, Invariance, PTL

\* Names are waited for before hashes are: a transaction that has its key waits
\* for nothing, so a hash is pending only while someone goes on, and a name only
\* while someone has got further.
LEMMA HolderGoesOn == Holders # {} => \E r \in Holders : ~Waits(r)
<1> SUFFICES ASSUME NEW r \in Requests, r \in Holders
             PROVE  \E s \in Holders : ~Waits(s)
  BY DEF Holders
<1>1. r \in Holders /\ reqs[r].pc \in {"insert_tenant", "adding"} \cup Named
  BY DEF Holders, InTx, Named
<1>2. CASE \E s \in Requests : reqs[s].pc \in Hashed
  <2>1. PICK s \in Requests : reqs[s].pc \in Hashed
    BY <1>2
  <2>2. s \in Holders /\ ~Waits(s)
    BY <2>1 DEF Holders, Waits, Hashed, InTx
  <2> QED BY <2>2
<1>3. CASE ~\E s \in Requests : reqs[s].pc \in Hashed
  <2>1. \A s \in Requests : ~HashPending(s)
    BY <1>3 DEF HashPending, Hashed, InTx
  <2>2. \A s \in Requests : reqs[s].pc \in {"insert_key", "adding"} => s \in Holders /\ ~Waits(s)
    BY <2>1 DEF Holders, Waits, InTx
  <2>3. CASE reqs[r].pc = "insert_tenant" /\ NamePending(r)
    <3>1. PICK s \in Requests : reqs[s].pc \in InTx \ {"insert_tenant"}
      BY <2>3 DEF NamePending
    <3>2. reqs[s].pc = "insert_key"
      BY <1>3, <3>1 DEF Hashed, InTx
    <3> QED BY <2>2, <3>2
  <2>4. CASE reqs[r].pc = "insert_tenant" /\ ~NamePending(r)
    BY <1>1, <2>4 DEF Waits, InTx
  <2>5. CASE reqs[r].pc # "insert_tenant"
    BY <1>1, <1>3, <2>2, <2>5 DEF Named, Hashed
  <2> QED BY <2>3, <2>4, <2>5
<1> QED BY <1>2, <1>3

(***************************************************************************)
(* Of the requests in progress one can go on, and of those that hold       *)
(* connections too, with any number of both: NoStandstill (CreateProject's *)
(* transaction inserts the tenant before the key and takes one connection; *)
(* AddAPIKey waits with nothing inserted).                                 *)
(***************************************************************************)
THEOREM SomeoneGoesOn == Spec => []NoStandstill
<1>1. IInv => NoStandstill
  <2> SUFFICES ASSUME IInv PROVE NoStandstill
    OBVIOUS
  <2>1. CASE Holders # {}
    <3>1. Holders \subseteq InProgress
      BY DEF Holders, InProgress, InTx
    <3> QED BY <2>1, <3>1, HolderGoesOn DEF NoStandstill
  <2>2. CASE Holders = {}
    <3>1. ConnFree
      BY <2>2, FS_EmptySet, AccountsAssumption DEF ConnFree, IInv, ConnsOK, AccountsAssumption
    <3>2. \A r \in InProgress : ~Waits(r)
      BY <2>2, <3>1 DEF InProgress, Holders, Waits, InTx
    <3> QED BY <2>2, <3>2 DEF NoStandstill
  <2> QED BY <2>1, <2>2
<1> QED BY <1>1, Invariance, PTL

\* The steps that change keys: a project is created, a key is added to one that
\* exists, a key of the request's own project is revoked.
Created(r) ==
  /\ reqs[r].pc = "commit" /\ Store(reqs[r])
Added(r) ==
  /\ reqs[r].pc = "adding" /\ reqs'[r].pc = "done" /\ keys[reqs[r].hash] = NoRow /\ AddRow(reqs[r])
Revoked(r) ==
  /\ reqs[r].pc = "revoke" /\ reqs'[r].pc = "done" /\ Owned(reqs[r]) /\ RevokeRow(reqs[r])

LEMMA KeySteps ==
  ASSUME IInv, [Next]_vars
  PROVE  \/ UNCHANGED keys
         \/ \E r \in Requests : Created(r) \/ Added(r) \/ Revoked(r)
<1>1. CASE UNCHANGED vars
  BY <1>1 DEF vars
<1>2. ASSUME NEW n \in Names, Suspend(n) \/ Reactivate(n)
      PROVE  UNCHANGED keys
  BY <1>2 DEF Suspend, Reactivate
<1>3. ASSUME NEW r \in Requests,
             \/ Arrive(r) \/ Answered(r) \/ FindByHash(r) \/ GetByID(r)
             \/ Begin(r) \/ InsertTenant(r) \/ InsertKey(r) \/ InsertRules(r)
             \/ AcquireConn(r) \/ ListTenants(r) \/ ListTenantRules(r) \/ Query(r) \/ Fails(r)
      PROVE  UNCHANGED keys
  BY <1>3 DEF Tables, Arrive, Answered, FindByHash, GetByID, Begin, InsertTenant,
     InsertKey, InsertRules, AcquireConn, ListTenants, ListTenantRules, Query, QueryTenants,
     QueryKeys, QueryRules, Fails
<1>7. ASSUME NEW r \in Requests, NEW code \in {201, 204, 503}, Answer(r, code)
      PROVE  reqs'[r].pc = "done"
  <2>1. reqs \in [Requests -> ReqRecords] /\ code \in Codes
    BY DEF IInv, ReqsOK, Codes
  <2>2. reqs'[r] = Turn(reqs[r], code)
    BY <1>7, <2>1 DEF Answer
  <2> QED BY <2>1, <2>2, TurnOkIs, TurnBadIs
<1>4. ASSUME NEW r \in Requests, Commit(r) \/ CommitUnheard(r)
      PROVE  Created(r)
  BY <1>4 DEF Commit, CommitUnheard, Created
<1>5. ASSUME NEW r \in Requests, AddAPIKey(r) \/ AddUnheard(r)
      PROVE  UNCHANGED keys \/ Added(r)
  BY <1>5, <1>7 DEF AddAPIKey, AddUnheard, Added
<1>6. ASSUME NEW r \in Requests, RevokeAPIKey(r) \/ RevokeUnheard(r)
      PROVE  UNCHANGED keys \/ Revoked(r)
  BY <1>6, <1>7 DEF RevokeAPIKey, RevokeUnheard, Revoked
<1> QED BY <1>1, <1>2, <1>3, <1>4, <1>5, <1>6 DEF Next, Serve, GetProject, ListProjects

\* What those steps do to the keys.
LEMMA KeyEffects ==
  ASSUME IInv, NEW r \in Requests
  PROVE  /\ Created(r) =>
              /\ reqs[r].tenant \in Names /\ tenants[reqs[r].tenant] = "none"
              /\ tenants'[reqs[r].tenant] = "active"
              /\ keys' = [keys EXCEPT ![reqs[r].hash] = Row(reqs[r].tenant, reqs[r].role)]
              /\ keys[reqs[r].hash] = NoRow
         /\ Created(r) \/ Added(r) \/ Revoked(r) =>
              /\ reqs[r].hash \in Hashes
              /\ \A h \in Hashes \ {reqs[r].hash} : keys'[h] = keys[h]
         /\ Created(r) \/ Added(r) =>
              keys[reqs[r].hash] = NoRow
              /\ keys'[reqs[r].hash] = Row(reqs[r].tenant, reqs[r].role)
         /\ Revoked(r) =>
              /\ keys'[reqs[r].hash].tenant = reqs[r].tenant
              /\ keys[reqs[r].hash].tenant = reqs[r].tenant
              /\ keys'[reqs[r].hash].status = "revoked"
<1> DEFINE q == reqs[r]
<1>1. q \in ReqRecords /\ Shape(q) /\ Backed(q, tenants, keys)
  BY Standing
<1>2. tenants \in [Names -> {"none", "active", "suspended"}] /\ keys \in [Hashes -> Rows]
  BY DEF IInv, TablesOK
<1>3. ASSUME Created(r)
      PROVE  /\ q.tenant \in Names /\ q.hash \in Hashes
             /\ tenants[q.tenant] = "none" /\ keys[q.hash] = NoRow
             /\ tenants' = [tenants EXCEPT ![q.tenant] = "active"]
             /\ keys' = [keys EXCEPT ![q.hash] = Row(q.tenant, q.role)]
  BY <1>1, <1>3 DEF Created, Store, Shape, CreateShape, Backed, NewBacked, InTx,
     Named, Hashed
<1>4. ASSUME Added(r)
      PROVE  /\ q.hash \in Hashes /\ keys[q.hash] = NoRow
             /\ keys' = [keys EXCEPT ![q.hash] = Row(q.tenant, q.role)]
  BY <1>1, <1>4 DEF Added, AddRow, Shape, ManageShape, Managing
<1>5. ASSUME Revoked(r)
      PROVE  /\ q.hash \in Hashes /\ keys[q.hash].tenant = q.tenant
             /\ keys' = [keys EXCEPT ![q.hash].status = "revoked"]
  BY <1>1, <1>5 DEF Revoked, RevokeRow, Owned, Shape, ManageShape, Managing
<1>6. ASSUME Revoked(r)
      PROVE  keys'[q.hash].tenant = q.tenant /\ keys'[q.hash].status = "revoked"
  <2>1. keys[q.hash] \in Rows
    BY <1>2, <1>5, <1>6
  <2> QED BY <1>2, <1>5, <1>6, <2>1 DEF Rows
<1> HIDE DEF q
<1>7. Created(r) \/ Added(r) \/ Revoked(r) =>
        q.hash \in Hashes /\ \A h \in Hashes \ {q.hash} : keys'[h] = keys[h]
  BY <1>2, <1>3, <1>4, <1>5
<1>8. Created(r) \/ Added(r) =>
        keys[q.hash] = NoRow /\ keys'[q.hash] = Row(q.tenant, q.role)
  BY <1>2, <1>3, <1>4
<1>9. Created(r) => tenants'[q.tenant] = "active"
  BY <1>2, <1>3
<1> QED BY <1>3, <1>5, <1>6, <1>7, <1>8, <1>9 DEF q

(***************************************************************************)
(* A project's keys change when it is created or in the step of a request  *)
(* that asked for that key and may manage it: KeysChangeForManagers        *)
(* (ProjectAuth, AdminAuth, AddAPIKey, RevokeAPIKey).                      *)
(***************************************************************************)
THEOREM KeysOnlyForManagers == Spec => KeysChangeForManagers
<1> DEFINE Step ==
      \A h \in Hashes : keys'[h] # keys[h] =>
        LET n == keys'[h].tenant IN
        /\ keys[h] # NoRow => keys[h].tenant = n
        /\ \/ tenants[n] = "none" /\ tenants'[n] = "active"
           \/ \E r \in Requests :
                /\ reqs[r].pc \in {"adding", "revoke"} /\ reqs'[r].pc = "done"
                /\ reqs[r].hash = h /\ MayManage(r, n)
<1>1. IInv /\ [Next]_vars => Step
  <2> SUFFICES ASSUME IInv, [Next]_vars, NEW h \in Hashes, keys'[h] # keys[h]
               PROVE  /\ keys[h] # NoRow => keys[h].tenant = keys'[h].tenant
                      /\ \/ /\ tenants[keys'[h].tenant] = "none"
                            /\ tenants'[keys'[h].tenant] = "active"
                         \/ \E r \in Requests :
                              /\ reqs[r].pc \in {"adding", "revoke"} /\ reqs'[r].pc = "done"
                              /\ reqs[r].hash = h /\ MayManage(r, keys'[h].tenant)
    OBVIOUS
  <2>1. PICK r \in Requests : Created(r) \/ Added(r) \/ Revoked(r)
    BY KeySteps
  <2>2. h = reqs[r].hash
    BY <2>1, KeyEffects
  <2>3. keys'[h].tenant = reqs[r].tenant
    <3>1. Row(reqs[r].tenant, reqs[r].role).tenant = reqs[r].tenant
      BY DEF Row
    <3> QED BY <2>1, <2>2, <3>1, KeyEffects
  <2>4. keys[h] # NoRow => keys[h].tenant = reqs[r].tenant
    BY <2>1, <2>2, KeyEffects
  <2>5. CASE Created(r)
    BY <2>3, <2>4, <2>5, KeyEffects
  <2>6. CASE Added(r) \/ Revoked(r)
    <3>1. reqs[r].pc \in {"adding", "revoke"} /\ reqs'[r].pc = "done"
      BY <2>6 DEF Added, Revoked
    <3>2. reqs[r].late # "revoked"
      BY <3>1, Standing DEF Shape, LateShape
    <3>3. MayManage(r, reqs[r].tenant)
      BY <3>1, <3>2, Standing DEF MayManage, Backed, ManageBacked, Managing
    <3> QED BY <2>2, <2>3, <2>4, <3>1, <3>3
  <2> QED BY <2>1, <2>5, <2>6
<1> QED BY <1>1, Invariance, PTL DEF Spec, KeysChangeForManagers

-----------------------------------------------------------------------------
(* Projects that nobody can manage *)

\* Only a key that is active when it is looked up gets a request to the point
\* where it may mint another.
LEMMA MintingGoesOn ==
  ASSUME IInv, [Next]_vars, NEW n \in Names, NEW r \in Requests, Minting(reqs'[r], n),
         ~Minting(reqs[r], n)
  PROVE  \E h \in Hashes :
           keys[h].tenant = n /\ keys[h].status = "active" /\ keys[h].role = "admin"
<1> DEFINE Mints == {"get_tenant", "add", "adding"}
<1>1. /\ reqs \in [Requests -> ReqRecords] /\ reqs[r] \in ReqRecords
      /\ Shape(reqs[r]) /\ Backed(reqs[r], tenants, keys)
  BY Standing DEF IInv, ReqsOK
<1>2. reqs'[r] # reqs[r]
  OBVIOUS
<1>3. reqs'[r].pc \in Mints /\ reqs'[r].key # NoRow
  <2>1. NoRow.tenant = Nobody /\ Nobody # n
    BY AccountsAssumption DEF NoRow, AccountsAssumption
  <2> QED BY <2>1 DEF Minting
<1>4. ASSUME NEW m \in Names, Suspend(m) \/ Reactivate(m)
      PROVE  FALSE
  <2>1. CASE Suspend(m)
    BY <1>2, <2>1 DEF Suspend
  <2>2. CASE Reactivate(m)
    <3>1. reqs'[r] = [reqs[r] EXCEPT !.late = "no"]
      BY <1>2, <2>2 DEF Reactivate
    <3>2. /\ reqs'[r].pc = reqs[r].pc /\ reqs'[r].route = reqs[r].route
          /\ reqs'[r].role = reqs[r].role /\ reqs'[r].key = reqs[r].key
      BY <1>1, <3>1 DEF ReqRecords
    <3> QED BY <3>2 DEF Minting
  <2> QED BY <1>4, <2>1, <2>2
\* Steps of other requests, and steps that lead elsewhere.
<1>5. ASSUME NEW s \in Requests, NEW q, reqs' = [reqs EXCEPT ![s] = q]
      PROVE  s = r /\ reqs'[r] = q
  BY <1>1, <1>2, <1>5
<1>6. ASSUME NEW q \in ReqRecords, NEW code \in Codes
      PROVE  Turn(q, code).pc = "done"
  BY <1>6, TurnOkIs, TurnBadIs
<1>7. ASSUME NEW q \in ReqRecords, NEW pc \in Pcs
      PROVE  Proceed(q, pc).pc = pc /\ Proceed(q, pc).key = q.key
             /\ Proceed(q, pc).route = q.route /\ Proceed(q, pc).role = q.role
  BY <1>7, ProceedIs DEF SameAsk
<1>8. ASSUME NEW s \in Requests, NEW code \in Codes, Answer(s, code)
      PROVE  FALSE
  <2>1. s = r /\ reqs'[r] = Turn(reqs[s], code)
    BY <1>5, <1>8 DEF Answer
  <2> QED BY <1>1, <1>3, <1>6, <2>1
<1>9. ASSUME NEW s \in Requests, NEW pc \in Pcs, Goto(s, pc)
      PROVE  s = r /\ pc \in Mints /\ reqs[r].pc \notin Mints
  <2>1. s = r /\ reqs'[r] = Proceed(reqs[s], pc)
    BY <1>5, <1>9 DEF Goto
  <2>2. reqs'[r].pc = pc /\ reqs'[r].key = reqs[r].key
        /\ reqs'[r].route = reqs[r].route /\ reqs'[r].role = reqs[r].role
    BY <1>1, <1>7, <2>1
  <2> QED BY <1>3, <2>1, <2>2 DEF Minting
<1>10. ASSUME NEW s \in Requests, Arrive(s)
       PROVE  FALSE
  <2>1. PICK q \in Incoming : reqs' = [reqs EXCEPT ![s] =
          IF q.cred \in Hashes
          THEN [q EXCEPT !.pc = "find_key", !.pass = 1, !.late = Lateness(q.cred)]
          ELSE IF q.cred = Nobody /\ q.route = "create" THEN CreateProject(q)
          ELSE AdminAuth(q)]
    BY <1>10 DEF Arrive
  <2>2. q \in ReqRecords /\ q.key = NoRow
    BY <2>1, IncomingIs DEF Incoming, Creates, OperatorCreates, Checks, Tenants, Configs,
       Mes, Adds, Revokes, Lists, OperatorAdds, OperatorRevokes, Request
  <2>3. \A pc \in Pcs : reqs'[r] # Proceed(q, pc)
    BY <1>3, <1>7, <2>2
  <2>4. \A code \in Codes : reqs'[r] # Turn(q, code)
    BY <1>3, <1>6, <2>2
  <2>5. [q EXCEPT !.pc = "find_key", !.pass = 1, !.late = Lateness(q.cred)].pc = "find_key"
    BY <2>2 DEF ReqRecords
  <2>6. {"begin", "add", "revoke", "tenants"} \subseteq Pcs /\ {400, 401} \subseteq Codes
    BY DEF Pcs, Codes
  <2>7. reqs'[r] # Manage(q) /\ reqs'[r] # CreateProject(q)
    BY <2>3, <2>4, <2>6 DEF Manage, CreateProject, AddKey
  <2>8. reqs'[r] # AdminAuth(q)
    BY <2>4, <2>6, <2>7 DEF AdminAuth
  <2> QED BY <1>3, <1>5, <2>1, <2>5, <2>7, <2>8
<1>11. ASSUME NEW s \in Requests, Answered(s)
       PROVE  FALSE
  <2>1. reqs'[r] = IdleReq
    BY <1>5, <1>11 DEF Answered
  <2> QED BY <1>3, <2>1 DEF IdleReq, Request
<1>12. ASSUME NEW s \in Requests, FindByHash(s)
       PROVE  \E h \in Hashes :
                keys[h].tenant = n /\ keys[h].status = "active" /\ keys[h].role = "admin"
  <2> DEFINE key == keys[reqs[s].cred]
  <2>1. key.status = "active" /\ reqs[s].pc = "find_key"
        /\ reqs' = [reqs EXCEPT ![s] = [reqs[s] EXCEPT !.pc = "get_tenant", !.key = key,
                                                       !.late = Lateness(reqs[s].cred)]]
    <3>1. 401 \in Codes
      BY DEF Codes
    <3> QED BY <1>8, <1>12, <3>1 DEF FindByHash
  <2>2. s = r /\ reqs'[r] = [reqs[r] EXCEPT !.pc = "get_tenant", !.key = key,
                                            !.late = Lateness(reqs[r].cred)]
    BY <1>5, <2>1
  <2>3. reqs'[r].key = key
    BY <1>1, <2>2 DEF ReqRecords
  <2>4. reqs[r].cred \in Hashes
    BY <1>1, <2>1, <2>2 DEF Shape, AuthShape
  <2> QED BY <2>1, <2>2, <2>3, <2>4 DEF Minting
<1>13. ASSUME NEW s \in Requests, GetByID(s)
       PROVE  FALSE
  <2> DEFINE q == reqs[r]
             o == [q EXCEPT !.tenant = q.key.tenant]
  <2>1. s = r /\ q.pc = "get_tenant" /\ reqs'[r] = Authenticated(q)
    <3>1. 403 \in Codes
      BY DEF Codes
    <3> QED BY <1>5, <1>8, <1>13, <3>1 DEF GetByID
  <2>2. o \in ReqRecords /\ o.key = q.key /\ o.route = q.route /\ o.role = q.role
    BY <1>1, OwnerIs
  <2>3. ~(q.route = "add" /\ q.role = "admin" /\ q.key.tenant = n /\ q.key.role = "admin")
    BY <2>1 DEF Minting
  <2>4. /\ {"begin", "add", "revoke", "tenants", "config"} \subseteq Pcs
        /\ {200, 400, 401, 403, 404} \subseteq Codes
    BY DEF Pcs, Codes
  <2>5. \A p \in {q, o}, pc \in Pcs : reqs'[r] # Proceed(p, pc)
    <3> SUFFICES ASSUME NEW p \in {q, o}, NEW pc \in Pcs, reqs'[r] = Proceed(p, pc)
                 PROVE  FALSE
      OBVIOUS
    <3>1. p \in ReqRecords /\ p.key = q.key /\ p.route = q.route /\ p.role = q.role
      BY <1>1, <2>2
    <3>2. /\ reqs'[r].key = q.key /\ reqs'[r].route = q.route /\ reqs'[r].role = q.role
      BY <1>7, <3>1
    <3> QED BY <2>3, <3>2 DEF Minting
  <2>6. \A p \in {q, o}, code \in Codes : reqs'[r] # Turn(p, code)
    BY <1>1, <1>3, <1>6, <2>2
  <2>7. reqs'[r] # [q EXCEPT !.pc = "find_key", !.pass = 2, !.late = Lateness(q.cred)]
    <3>1. Lateness(q.cred) \in {"no", "revoked", "suspended"}
      BY LatenessIs
    <3> QED BY <1>1, <1>3, <3>1, AgainIs
  <2> HIDE DEF q, o
  <2>8. reqs'[r] # Manage(o)
    BY <2>4, <2>5, <2>6 DEF Manage, CreateProject, AddKey
  <2>9. reqs'[r] # ProjectAuth(q)
    BY <2>4, <2>6, <2>8 DEF ProjectAuth, o
  <2>10. reqs'[r] # Config(q) /\ reqs'[r] # RequireCheckRole(q)
    BY <2>4, <2>5, <2>6, <2>7 DEF Config, RequireCheckRole
  <2> QED BY <2>1, <2>9, <2>10 DEF Authenticated
<1>14. ASSUME NEW s \in Requests,
              \/ Begin(s) \/ InsertTenant(s) \/ InsertKey(s) \/ InsertRules(s)
              \/ Commit(s) \/ CommitUnheard(s)
       PROVE  FALSE
  <2>1. {"insert_tenant", "insert_key", "insert_rules", "commit"} \subseteq Pcs
        /\ {201, 409, 503} \subseteq Codes
    BY DEF Pcs, Codes
  <2> QED BY <1>8, <1>9, <1>14, <2>1 DEF Begin, InsertTenant, InsertKey, InsertRules,
          Commit, CommitUnheard
<1>15. ASSUME NEW s \in Requests,
              AcquireConn(s) \/ AddAPIKey(s) \/ AddUnheard(s)
              \/ RevokeAPIKey(s) \/ RevokeUnheard(s)
       PROVE  FALSE
  <2>1. "adding" \in Pcs /\ {201, 204, 404, 409, 503} \subseteq Codes
    BY DEF Pcs, Codes
  <2> QED BY <1>8, <1>9, <1>15, <2>1 DEF AcquireConn, AddAPIKey, AddUnheard,
          RevokeAPIKey, RevokeUnheard
<1>16. ASSUME NEW s \in Requests, ListTenants(s) \/ ListTenantRules(s) \/ Fails(s)
       PROVE  FALSE
  <2>1. {200, 404, 503} \subseteq Codes /\ "config_rules" \in Pcs
    BY DEF Codes, Pcs
  <2> QED BY <1>8, <1>9, <1>16, <2>1 DEF ListTenants, ListTenantRules, Fails
<1>17. ASSUME NEW s \in Requests, Query(s)
       PROVE  FALSE
  <2>1. 200 \in Codes
    BY DEF Codes
  <2>2. CASE QueryTenants(s)
    <3>1. reqs' = [reqs EXCEPT ![s] = [reqs[s] EXCEPT !.pc = "keys",
            !.listed = {m \in Scope(reqs[s]) : tenants[m] # "none"}]]
      BY <1>8, <2>1, <2>2 DEF QueryTenants
    <3>2. reqs'[r].pc = "keys"
      BY <1>1, <1>5, <3>1 DEF ReqRecords
    <3> QED BY <1>3, <3>2
  <2>3. CASE QueryKeys(s)
    <3>1. reqs'[r].pc = "rules"
      BY <1>1, <1>5, <2>3 DEF QueryKeys, ReqRecords
    <3> QED BY <1>3, <3>1
  <2>4. CASE QueryRules(s)
    <3>1. s = r /\ reqs'[r] = [Turn(reqs[r], 200) EXCEPT
            !.ruled = {m \in reqs[r].listed : rules[m] > 0}]
      BY <1>1, <1>5, <2>4 DEF QueryRules
    <3>2. Turn(reqs[r], 200) \in ReqRecords /\ Turn(reqs[r], 200).pc = "done"
      BY <1>1, <2>1, TurnOkIs
    <3>3. reqs'[r].pc = "done"
      BY <3>1, <3>2 DEF ReqRecords
    <3> QED BY <1>3, <3>3
  <2> QED BY <1>17, <2>2, <2>3, <2>4 DEF Query
<1>18. CASE UNCHANGED vars
  BY <1>2, <1>18 DEF vars
<1> QED BY <1>4, <1>10, <1>11, <1>12, <1>13, <1>14, <1>15, <1>16, <1>17, <1>18
       DEF Next, Serve, GetProject, ListProjects

\* No step makes a project disappear.
LEMMA ProjectsStay ==
  ASSUME IInv, [Next]_vars, NEW n \in Names, tenants[n] # "none"
  PROVE  tenants'[n] # "none"
<1>1. tenants \in [Names -> {"none", "active", "suspended"}]
  BY DEF IInv, TablesOK
<1>2. ASSUME NEW r \in Requests,
             \/ Arrive(r) \/ Answered(r) \/ FindByHash(r) \/ GetByID(r)
             \/ Begin(r) \/ InsertTenant(r) \/ InsertKey(r) \/ InsertRules(r)
             \/ AcquireConn(r) \/ ListTenants(r) \/ ListTenantRules(r) \/ Query(r) \/ Fails(r)
             \/ AddAPIKey(r) \/ AddUnheard(r) \/ RevokeAPIKey(r) \/ RevokeUnheard(r)
      PROVE  UNCHANGED tenants
  BY <1>2 DEF Tables, Arrive, Answered, FindByHash, GetByID, Begin, InsertTenant,
     InsertKey, InsertRules, AcquireConn, ListTenants, ListTenantRules, Query, QueryTenants,
     QueryKeys, QueryRules, Fails, AddAPIKey, AddUnheard, RevokeAPIKey, RevokeUnheard
<1>3. ASSUME NEW r \in Requests, Commit(r) \/ CommitUnheard(r)
      PROVE  tenants' = [tenants EXCEPT ![reqs[r].tenant] = "active"]
  BY <1>3 DEF Commit, CommitUnheard, Store
<1>4. ASSUME NEW m \in Names, Suspend(m) \/ Reactivate(m)
      PROVE  tenants'[n] # "none"
  BY <1>1, <1>4 DEF Suspend, Reactivate
<1>5. CASE UNCHANGED vars
  BY <1>5 DEF vars
<1>6. ASSUME NEW r \in Requests, Commit(r) \/ CommitUnheard(r)
      PROVE  tenants'[n] # "none"
  BY <1>1, <1>3, <1>6
<1> QED BY <1>2, <1>4, <1>5, <1>6 DEF Next, Serve, GetProject, ListProjects

(***************************************************************************)
(* A project whose last admin key is revoked, with none being minted, has  *)
(* no admin key ever after: NoAdminForGood (admin.go, AddKey mints check   *)
(* keys only).                                                             *)
(***************************************************************************)
THEOREM NoAdminIsFinal == Spec => NoAdminForGood
<1> DEFINE Step == \A n \in Names : Leaderless(n) => Leaderless(n)'
<1>1. IInv /\ [Next]_vars => Step
  <2> SUFFICES ASSUME IInv, [Next]_vars, NEW n \in Names, Leaderless(n)
               PROVE  Leaderless(n)'
    OBVIOUS
  <2>1. ASSUME NEW h \in Hashes, keys'[h].tenant = n, keys'[h].status = "active",
               keys'[h].role = "admin"
        PROVE  FALSE
    <3>1. keys'[h] # keys[h]
      BY <2>1 DEF Leaderless
    <3>2. PICK r \in Requests : Created(r) \/ Added(r) \/ Revoked(r)
      BY <3>1, KeySteps
    <3>3. h = reqs[r].hash
      BY <3>1, <3>2, KeyEffects
    <3>4. ~Revoked(r)
      BY <2>1, <3>3, KeyEffects
    <3>5. keys'[h] = Row(reqs[r].tenant, reqs[r].role)
      BY <3>2, <3>3, <3>4, KeyEffects
    <3>6. reqs[r].tenant = n /\ reqs[r].role = "admin"
      BY <2>1, <3>5 DEF Row
    <3>7. ~Created(r)
      BY <3>6, KeyEffects DEF Leaderless
    <3>8. reqs[r].pc = "adding"
      BY <3>2, <3>4, <3>7 DEF Added
    <3>9. ManageShape(reqs[r])
      BY Standing DEF Shape
    <3>10. Minting(reqs[r], n)
      BY <3>6, <3>8, <3>9 DEF ManageShape, Managing, Minting
    <3> QED BY <3>10 DEF Leaderless
  <2>2. \A r \in Requests : ~Minting(reqs'[r], n)
    BY MintingGoesOn DEF Leaderless
  <2>3. tenants'[n] # "none"
    BY ProjectsStay DEF Leaderless
  <2> QED BY <2>1, <2>2, <2>3 DEF Leaderless, Minting
<1> QED BY <1>1, Invariance, PTL DEF Spec, NoAdminForGood
=============================================================================
