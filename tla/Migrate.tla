------------------------------ MODULE Migrate ------------------------------
(***************************************************************************)
(* cmd/migrate: runs of the migration program, of any build, on one        *)
(* database, any number of them at once.                                   *)
(*                                                                         *)
(* A run asks for each file of its build, in order, whether its version is *)
(* recorded, and if it is not runs the file and records the version in one *)
(* transaction.  Between the question and the record another run may do    *)
(* the same.  An error anywhere ends the run (log.Fatalf), and the         *)
(* database rolls its transaction back.                                    *)
(*                                                                         *)
(* Files are numbered in the order of their names: a build has the files   *)
(* 1..n.                                                                   *)
(***************************************************************************)
EXTENDS Naturals, Sequences

CONSTANTS Runners,      \* runs that can go on at a time
          MaxVersion,   \* the newest build has the files 1..MaxVersion
          MaxFaults     \* bound: errors other than a version's being taken

ASSUME MigrateAssumption == MaxVersion \in Nat \ {0} /\ MaxFaults \in Nat

VARIABLES recorded,   \* the versions in schema_migrations
          effects,    \* history: the files whose SQL was committed, in that order
          seeded,     \* the dev seed was applied
          runs,       \* the runs
          faults      \* the errors so far

vars == <<recorded, effects, seeded, runs, faults>>
database == <<recorded, effects, seeded>>

Off == [pc |-> "off", files |-> 0, seed |-> FALSE, at |-> 1]

Init ==
  /\ recorded = {} /\ effects = <<>> /\ seeded = FALSE
  /\ runs = [r \in Runners |-> Off]
  /\ faults = 0

Goto(r, pc) == runs' = [runs EXCEPT ![r].pc = pc]

\* A deploy, of the newest build or an older one, or a `make migrate' (which
\* sets SEED=dev).
Deploy(r, n) == \E seed \in BOOLEAN :
  /\ runs[r].pc = "off"
  /\ runs' = [runs EXCEPT ![r] =
                [pc |-> "create", files |-> n, seed |-> seed, at |-> 1]]
  /\ UNCHANGED <<database, faults>>

\* CREATE TABLE IF NOT EXISTS schema_migrations, and the files are listed.
CreateTable(r) ==
  /\ runs[r].pc = "create"
  /\ Goto(r, "check")
  /\ UNCHANGED <<database, faults>>

\* Mutant: the loop goes one file too far.
CheckBeyond(r) ==
  LET q == runs[r] IN
  /\ q.pc = "check"
  /\ IF q.at > q.files + 1 THEN Goto(r, "seed")
     ELSE IF q.at \in recorded THEN runs' = [runs EXCEPT ![r].at = @ + 1]
     ELSE Goto(r, "exec")
  /\ UNCHANGED <<database, faults>>

\* The head of the loop: SELECT EXISTS decides whether the file is skipped.
Check(r) ==
  LET q == runs[r] IN
  /\ q.pc = "check"
  /\ IF q.at > q.files THEN Goto(r, "seed")
     ELSE IF q.at \in recorded THEN runs' = [runs EXCEPT ![r].at = @ + 1]
     ELSE Goto(r, "exec")
  /\ UNCHANGED <<database, faults>>

-----------------------------------------------------------------------------
(* applyMigration *)

\* Mutant: the file runs on the pool, outside of the transaction.
ExecOnPool(r) ==
  /\ runs[r].pc = "exec"
  /\ effects' = Append(effects, runs[r].at)
  /\ Goto(r, "record")
  /\ UNCHANGED <<recorded, seeded, faults>>

\* BEGIN and the file's SQL.  Locks of the SQL itself may make this wait for
\* another run of the same file, no longer than Record would; and when it finds
\* what that run created it may fail here (Fails), where Record would have.
Exec(r) ==
  /\ runs[r].pc = "exec"
  /\ Goto(r, "record")
  /\ UNCHANGED <<database, faults>>

\* Another run has inserted the version and not committed.
VersionPending(r) == \E s \in Runners \ {r} :
  runs[s].pc = "commit" /\ runs[s].at = runs[r].at

\* Mutant: a version that is taken is waited for.
RecordWaiting(r) ==
  /\ runs[r].pc = "record" /\ ~VersionPending(r)
  /\ runs[r].at \notin recorded
  /\ Goto(r, "commit")
  /\ UNCHANGED <<database, faults>>

\* Mutant: the version is recorded on the pool, outside of the transaction.
RecordOnPool(r) ==
  /\ runs[r].pc = "record" /\ ~VersionPending(r)
  /\ recorded' = recorded \cup {runs[r].at}
  /\ Goto(r, IF runs[r].at \in recorded THEN "failed" ELSE "commit")
  /\ UNCHANGED <<effects, seeded, faults>>

\* INSERT INTO schema_migrations: waits for a run that inserted the version, and
\* fails if the version is there.
Record(r) ==
  /\ runs[r].pc = "record" /\ ~VersionPending(r)
  /\ Goto(r, IF runs[r].at \in recorded THEN "failed" ELSE "commit")
  /\ UNCHANGED <<database, faults>>

Committed(r) ==
  /\ recorded' = recorded \cup {runs[r].at}
  /\ effects' = Append(effects, runs[r].at)
  /\ UNCHANGED seeded

\* COMMIT, and on to the next file.
Commit(r) ==
  /\ runs[r].pc = "commit"
  /\ Committed(r)
  /\ runs' = [runs EXCEPT ![r].pc = "check", ![r].at = @ + 1]
  /\ UNCHANGED faults

\* The transaction is committed, and the run does not hear of it.
CommitUnheard(r) ==
  /\ runs[r].pc = "commit" /\ faults < MaxFaults
  /\ Committed(r)
  /\ Goto(r, "failed")
  /\ faults' = faults + 1

-----------------------------------------------------------------------------
\* The dev seed, if it is asked for, and "migrations complete".
Seed(r) ==
  /\ runs[r].pc = "seed"
  /\ seeded' = (seeded \/ runs[r].seed)
  /\ Goto(r, "done")
  /\ UNCHANGED <<recorded, effects, faults>>

Running == {"create", "check", "exec", "record", "commit", "seed"}

\* Mutant: an error is logged and the run goes on with the next file.
FailsAndGoesOn(r) ==
  /\ runs[r].pc \in Running /\ faults < MaxFaults
  /\ runs' = [runs EXCEPT ![r].pc = "check", ![r].at = @ + 1]
  /\ faults' = faults + 1
  /\ UNCHANGED database

\* Any step fails, or the process is killed: nothing of the file is kept.
Fails(r) ==
  /\ runs[r].pc \in Running /\ faults < MaxFaults
  /\ Goto(r, "failed")
  /\ faults' = faults + 1
  /\ UNCHANGED database

\* The exit status is read; the next deploy may begin.
Exited(r) ==
  /\ runs[r].pc \in {"done", "failed"}
  /\ runs' = [runs EXCEPT ![r] = Off]
  /\ UNCHANGED <<database, faults>>

Step(r) ==
  CreateTable(r) \/ Check(r) \/ Exec(r) \/ Record(r) \/ Commit(r) \/ Seed(r) \/ Exited(r)

Next == \E r \in Runners :
  \/ \E n \in 1..MaxVersion : Deploy(r, n)
  \/ Step(r) \/ CommitUnheard(r) \/ Fails(r)

Spec == Init /\ [][Next]_vars

\* A run goes on unless it waits, and the newest build is deployed again.
FairSpec ==
  /\ Spec
  /\ \A r \in Runners : WF_vars(Step(r))
  /\ SF_vars(\E r \in Runners : Deploy(r, MaxVersion))

-----------------------------------------------------------------------------
Versions == 1..MaxVersion

\* Type correctness; a run works on files of its own build only.
TypeOK ==
  /\ recorded \subseteq Versions
  /\ effects \in Seq(Versions)
  /\ seeded \in BOOLEAN
  /\ faults \in 0..MaxFaults
  /\ runs \in [Runners -> [pc : Running \cup {"off", "done", "failed"},
                           files : 0..MaxVersion, seed : BOOLEAN,
                           at : 1..(MaxVersion + 1)]]
  /\ \A r \in Runners :
       runs[r].pc \in {"exec", "record", "commit"} => runs[r].at <= runs[r].files

\* However runs overlap, fail or are killed, the files took effect in order and
\* once each, and those that did are the ones recorded (main 51-69,
\* applyMigration).
AppliedOnceInOrder ==
  /\ effects = [i \in 1..Len(effects) |-> i]
  /\ recorded = 1..Len(effects)

\* "migrations complete", on which the API is started, is said only when every
\* file of the build is in effect, and the seed, if asked for.
CompleteIsMigrated == \A r \in Runners : runs[r].pc = "done" =>
  /\ \A v \in 1..runs[r].files : \E i \in 1..Len(effects) : effects[i] = v
  /\ runs[r].seed => seeded

\* Runs that wait for each other's versions all end.
RunEnds == \A r \in Runners :
  runs[r].pc # "off" ~> runs[r].pc \in {"done", "failed"}

\* It is safe to run again, whatever went wrong before: once errors stop, every
\* file is in effect.
EventuallyMigrated == <>(\A v \in Versions : \E i \in 1..Len(effects) : effects[i] = v)
=============================================================================
