--------------------------- MODULE MigrateProofs ---------------------------
(***************************************************************************)
(* Proofs about Migrate, for any number of runs and of files.              *)
(***************************************************************************)
EXTENDS Migrate, TLAPS

Pcs == Running \cup {"off", "done", "failed"}
RunRecords == [pc : Pcs, files : 0..MaxVersion, seed : BOOLEAN,
               at : 1..(MaxVersion + 1)]

(***************************************************************************)
(* What a run knows of the database: the files before the one it is at are *)
(* in effect, and once it has inserted its version nobody else has.        *)
(***************************************************************************)
RunInv(r) ==
  LET q == runs[r] IN
  /\ q.pc \in {"create", "check", "exec", "record", "commit"} =>
       /\ q.at <= q.files + 1
       /\ \A v \in 1..(q.at - 1) : v \in recorded
  /\ q.pc \in {"exec", "record", "commit"} => q.at <= q.files
  /\ q.pc \in {"seed", "done"} => \A v \in 1..q.files : v \in recorded
  /\ q.pc = "done" => (q.seed => seeded)
  /\ q.pc = "commit" => q.at \notin recorded

\* Only one transaction holds a version.
OneHolder == \A r, s \in Runners :
  runs[r].pc = "commit" /\ runs[s].pc = "commit" /\ runs[r].at = runs[s].at => r = s

IInv ==
  /\ TypeOK
  /\ AppliedOnceInOrder
  /\ \A r \in Runners : RunInv(r)
  /\ OneHolder

-----------------------------------------------------------------------------
\* The record of a run after each of the actions' assignments.
LEMMA GotoRecord ==
  ASSUME NEW r \in Runners, NEW pc \in Pcs, runs \in [Runners -> RunRecords],
         Goto(r, pc)
  PROVE  /\ runs' \in [Runners -> RunRecords]
         /\ runs'[r].pc = pc
         /\ runs'[r].files = runs[r].files /\ runs'[r].seed = runs[r].seed
         /\ runs'[r].at = runs[r].at
         /\ \A s \in Runners \ {r} : runs'[s] = runs[s]
BY DEF Goto, RunRecords

LEMMA AdvanceRecord ==
  ASSUME NEW r \in Runners, runs \in [Runners -> RunRecords],
         runs[r].at <= MaxVersion, MaxVersion \in Nat,
         \/ runs' = [runs EXCEPT ![r].at = @ + 1] /\ runs[r].pc = "check"
         \/ runs' = [runs EXCEPT ![r].pc = "check", ![r].at = @ + 1]
  PROVE  /\ runs' \in [Runners -> RunRecords]
         /\ runs'[r].pc = "check"
         /\ runs'[r].files = runs[r].files /\ runs'[r].seed = runs[r].seed
         /\ runs'[r].at = runs[r].at + 1
         /\ \A s \in Runners \ {r} : runs'[s] = runs[s]
<1>1. CASE runs' = [runs EXCEPT ![r].at = @ + 1] /\ runs[r].pc = "check"
  BY <1>1 DEF RunRecords, Pcs, Running
<1>2. CASE runs' = [runs EXCEPT ![r].pc = "check", ![r].at = @ + 1]
  BY <1>2 DEF RunRecords, Pcs, Running
<1> QED BY <1>1, <1>2

\* The versions recorded are those in effect, whatever their number.
LEMMA AppendInOrder ==
  ASSUME effects \in Seq(Versions), AppliedOnceInOrder,
         NEW v \in Versions, v = Len(effects) + 1,
         effects' = Append(effects, v), recorded' = recorded \cup {v}
  PROVE  /\ effects' \in Seq(Versions)
         /\ AppliedOnceInOrder'
<1>1. Len(effects) \in Nat /\ Len(effects') = Len(effects) + 1
  OBVIOUS
<1>2. \A i \in 1..Len(effects') : effects'[i] = i
  BY <1>1 DEF AppliedOnceInOrder
<1>3. effects' = [i \in 1..Len(effects') |-> i]
  <2>1. effects' \in Seq(Versions)
    OBVIOUS
  <2>2. DOMAIN effects' = 1..Len(effects') /\ effects' = [i \in 1..Len(effects') |-> effects'[i]]
    BY <2>1
  <2> QED BY <1>2, <2>2
<1>4. recorded' = 1..Len(effects')
  BY <1>1 DEF AppliedOnceInOrder
<1> QED BY <1>3, <1>4 DEF AppliedOnceInOrder

\* A step that leaves the database alone, except perhaps that it is seeded, and
\* takes one run to a place where it knows what RunInv asks for.
LEMMA RunSteps ==
  ASSUME IInv, NEW r \in Runners, UNCHANGED <<recorded, effects>>,
         seeded' \in BOOLEAN, seeded => seeded', faults' \in 0..MaxFaults,
         runs' \in [Runners -> RunRecords],
         \A s \in Runners \ {r} : runs'[s] = runs[s],
         RunInv(r)',
         runs'[r].pc = "commit" => ~VersionPending(r) /\ runs'[r].at = runs[r].at
  PROVE  IInv'
<1>1. AppliedOnceInOrder'
  BY DEF IInv, AppliedOnceInOrder
<1>2. ASSUME NEW s \in Runners PROVE RunInv(s)'
  BY <1>2 DEF IInv, RunInv
<1>3. TypeOK'
  BY <1>2 DEF IInv, TypeOK, RunInv, RunRecords, Pcs
<1>4. OneHolder'
  BY DEF IInv, OneHolder, VersionPending
<1> QED BY <1>1, <1>2, <1>3, <1>4 DEF IInv

\* A commit, heard of or not, puts into effect the one file that is next.
LEMMA CommitSteps ==
  ASSUME IInv, NEW r \in Runners, runs[r].pc = "commit", Committed(r),
         faults' \in 0..MaxFaults,
         runs' \in [Runners -> RunRecords],
         \A s \in Runners \ {r} : runs'[s] = runs[s],
         \/ runs'[r].pc = "failed"
         \/ /\ runs'[r].pc = "check" /\ runs'[r].files = runs[r].files
            /\ runs'[r].at = runs[r].at + 1
  PROVE  IInv'
<1> DEFINE v == runs[r].at
<1>1. v \in Versions /\ v = Len(effects) + 1
  <2>1. Len(effects) \in Nat /\ recorded = 1..Len(effects)
    BY DEF IInv, TypeOK, AppliedOnceInOrder
  <2>2. /\ v \in 1..(MaxVersion + 1) /\ runs[r].files \in 0..MaxVersion
        /\ v <= runs[r].files /\ v \notin recorded /\ \A w \in 1..(v - 1) : w \in recorded
    BY DEF IInv, TypeOK, RunInv
  <2> HIDE DEF v
  <2>3. v = Len(effects) + 1
    <3>1. v > Len(effects)
      BY <2>1, <2>2, MigrateAssumption
    <3>2. CASE v > Len(effects) + 1
      <4>1. Len(effects) + 1 \in 1..(v - 1)
        BY <2>1, <2>2, <3>2, MigrateAssumption
      <4>2. Len(effects) + 1 \in 1..Len(effects)
        BY <2>1, <2>2, <4>1
      <4> QED BY <4>2, <2>1
    <3> QED BY <2>1, <2>2, <3>1, <3>2, MigrateAssumption
  <2>4. v \in Versions
    BY <2>2, MigrateAssumption DEF Versions
  <2> QED BY <2>3, <2>4
<1>2. effects' = Append(effects, v) /\ recorded' = recorded \cup {v} /\ seeded' = seeded
  BY DEF Committed
<1>3. effects' \in Seq(Versions) /\ AppliedOnceInOrder'
  BY <1>1, <1>2, AppendInOrder DEF IInv, TypeOK
<1>4. ASSUME NEW s \in Runners PROVE RunInv(s)'
  <2>1. CASE s = r
    BY <2>1, <1>1, <1>2, MigrateAssumption DEF IInv, RunInv, TypeOK
  <2>2. CASE s # r
    <3>1. runs'[s] = runs[s] /\ RunInv(s)
      BY <2>2 DEF IInv
    <3>2. runs[s].pc = "commit" => runs[s].at # v
      BY <2>2 DEF IInv, OneHolder
    <3> QED BY <3>1, <3>2, <1>2 DEF RunInv
  <2> QED BY <2>1, <2>2
<1>5. TypeOK'
  <2>1. recorded' \subseteq Versions /\ seeded' \in BOOLEAN
    BY <1>1, <1>2 DEF IInv, TypeOK
  <2> QED BY <2>1, <1>3, <1>4 DEF TypeOK, RunInv, RunRecords, Pcs
<1>6. OneHolder'
  BY DEF IInv, OneHolder
<1> QED BY <1>3, <1>4, <1>5, <1>6 DEF IInv

-----------------------------------------------------------------------------
LEMMA InitIInv == Init => IInv
<1> SUFFICES ASSUME Init PROVE IInv
  OBVIOUS
<1>1. Off \in RunRecords
  BY MigrateAssumption DEF Off, RunRecords, Pcs
<1>2. \A r \in Runners : runs[r].pc = "off"
  BY DEF Init, Off
<1>3. TypeOK
  <2>1. recorded \subseteq Versions /\ seeded \in BOOLEAN
    BY DEF Init
  <2>2. effects \in Seq(Versions)
    BY DEF Init
  <2>3. faults \in 0..MaxFaults
    BY MigrateAssumption DEF Init
  <2>4. runs \in [Runners -> RunRecords]
    BY <1>1 DEF Init
  <2> QED BY <1>2, <2>1, <2>2, <2>3, <2>4 DEF TypeOK, RunRecords, Pcs
<1>4. AppliedOnceInOrder
  <2>1. Len(effects) = 0 /\ 1..0 = {}
    BY DEF Init
  <2>2. effects = [i \in 1..Len(effects) |-> i]
    BY <2>1 DEF Init
  <2> QED BY <2>1, <2>2 DEF Init, AppliedOnceInOrder
<1> QED BY <1>2, <1>3, <1>4 DEF IInv, RunInv, OneHolder

LEMMA NextIInv == IInv /\ [Next]_vars => IInv'
<1> SUFFICES ASSUME IInv, [Next]_vars PROVE IInv'
  OBVIOUS
<1>0. /\ runs \in [Runners -> RunRecords] /\ faults \in 0..MaxFaults
      /\ seeded \in BOOLEAN /\ MaxVersion \in Nat /\ MaxFaults \in Nat
  BY MigrateAssumption DEF IInv, TypeOK, RunRecords, Pcs
<1>1. ASSUME NEW r \in Runners, NEW n \in 1..MaxVersion, Deploy(r, n) PROVE IInv'
  <2>1. PICK seed \in BOOLEAN : runs' = [runs EXCEPT ![r] =
                [pc |-> "create", files |-> n, seed |-> seed, at |-> 1]]
    BY <1>1 DEF Deploy
  <2>2. [pc |-> "create", files |-> n, seed |-> seed, at |-> 1] \in RunRecords
    BY <1>0 DEF RunRecords, Pcs, Running
  <2>3. runs' \in [Runners -> RunRecords] /\ runs'[r].pc = "create" /\ runs'[r].at = 1
        /\ runs'[r].files = n /\ \A s \in Runners \ {r} : runs'[s] = runs[s]
    BY <2>1, <2>2, <1>0
  <2>4. RunInv(r)'
    BY <2>3 DEF RunInv
  <2> QED BY <1>0, <1>1, <2>3, <2>4, RunSteps DEF Deploy, database
<1>2. ASSUME NEW r \in Runners, CreateTable(r) PROVE IInv'
  <2>1. Goto(r, "check") /\ runs[r].pc = "create" /\ "check" \in Pcs /\ RunInv(r)
    BY <1>2 DEF CreateTable, Pcs, Running, IInv
  <2>2. UNCHANGED <<recorded, effects, seeded, faults>>
    BY <1>2 DEF CreateTable, database
  <2>3. RunInv(r)'
    BY <2>1, <2>2, <1>0, GotoRecord DEF RunInv
  <2> QED BY <1>0, <2>1, <2>2, <2>3, GotoRecord, RunSteps
<1>3. ASSUME NEW r \in Runners, Check(r) PROVE IInv'
  <2>0. /\ UNCHANGED <<recorded, effects, seeded, faults>> /\ runs[r].pc = "check"
        /\ RunInv(r) /\ runs[r].at \in 1..(MaxVersion + 1) /\ runs[r].files \in 0..MaxVersion
    BY <1>3, <1>0 DEF Check, database, IInv, RunRecords
  <2>1. CASE runs[r].at > runs[r].files
    <3>1. Goto(r, "seed") /\ "seed" \in Pcs
      BY <1>3, <2>1 DEF Check, Pcs, Running
    <3>2. RunInv(r)'
      BY <2>0, <2>1, <3>1, <1>0, GotoRecord DEF RunInv
    <3> QED BY <1>0, <2>0, <3>1, <3>2, GotoRecord, RunSteps
  <2>2. CASE ~(runs[r].at > runs[r].files) /\ runs[r].at \in recorded
    <3>1. runs' = [runs EXCEPT ![r].at = @ + 1] /\ runs[r].at <= MaxVersion
      BY <1>3, <2>0, <2>2, <1>0 DEF Check
    <3>2. RunInv(r)'
      <4>1. /\ runs'[r].pc = "check" /\ runs'[r].files = runs[r].files
            /\ runs'[r].at = runs[r].at + 1
        BY <2>0, <3>1, <1>0, AdvanceRecord
      <4>2. \A v \in 1..(runs'[r].at - 1) : v \in recorded'
        BY <2>0, <2>2, <4>1 DEF RunInv
      <4> QED BY <2>0, <2>2, <4>1, <4>2 DEF RunInv
    <3> QED BY <1>0, <2>0, <3>1, <3>2, AdvanceRecord, RunSteps
  <2>3. CASE ~(runs[r].at > runs[r].files) /\ runs[r].at \notin recorded
    <3>1. Goto(r, "exec") /\ "exec" \in Pcs
      BY <1>3, <2>3 DEF Check, Pcs, Running
    <3>2. RunInv(r)'
      BY <2>0, <2>3, <3>1, <1>0, GotoRecord DEF RunInv
    <3> QED BY <1>0, <2>0, <3>1, <3>2, GotoRecord, RunSteps
  <2> QED BY <2>1, <2>2, <2>3
<1>4. ASSUME NEW r \in Runners, Exec(r) PROVE IInv'
  <2>1. Goto(r, "record") /\ runs[r].pc = "exec" /\ "record" \in Pcs /\ RunInv(r)
    BY <1>4 DEF Exec, Pcs, Running, IInv
  <2>2. UNCHANGED <<recorded, effects, seeded, faults>>
    BY <1>4 DEF Exec, database
  <2>3. RunInv(r)'
    BY <2>1, <2>2, <1>0, GotoRecord DEF RunInv
  <2> QED BY <1>0, <2>1, <2>2, <2>3, GotoRecord, RunSteps
<1>5. ASSUME NEW r \in Runners, Record(r) PROVE IInv'
  <2>0. /\ UNCHANGED <<recorded, effects, seeded, faults>> /\ runs[r].pc = "record"
        /\ RunInv(r) /\ ~VersionPending(r)
    BY <1>5 DEF Record, database, IInv
  <2>1. CASE runs[r].at \in recorded
    <3>1. Goto(r, "failed") /\ "failed" \in Pcs
      BY <1>5, <2>1 DEF Record, Pcs
    <3>2. RunInv(r)'
      BY <3>1, <1>0, GotoRecord DEF RunInv
    <3> QED BY <1>0, <2>0, <3>1, <3>2, GotoRecord, RunSteps
  <2>2. CASE runs[r].at \notin recorded
    <3>1. Goto(r, "commit") /\ "commit" \in Pcs
      BY <1>5, <2>2 DEF Record, Pcs, Running
    <3>2. RunInv(r)'
      BY <2>0, <2>2, <3>1, <1>0, GotoRecord DEF RunInv
    <3> QED BY <1>0, <2>0, <3>1, <3>2, GotoRecord, RunSteps
  <2> QED BY <2>1, <2>2
<1>6. ASSUME NEW r \in Runners, Commit(r) PROVE IInv'
  <2>1. /\ runs[r].pc = "commit" /\ Committed(r) /\ faults' = faults
        /\ runs' = [runs EXCEPT ![r].pc = "check", ![r].at = @ + 1]
    BY <1>6 DEF Commit
  <2>2. runs[r].at <= MaxVersion
    BY <2>1, <1>0 DEF IInv, RunInv, RunRecords
  <2> QED BY <1>0, <2>1, <2>2, AdvanceRecord, CommitSteps
<1>7. ASSUME NEW r \in Runners, CommitUnheard(r) PROVE IInv'
  <2>1. /\ runs[r].pc = "commit" /\ Committed(r) /\ Goto(r, "failed")
        /\ faults' \in 0..MaxFaults /\ "failed" \in Pcs
    BY <1>7, <1>0 DEF CommitUnheard, Pcs
  <2> QED BY <1>0, <2>1, GotoRecord, CommitSteps
<1>8. ASSUME NEW r \in Runners, Seed(r) PROVE IInv'
  <2>1. Goto(r, "done") /\ runs[r].pc = "seed" /\ "done" \in Pcs /\ RunInv(r)
    BY <1>8 DEF Seed, Pcs, IInv
  <2>2. UNCHANGED <<recorded, effects, faults>> /\ seeded' = (seeded \/ runs[r].seed)
    BY <1>8 DEF Seed
  <2>3. seeded' \in BOOLEAN /\ (seeded => seeded') /\ (runs[r].seed => seeded')
    BY <2>2, <1>0 DEF RunRecords
  <2>4. RunInv(r)'
    BY <2>1, <2>2, <2>3, <1>0, GotoRecord DEF RunInv
  <2> QED BY <1>0, <2>1, <2>2, <2>3, <2>4, GotoRecord, RunSteps
<1>9. ASSUME NEW r \in Runners, Exited(r) PROVE IInv'
  <2>1. Off \in RunRecords /\ Off.pc = "off"
    BY <1>0 DEF Off, RunRecords, Pcs
  <2>2. runs' \in [Runners -> RunRecords] /\ runs'[r].pc = "off"
        /\ \A s \in Runners \ {r} : runs'[s] = runs[s]
    BY <1>9, <1>0, <2>1 DEF Exited
  <2>3. RunInv(r)'
    BY <2>2 DEF RunInv
  <2> QED BY <1>0, <1>9, <2>2, <2>3, RunSteps DEF Exited, database
<1>10. ASSUME NEW r \in Runners, Fails(r) PROVE IInv'
  <2>1. Goto(r, "failed") /\ "failed" \in Pcs /\ faults' \in 0..MaxFaults
    BY <1>10, <1>0 DEF Fails, Pcs
  <2>2. RunInv(r)'
    BY <2>1, <1>0, GotoRecord DEF RunInv
  <2> QED BY <1>0, <1>10, <2>1, <2>2, GotoRecord, RunSteps DEF Fails, database
<1>11. CASE UNCHANGED vars
  BY <1>11 DEF IInv, TypeOK, AppliedOnceInOrder, RunInv, OneHolder, vars
<1> QED
  BY <1>1, <1>2, <1>3, <1>4, <1>5, <1>6, <1>7, <1>8, <1>9, <1>10, <1>11
     DEF Next, Step

LEMMA Invariance == Spec => []IInv
BY InitIInv, NextIInv, PTL DEF Spec

(***************************************************************************)
(* The types hold, and runs work on files of their own build, for any      *)
(* number of runs, files and faults.                                       *)
(***************************************************************************)
THEOREM TypeCorrect == Spec => []TypeOK
<1>1. IInv => TypeOK
  BY DEF IInv
<1> QED BY <1>1, Invariance, PTL

(***************************************************************************)
(* However runs of the migration program overlap, fail or are killed, its  *)
(* files take effect in order and once each, and exactly those are         *)
(* recorded (cmd/migrate/main.go).                                         *)
(***************************************************************************)
THEOREM AppliedOnce == Spec => []AppliedOnceInOrder
<1>1. IInv => AppliedOnceInOrder
  BY DEF IInv
<1> QED BY <1>1, Invariance, PTL

(***************************************************************************)
(* A run that says "migrations complete" has every file of its build in    *)
(* effect (cmd/migrate/main.go 51-85).                                     *)
(***************************************************************************)
THEOREM CompleteMeansMigrated == Spec => []CompleteIsMigrated
<1>1. IInv => CompleteIsMigrated
  <2> SUFFICES ASSUME IInv, NEW r \in Runners, runs[r].pc = "done"
               PROVE  /\ \A v \in 1..runs[r].files : \E i \in 1..Len(effects) : effects[i] = v
                      /\ runs[r].seed => seeded
    BY DEF CompleteIsMigrated
  <2>1. /\ \A v \in 1..runs[r].files : v \in recorded
        /\ runs[r].seed => seeded
    BY DEF IInv, RunInv
  <2>2. ASSUME NEW v \in recorded PROVE v \in 1..Len(effects) /\ effects[v] = v
    BY DEF IInv, AppliedOnceInOrder
  <2> QED BY <2>1, <2>2
<1> QED BY <1>1, Invariance, PTL
=============================================================================
