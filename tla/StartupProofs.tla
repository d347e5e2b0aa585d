--------------------------- MODULE StartupProofs ---------------------------
(* Proofs of the safety properties of Startup, and that its migrations      *)
(* implement MigrationLog.                                                  *)
EXTENDS Startup, TLAPS

-----------------------------------------------------------------------------
(* The inductive invariant, in parts.                                       *)

PCs == {"down", "findAdmin", "serve"} \cup Migrating \cup Seeding
InstOK == inst \in [Instances -> States]

\* Everything but the instances.
DataOK ==
  /\ versions \subseteq Files /\ schema \subseteq Files
  /\ role \in BOOLEAN /\ perms \subseteq Perms /\ granted \subseteq Perms
  /\ admin \in BOOLEAN /\ adminRole \in BOOLEAN
  /\ seeded \in BOOLEAN
  /\ faults \in 0..MaxFaults /\ crashes \in 0..MaxCrashes

\* What a loop has left; a file that is not left has been applied.
RunOK(i) ==
  /\ inst[i].pc \in {"exec", "record"} =>
       inst[i].todo \subseteq Files /\ Files \ inst[i].todo \subseteq versions
  /\ inst[i].pc \in Seeding \cup {"findAdmin", "serve"} => versions = Files
  /\ inst[i].pc = "createPerm" => inst[i].todo \subseteq Perms
  /\ inst[i].pc \in {"down", "findAdmin", "findRole", "createRole"} \cup Migrating =>
       inst[i].made = {}

\* The files are applied in order, so what has been applied is a prefix.
Prefix == schema = versions /\ \E n \in 0..NumFiles : versions = 1..n

MigrationInv == DataOK /\ InstOK /\ Prefix /\ \A i \in Instances : RunOK(i)

\* How far its seed has brought an instance, apart from what is accounted for.
AccessOK(i) ==
  /\ inst[i].pc \in Seeding \ {"findRole", "createRole"} => role
  /\ inst[i].pc = "createPerm" => Perms \ inst[i].todo \subseteq perms \cup lost
  /\ inst[i].pc \in {"assign", "commit", "createUser", "assignRole"} =>
       Perms \subseteq perms \cup lost

AccessInv ==
  /\ lost \subseteq Perms /\ lostRole \in BOOLEAN
  /\ AccessAccounted
  /\ \A i \in Instances : AccessOK(i)

\* What an undisturbed first seed finds at each of its steps.
FirstOK(i) == inst[i].first =>
  /\ inst[i].pc \in Seeding /\ Alone(i) /\ ~adminRole
  /\ inst[i].pc \in {"findRole", "createRole"} => Untouched
  /\ inst[i].pc = "createPerm" =>
       inst[i].made = perms /\ perms = Perms \ inst[i].todo /\ granted = {} /\ ~admin
  /\ inst[i].pc \in {"assign", "commit"} =>
       inst[i].made = Perms /\ granted = {} /\ ~admin
  /\ inst[i].pc = "createUser" => granted = Perms /\ ~admin
  /\ inst[i].pc = "assignRole" => granted = Perms /\ admin

FirstInv ==
  /\ seeded => FullAccess /\ admin /\ \A i \in Instances : inst[i].pc \notin Seeding
  /\ \A i \in Instances : FirstOK(i)

-----------------------------------------------------------------------------
(* How the instances move.                                                  *)

Fields(i, pc, todo, made, gone, first) ==
  /\ inst'[i].pc = pc /\ inst'[i].todo = todo /\ inst'[i].made = made
  /\ inst'[i].gone = gone /\ inst'[i].first = first
Others(i) == \A j \in Instances \ {i} : inst'[j] = inst[j]

\* An instance that is replaced by a record keeps the type and the others.
LEMMA Replace ==
  ASSUME InstOK, NEW i \in Instances, NEW r \in States, inst' = [inst EXCEPT ![i] = r]
  PROVE  InstOK' /\ Others(i) /\ Fields(i, r.pc, r.todo, r.made, r.gone, r.first)
BY DEF InstOK, Others, Fields

LEMMA FieldTypes ==
  ASSUME InstOK, NEW i \in Instances
  PROVE  /\ inst[i] = [pc |-> inst[i].pc, todo |-> inst[i].todo, made |-> inst[i].made,
                       gone |-> inst[i].gone, first |-> inst[i].first]
         /\ inst[i].pc \in PCs /\ inst[i].todo \subseteq Files \cup Perms
         /\ inst[i].made \subseteq Perms /\ inst[i].gone \subseteq Perms
         /\ inst[i].first \in BOOLEAN
BY DEF InstOK, States, PCs

LEMMA GotoFacts ==
  ASSUME InstOK, NEW i \in Instances, NEW pc \in PCs, Goto(i, pc)
  PROVE  /\ InstOK' /\ Others(i)
         /\ Fields(i, pc, inst[i].todo, inst[i].made, inst[i].gone, inst[i].first)
<1> DEFINE r == [inst[i] EXCEPT !.pc = pc]
<1>1. inst' = [inst EXCEPT ![i] = r]
  BY DEF Goto, InstOK
<1>2. r \in States
  BY FieldTypes DEF States, PCs, InstOK
<1>3. r.pc = pc /\ r.todo = inst[i].todo /\ r.made = inst[i].made /\ r.gone = inst[i].gone
      /\ r.first = inst[i].first
  BY FieldTypes
<1> HIDE DEF r
<1> QED BY <1>1, <1>2, <1>3, Replace

LEMMA FailFacts ==
  ASSUME InstOK, DataOK, NEW i \in Instances, NEW pc \in PCs, Fail(i, pc)
  PROVE  /\ InstOK' /\ Others(i)
         /\ Fields(i, pc, inst[i].todo, inst[i].made, inst[i].gone, FALSE)
         /\ faults' \in 0..MaxFaults /\ faults' # 0
         /\ UNCHANGED <<crashes, seeded>>
<1> DEFINE r == [inst[i] EXCEPT !.pc = pc, !.first = FALSE]
<1>1. inst' = [inst EXCEPT ![i] = r]
  BY DEF Fail, InstOK
<1>2. r \in States
  BY FieldTypes DEF States, PCs, InstOK
<1>3. r.pc = pc /\ r.todo = inst[i].todo /\ r.made = inst[i].made /\ r.gone = inst[i].gone
      /\ r.first = FALSE
  BY FieldTypes
<1>4. faults' \in 0..MaxFaults /\ faults' # 0 /\ UNCHANGED <<crashes, seeded>>
  BY NumbersAssumption DEF Fail, DataOK
<1> HIDE DEF r
<1> QED BY <1>1, <1>2, <1>3, <1>4, Replace

LEMMA DieFacts ==
  ASSUME InstOK, NEW i \in Instances, Die(i)
  PROVE  InstOK' /\ Others(i) /\ Fields(i, "down", {}, {}, {}, FALSE)
<1>1. Down \in States
  BY DEF Down, States
<1>2. inst' = [inst EXCEPT ![i] = Down]
  BY DEF Die
<1> QED BY <1>1, <1>2, Replace DEF Down

LEMMA FatalFacts ==
  ASSUME InstOK, DataOK, NEW i \in Instances, Fatal(i)
  PROVE  /\ Die(i) /\ faults' \in 0..MaxFaults /\ faults' # 0
         /\ UNCHANGED <<crashes, seeded, seed>>
BY NumbersAssumption DEF Fatal, Die, DataOK

LEMMA ServeFacts ==
  ASSUME InstOK, NEW i \in Instances, Serve(i)
  PROVE  /\ InstOK' /\ Others(i) /\ Fields(i, "serve", {}, {}, {}, FALSE)
         /\ seeded' = (seeded \/ inst[i].first)
<1> DEFINE r == [Down EXCEPT !.pc = "serve"]
<1>1. r \in States /\ r.pc = "serve" /\ r.todo = {} /\ r.made = {} /\ r.gone = {} /\ r.first = FALSE
  BY DEF Down, States
<1>2. inst' = [inst EXCEPT ![i] = r] /\ seeded' = (seeded \/ inst[i].first)
  BY DEF Serve
<1> HIDE DEF r
<1> QED BY <1>1, <1>2, Replace

LEMMA StartPermsFacts ==
  ASSUME InstOK, NEW i \in Instances, StartPerms(i)
  PROVE  /\ InstOK' /\ Others(i)
         /\ Fields(i, "createPerm", Perms, inst[i].made, inst[i].gone, inst[i].first)
<1> DEFINE r == [inst[i] EXCEPT !.pc = "createPerm", !.todo = Perms]
<1>1. inst' = [inst EXCEPT ![i] = r]
  BY DEF StartPerms, InstOK
<1>2. r \in States
  BY FieldTypes DEF States, Seeding, InstOK
<1>3. r.pc = "createPerm" /\ r.todo = Perms /\ r.made = inst[i].made
      /\ r.gone = inst[i].gone /\ r.first = inst[i].first
  BY FieldTypes
<1> HIDE DEF r
<1> QED BY <1>1, <1>2, <1>3, Replace

LEMMA PendingFacts ==
  ASSUME InstOK, NEW i \in Instances, NEW read,
         inst' = [inst EXCEPT ![i].pc = IF Files \subseteq read THEN "findAdmin" ELSE "exec",
                              ![i].todo = Files \ read]
  PROVE  /\ InstOK' /\ Others(i)
         /\ Fields(i, IF Files \subseteq read THEN "findAdmin" ELSE "exec", Files \ read,
                   inst[i].made, inst[i].gone, inst[i].first)
<1> DEFINE pc == IF Files \subseteq read THEN "findAdmin" ELSE "exec"
           todo == Files \ read
           r == [inst[i] EXCEPT !.pc = pc, !.todo = todo]
<1>1. inst' = [inst EXCEPT ![i] = r]
  BY DEF InstOK
<1>2. pc \in PCs /\ todo \in SUBSET (Files \cup Perms)
  BY DEF PCs, Migrating
<1> HIDE DEF pc, todo
<1>3. r \in States
  BY FieldTypes, <1>2 DEF States, PCs, InstOK
<1>4. r.pc = pc /\ r.todo = todo /\ r.made = inst[i].made
      /\ r.gone = inst[i].gone /\ r.first = inst[i].first
  BY FieldTypes
<1> HIDE DEF r
<1>5. InstOK' /\ Others(i) /\ Fields(i, pc, todo, inst[i].made, inst[i].gone, inst[i].first)
  BY <1>1, <1>3, <1>4, Replace
<1> QED BY <1>5 DEF pc, todo

\* What the loop of an instance has reached is a file or a base permission.
LEMMA ReachedFacts ==
  ASSUME InstOK, NEW i \in Instances, NEW v \in Reached(i)
  PROVE  v \in inst[i].todo /\ Reached(i) = {v} /\ \A w \in inst[i].todo : v <= w
<1>1. inst[i].todo \subseteq Files \cup Perms
  BY FieldTypes
<1>2. \A w \in Reached(i) : w = v
  BY <1>1 DEF Reached, Files, Perms
<1> QED BY <1>2 DEF Reached

LEMMA AppliedFacts ==
  ASSUME InstOK, NEW i \in Instances, Applied(i), NEW v \in Reached(i)
  PROVE  /\ InstOK' /\ Others(i)
         /\ Fields(i, IF inst[i].todo \subseteq {v} THEN "findAdmin" ELSE "exec",
                   inst[i].todo \ {v}, inst[i].made, inst[i].gone, inst[i].first)
<1> DEFINE todo == inst[i].todo \ {v}
           pc == IF todo = {} THEN "findAdmin" ELSE "exec"
           r == [inst[i] EXCEPT !.todo = todo, !.pc = pc]
<1>1. inst' = [inst EXCEPT ![i] = r]
  BY ReachedFacts DEF Applied, InstOK
<1>2. pc \in PCs /\ todo \in SUBSET (Files \cup Perms)
  BY FieldTypes DEF PCs, Migrating
<1>a. pc = IF inst[i].todo \subseteq {v} THEN "findAdmin" ELSE "exec"
  OBVIOUS
<1> HIDE DEF pc, todo
<1>3. r \in States
  BY FieldTypes, <1>2 DEF States, PCs, InstOK
<1>4. r.pc = pc /\ r.todo = todo /\ r.made = inst[i].made
      /\ r.gone = inst[i].gone /\ r.first = inst[i].first
  BY FieldTypes
<1> HIDE DEF r
<1>5. InstOK' /\ Others(i) /\ Fields(i, pc, todo, inst[i].made, inst[i].gone, inst[i].first)
  BY <1>1, <1>3, <1>4, Replace
<1> QED BY <1>5, <1>a DEF todo

\* A run that does not find the admin enters the seed, and disturbs the others.
LEMMA FindFacts ==
  ASSUME InstOK, NEW i \in Instances, NEW b \in BOOLEAN,
         inst' = [j \in Instances |->
           IF j = i THEN [inst[i] EXCEPT !.pc = "findRole", !.first = b]
           ELSE [inst[j] EXCEPT !.first = FALSE]]
  PROVE  /\ InstOK' /\ Fields(i, "findRole", inst[i].todo, inst[i].made, inst[i].gone, b)
         /\ \A j \in Instances \ {i} :
              Fields(j, inst[j].pc, inst[j].todo, inst[j].made, inst[j].gone, FALSE)
<1>1. ASSUME NEW j \in Instances \ {i}
      PROVE  /\ inst'[j] \in States
             /\ Fields(j, inst[j].pc, inst[j].todo, inst[j].made, inst[j].gone, FALSE)
  <2> DEFINE r == [inst[j] EXCEPT !.first = FALSE]
  <2>1. inst'[j] = r
    OBVIOUS
  <2>2. r.pc = inst[j].pc /\ r.todo = inst[j].todo /\ r.made = inst[j].made
        /\ r.gone = inst[j].gone /\ r.first = FALSE
    BY FieldTypes
  <2>3. r \in States
    BY FieldTypes DEF States, PCs, InstOK
  <2> HIDE DEF r
  <2> QED BY <2>1, <2>2, <2>3 DEF Fields
<1>2. inst'[i] \in States /\ Fields(i, "findRole", inst[i].todo, inst[i].made, inst[i].gone, b)
  <2> DEFINE r == [inst[i] EXCEPT !.pc = "findRole", !.first = b]
  <2>1. inst'[i] = r
    OBVIOUS
  <2>2. r.pc = "findRole" /\ r.todo = inst[i].todo /\ r.made = inst[i].made
        /\ r.gone = inst[i].gone /\ r.first = b
    BY FieldTypes
  <2>3. r \in States
    BY FieldTypes DEF States, Seeding, InstOK
  <2> HIDE DEF r
  <2> QED BY <2>1, <2>2, <2>3 DEF Fields
<1>3. InstOK'
  BY <1>1, <1>2 DEF InstOK
<1> QED BY <1>1, <1>2, <1>3

\* The record after one turn of the loop over the permissions.
LEMMA LoopedFacts ==
  ASSUME InstOK, NEW i \in Instances, NEW made \in SUBSET Perms, NEW k \in Reached(i)
  PROVE  LET r == Looped(i, made) IN
         /\ r \in States
         /\ r.todo = inst[i].todo \ {k} /\ r.made = made /\ r.gone = inst[i].gone
         /\ r.first = inst[i].first
         /\ r.pc = IF ~(inst[i].todo \subseteq {k}) THEN "createPerm"
                   ELSE IF made # {} THEN "assign" ELSE "createUser"
<1> DEFINE todo == inst[i].todo \ {k}
           pc == IF todo # {} THEN "createPerm"
                 ELSE IF made # {} THEN "assign" ELSE "createUser"
           r == [inst[i] EXCEPT !.todo = todo, !.made = made, !.pc = pc]
<1>1. Looped(i, made) = r
  BY ReachedFacts DEF Looped
<1>2. pc \in PCs /\ todo \in SUBSET (Files \cup Perms)
  BY FieldTypes DEF PCs, Seeding
<1>a. pc = IF ~(inst[i].todo \subseteq {k}) THEN "createPerm"
           ELSE IF made # {} THEN "assign" ELSE "createUser"
  OBVIOUS
<1> HIDE DEF pc, todo
<1>3. r \in States
  BY FieldTypes, <1>2 DEF States, PCs, InstOK
<1>4. r.pc = pc /\ r.todo = todo /\ r.made = made
      /\ r.gone = inst[i].gone /\ r.first = inst[i].first
  BY FieldTypes
<1> HIDE DEF r
<1> QED BY <1>1, <1>3, <1>4, <1>a DEF todo

-----------------------------------------------------------------------------
(* The migrations.                                                          *)

\* What versions holds only grows, so the other instances keep their invariant.
LEMMA KeepRun ==
  ASSUME MigrationInv, NEW i \in Instances, Others(i),
         versions \subseteq versions', versions' \subseteq Files
  PROVE  \A j \in Instances \ {i} : RunOK(j)'
BY DEF MigrationInv, Others, RunOK

LEMMA InitMigration == Init => MigrationInv
<1> SUFFICES ASSUME Init PROVE MigrationInv
  OBVIOUS
<1>0. faults \in 0..MaxFaults /\ crashes \in 0..MaxCrashes
  BY NumbersAssumption DEF Init
<1>1. DataOK
  BY <1>0 DEF Init, DataOK
<1>2. InstOK /\ \A i \in Instances : RunOK(i)
  BY DEF Init, InstOK, RunOK, States, Down, Seeding, Migrating
<1>3. {} = 1..0 /\ 0 \in 0..NumFiles
  BY NumbersAssumption
<1> QED BY <1>1, <1>2, <1>3 DEF Init, MigrationInv, Prefix

\* The least file that is left follows the ones that have been applied.
LEMMA NextFile ==
  ASSUME MigrationInv, NEW i \in Instances, At(i, "record"), NEW v \in Reached(i),
         v \notin versions
  PROVE  /\ v \in Files /\ versions = 1..(v - 1) /\ versions \cup {v} = 1..v
<1>1. PICK n \in 0..NumFiles : versions = 1..n
  BY DEF MigrationInv, Prefix
<1>2. v \in inst[i].todo /\ \A w \in inst[i].todo : v <= w
  BY ReachedFacts DEF MigrationInv
<1>3. inst[i].todo \subseteq Files /\ Files \ inst[i].todo \subseteq versions
  BY DEF MigrationInv, RunOK, At
<1>4. v \in Nat /\ 1 <= v /\ v <= NumFiles /\ NumFiles \in Nat /\ n < v
  BY <1>1, <1>2, <1>3, NumbersAssumption DEF Files
<1>5. v - 1 <= n
  <2>1. CASE v = 1
    BY <2>1, <1>1
  <2>2. CASE v > 1
    <3>1. v - 1 \in Files \ inst[i].todo
      BY <2>2, <1>2, <1>3, <1>4 DEF Files
    <3> QED BY <3>1, <1>1, <1>3, <1>4
  <2> QED BY <2>1, <2>2, <1>4
<1>6. n = v - 1
  BY <1>4, <1>5, <1>1
<1> QED BY <1>1, <1>2, <1>3, <1>4, <1>6

LEMMA FatalMigration ==
  ASSUME MigrationInv, NEW i \in Instances, Die(i),
         DataOK', Prefix', versions \subseteq versions'
  PROVE  MigrationInv'
<1>1. InstOK' /\ Others(i) /\ Fields(i, "down", {}, {}, {}, FALSE)
  BY DieFacts DEF MigrationInv
<1>2. RunOK(i)'
  BY <1>1 DEF Fields, RunOK, Seeding, Migrating
<1>3. \A j \in Instances \ {i} : RunOK(j)'
  BY <1>1, KeepRun DEF DataOK
<1> QED BY <1>1, <1>2, <1>3 DEF MigrationInv

LEMMA MigrateMigration ==
  ASSUME MigrationInv, NEW i \in Instances, Migrate(i)
  PROVE  MigrationInv'
<1>0. DataOK /\ InstOK /\ Prefix /\ RunOK(i)
  BY DEF MigrationInv
<1>p. {"table", "read", "exec", "record", "findAdmin"} \subseteq PCs
  BY DEF PCs, Migrating
<1>f. ASSUME Fatal(i), UNCHANGED migrations PROVE MigrationInv'
  <2>1. DataOK' /\ Prefix' /\ versions' = versions
    BY <1>0, <1>f, FatalFacts DEF DataOK, Prefix, migrations, seed
  <2> QED BY <1>0, <1>f, <2>1, FatalFacts, FatalMigration
<1>m. ASSUME UNCHANGED migrations, DataOK', InstOK', Others(i), RunOK(i)' PROVE MigrationInv'
  BY <1>0, <1>m, KeepRun DEF MigrationInv, Prefix, migrations, DataOK
<1>1. CASE CreateTable(i)
  <2>1. CASE Goto(i, "read") /\ UNCHANGED <<seed, seeded, bounds>>
    <3>1. UNCHANGED migrations /\ DataOK'
      BY <1>0, <1>1, <2>1 DEF CreateTable, migrations, seed, bounds, DataOK
    <3>2. InstOK' /\ Others(i) /\ Fields(i, "read", inst[i].todo, inst[i].made, inst[i].gone, inst[i].first)
      BY <1>0, <1>p, <2>1, GotoFacts
    <3>3. RunOK(i)'
      BY <1>0, <1>1, <3>2 DEF CreateTable, At, Fields, RunOK, Seeding, Migrating
    <3> QED BY <3>1, <3>2, <3>3, <1>m
  <2> QED BY <1>1, <2>1, <1>f DEF CreateTable
<1>2. CASE ReadApplied(i)
  <2>1. ASSUME NEW read \in SUBSET versions,
               inst' = [inst EXCEPT ![i].pc = IF Files \subseteq read THEN "findAdmin" ELSE "exec",
                                    ![i].todo = Files \ read],
               DataOK'
        PROVE  MigrationInv'
    <3>1. UNCHANGED migrations
      BY <1>2 DEF ReadApplied
    <3>2. /\ InstOK' /\ Others(i)
          /\ Fields(i, IF Files \subseteq read THEN "findAdmin" ELSE "exec", Files \ read,
                    inst[i].made, inst[i].gone, inst[i].first)
      BY <1>0, <2>1, PendingFacts
    <3>3. inst[i].made = {}
      BY <1>0, <1>2 DEF ReadApplied, At, RunOK, Migrating
    <3>4. RunOK(i)'
      <4>1. CASE Files \subseteq read
        <5>1. inst'[i].pc = "findAdmin" /\ inst'[i].made = {}
          BY <3>2, <3>3, <4>1 DEF Fields
        <5>2. versions' = Files
          BY <1>0, <2>1, <3>1, <4>1 DEF DataOK, migrations
        <5> QED BY <5>1, <5>2 DEF RunOK, Seeding, Migrating
      <4>2. CASE ~(Files \subseteq read)
        <5>1. inst'[i].pc = "exec" /\ inst'[i].made = {} /\ inst'[i].todo = Files \ read
          BY <3>2, <3>3, <4>2 DEF Fields
        <5>2. versions' = versions /\ read \subseteq versions
          BY <2>1, <3>1 DEF migrations
        <5> QED BY <5>1, <5>2 DEF RunOK, Seeding, Migrating
      <4> QED BY <4>1, <4>2
    <3> QED BY <2>1, <3>1, <3>2, <3>4, <1>m
  <2>2. CASE UNCHANGED <<seed, seeded, bounds>>
    <3>1. DataOK'
      BY <1>0, <1>2, <2>2 DEF ReadApplied, migrations, seed, bounds, DataOK
    <3> QED BY <1>2, <1>f, <2>1, <3>1 DEF ReadApplied
  <2>3. CASE faults < MaxFaults /\ faults' = faults + 1 /\ UNCHANGED <<seed, seeded, crashes>>
    <3>1. DataOK'
      BY <1>0, <1>2, <2>3, NumbersAssumption DEF ReadApplied, migrations, seed, DataOK
    <3> QED BY <1>2, <1>f, <2>1, <3>1 DEF ReadApplied
  <2> QED BY <1>2, <1>f, <2>2, <2>3 DEF ReadApplied
<1>3. CASE Exec(i)
  <2>1. UNCHANGED migrations
    BY <1>3 DEF Exec
  <2>2. CASE Goto(i, "record") /\ UNCHANGED <<seed, seeded, bounds>>
    <3>1. DataOK'
      BY <1>0, <2>1, <2>2 DEF migrations, seed, bounds, DataOK
    <3>2. InstOK' /\ Others(i) /\ Fields(i, "record", inst[i].todo, inst[i].made, inst[i].gone, inst[i].first)
      BY <1>0, <1>p, <2>2, GotoFacts
    <3>3. RunOK(i)'
      BY <1>0, <1>3, <2>1, <3>2 DEF Exec, At, Fields, RunOK, Seeding, Migrating, migrations
    <3> QED BY <2>1, <3>1, <3>2, <3>3, <1>m
  <2>3. CASE Die(i) /\ UNCHANGED <<seed, seeded, bounds>>
    <3>1. DataOK' /\ Prefix' /\ versions' = versions
      BY <1>0, <2>1, <2>3 DEF migrations, seed, bounds, DataOK, Prefix
    <3> QED BY <2>3, <3>1, FatalMigration
  <2> QED BY <1>3, <2>2, <2>3, <2>1, <1>f DEF Exec
<1>4. CASE Record(i)
  <2>1. PICK v \in Reached(i) : Record(i)!(v)
    BY <1>4 DEF Record
  <2>a. At(i, "record")
    BY <2>1
  <2>2. ASSUME v \notin versions, versions' = versions \cup {v}, schema' = schema \cup {v}
        PROVE  Prefix' /\ versions' \subseteq Files /\ schema' = versions'
    <3>1. v \in Files /\ versions' = 1..v
      BY <2>a, <2>2, NextFile
    <3>2. v \in 0..NumFiles
      BY <3>1, NumbersAssumption DEF Files
    <3> QED BY <1>0, <2>2, <3>1, <3>2 DEF Prefix, DataOK
  <2>3. CASE /\ v \notin versions /\ Applied(i)
             /\ versions' = versions \cup {v} /\ schema' = schema \cup {v}
             /\ UNCHANGED <<seed, seeded, bounds>>
    <3>1. DataOK' /\ Prefix'
      BY <1>0, <2>2, <2>3 DEF DataOK, seed, bounds
    <3>2. /\ InstOK' /\ Others(i)
          /\ Fields(i, IF inst[i].todo \subseteq {v} THEN "findAdmin" ELSE "exec",
                    inst[i].todo \ {v}, inst[i].made, inst[i].gone, inst[i].first)
      BY <1>0, <2>3, AppliedFacts
    <3>3. /\ inst[i].todo \subseteq Files /\ Files \ inst[i].todo \subseteq versions
          /\ inst[i].made = {}
      BY <1>0, <2>a DEF At, RunOK, Migrating
    <3>4. RunOK(i)'
      BY <2>2, <2>3, <3>2, <3>3 DEF Fields, RunOK, Seeding, Migrating
    <3>5. \A j \in Instances \ {i} : RunOK(j)'
      BY <2>2, <2>3, <3>2, KeepRun
    <3> QED BY <3>1, <3>2, <3>4, <3>5 DEF MigrationInv
  <2>4. CASE Die(i) /\ UNCHANGED <<migrations, seed, seeded, bounds>>
    <3>1. DataOK' /\ Prefix' /\ versions' = versions
      BY <1>0, <2>4 DEF migrations, seed, bounds, DataOK, Prefix
    <3> QED BY <2>4, <3>1, FatalMigration
  <2>5. CASE /\ Fatal(i)
             /\ v \notin versions
             /\ versions' = versions \cup {v} /\ schema' = schema \cup {v}
    <3>1. DataOK' /\ Prefix' /\ versions \subseteq versions'
      BY <1>0, <2>2, <2>5, FatalFacts DEF DataOK, seed
    <3> QED BY <1>0, <2>5, <3>1, FatalFacts, FatalMigration
  <2> QED BY <2>1, <2>3, <2>4, <2>5, <1>f
<1> QED BY <1>1, <1>2, <1>3, <1>4 DEF Migrate

-----------------------------------------------------------------------------
(* The seed, stops and kills leave the schema alone.                        *)

\* One instance moves, without touching schema_migrations.
LEMMA MoveMigration ==
  ASSUME MigrationInv, UNCHANGED migrations, DataOK', InstOK',
         NEW i \in Instances, Others(i), RunOK(i)'
  PROVE  MigrationInv'
BY KeepRun DEF MigrationInv, Prefix, migrations, DataOK

\* A seed that moves on has its schema, and forgets nothing it has created.
LEMMA SeedRun ==
  ASSUME MigrationInv, UNCHANGED migrations, NEW i \in Instances,
         NEW pc \in (Seeding \ {"findRole", "createPerm"}) \cup {"serve"},
         NEW todo, NEW made, NEW gone, NEW first,
         Fields(i, pc, todo, made, gone, first),
         inst[i].pc \in Seeding \cup {"findAdmin"},
         pc = "createRole" => made = {}
  PROVE  RunOK(i)'
<1>1. versions' = Files
  BY DEF MigrationInv, RunOK, migrations
<1>2. inst'[i].pc = pc /\ inst'[i].made = made
  BY DEF Fields
<1> QED BY <1>1, <1>2 DEF RunOK, Seeding, Migrating

LEMMA LoopRun ==
  ASSUME MigrationInv, UNCHANGED migrations, NEW i \in Instances,
         inst'[i].pc = "createPerm", inst'[i].todo \subseteq Perms,
         inst[i].pc \in Seeding
  PROVE  RunOK(i)'
BY DEF MigrationInv, RunOK, migrations, Seeding, Migrating

LEMMA SeedData ==
  ASSUME MigrationInv, NEW i \in Instances, Seed(i)
  PROVE  DataOK'
<1>0. DataOK /\ InstOK
  BY DEF MigrationInv
<1>p. Seeding \subseteq PCs /\ "serve" \in PCs
  BY DEF PCs, Seeding
<1>f. ASSUME NEW pc \in PCs, Fail(i, pc)
      PROVE  faults' \in 0..MaxFaults /\ crashes' \in 0..MaxCrashes /\ seeded' \in BOOLEAN
  BY <1>0, <1>f, FailFacts DEF DataOK
<1>s. ASSUME Serve(i) PROVE seeded' \in BOOLEAN
  BY <1>0, <1>s, ServeFacts, FieldTypes DEF DataOK
<1>1. CASE FindAdmin(i)
  BY <1>0, <1>1, <1>p, <1>f, <1>s DEF FindAdmin, DataOK, migrations, seed, bounds
<1>2. CASE FindRole(i)
  BY <1>0, <1>2, <1>p, <1>f DEF FindRole, DataOK, migrations, seed, bounds
<1>3. CASE CreateRole(i)
  BY <1>0, <1>3, <1>p, <1>f, <1>s DEF CreateRole, DataOK, migrations, bounds
<1>4. CASE CreatePerm(i)
  <2>1. PICK k \in Reached(i) : CreatePerm(i)!(k)
    BY <1>4 DEF CreatePerm
  <2>2. k \in Perms
    BY <1>0, <2>1, ReachedFacts DEF MigrationInv, RunOK, At
  <2>3. faults' \in 0..MaxFaults
    BY <1>0, <2>1, NumbersAssumption DEF DataOK
  <2> QED BY <1>0, <2>1, <2>2, <2>3 DEF DataOK, migrations
<1>5. CASE Assign(i)
  BY <1>0, <1>5, <1>p, <1>f DEF Assign, DataOK, migrations, seed, bounds, Seeding
<1>6. CASE Commit(i)
  <2>1. inst[i].made \subseteq Perms
    BY <1>0, FieldTypes
  <2> QED BY <1>0, <1>6, <1>p, <1>f, <2>1 DEF Commit, DataOK, migrations, bounds, Seeding
<1>7. CASE CreateUser(i)
  BY <1>0, <1>7, <1>p, <1>f, <1>s DEF CreateUser, DataOK, migrations, bounds
<1>8. CASE AssignRole(i)
  BY <1>0, <1>8, <1>p, <1>f, <1>s DEF AssignRole, DataOK, migrations, bounds
<1> QED BY <1>1, <1>2, <1>3, <1>4, <1>5, <1>6, <1>7, <1>8 DEF Seed

LEMMA SeedMigration ==
  ASSUME MigrationInv, NEW i \in Instances, Seed(i)
  PROVE  MigrationInv'
<1>0. DataOK /\ InstOK /\ Prefix /\ RunOK(i)
  BY DEF MigrationInv
<1>p. Seeding \subseteq PCs /\ "serve" \in PCs
  BY DEF PCs, Seeding
<1>m. UNCHANGED migrations
  BY DEF Seed, FindAdmin, FindRole, CreateRole, CreatePerm, Assign, Commit, CreateUser, AssignRole
<1>pc. inst[i].pc \in Seeding \cup {"findAdmin"}
  BY DEF Seed, FindAdmin, FindRole, CreateRole, CreatePerm, Assign, Commit, CreateUser,
         AssignRole, At, Seeding
<1>d. DataOK'
  BY SeedData
<1>s. ASSUME Serve(i) PROVE MigrationInv'
  <2>1. InstOK' /\ Others(i) /\ Fields(i, "serve", {}, {}, {}, FALSE)
    BY <1>0, <1>s, ServeFacts
  <2>2. RunOK(i)'
    BY <2>1, <1>m, <1>pc, SeedRun
  <2> QED BY <2>1, <2>2, <1>m, <1>d, MoveMigration
<1>f. ASSUME NEW pc \in {"serve", "createUser"}, Fail(i, pc) PROVE MigrationInv'
  <2>1. /\ InstOK' /\ Others(i)
        /\ Fields(i, pc, inst[i].todo, inst[i].made, inst[i].gone, FALSE)
    BY <1>0, <1>f, FailFacts DEF PCs, Seeding
  <2>2. RunOK(i)'
    BY <2>1, <1>m, <1>pc, SeedRun DEF Seeding
  <2> QED BY <2>1, <2>2, <1>m, <1>d, MoveMigration
<1>g. ASSUME NEW pc \in Seeding \ {"findRole", "createPerm"}, Goto(i, pc),
             pc = "createRole" => inst[i].made = {}
      PROVE  MigrationInv'
  <2>1. /\ InstOK' /\ Others(i)
        /\ Fields(i, pc, inst[i].todo, inst[i].made, inst[i].gone, inst[i].first)
    BY <1>0, <1>g, <1>p, GotoFacts
  <2>2. RunOK(i)'
    BY <2>1, <1>g, <1>m, <1>pc, SeedRun
  <2> QED BY <2>1, <2>2, <1>m, <1>d, MoveMigration
<1>l. ASSUME StartPerms(i), inst[i].pc \in Seeding PROVE MigrationInv'
  <2>1. /\ InstOK' /\ Others(i)
        /\ Fields(i, "createPerm", Perms, inst[i].made, inst[i].gone, inst[i].first)
    BY <1>0, <1>l, StartPermsFacts
  <2>2. RunOK(i)'
    BY <2>1, <1>l, <1>m, LoopRun DEF Fields
  <2> QED BY <2>1, <2>2, <1>m, <1>d, MoveMigration
<1>1. CASE FindAdmin(i)
  <2>1. CASE inst' = [j \in Instances |->
               IF j = i THEN [inst[i] EXCEPT !.pc = "findRole", !.first = Untouched /\ Alone(i)]
               ELSE [inst[j] EXCEPT !.first = FALSE]]
    <3>b. (Untouched /\ Alone(i)) \in BOOLEAN
      BY DEF Untouched, Alone
    <3>1. InstOK'
      BY <1>0, <2>1, <3>b, FindFacts
    <3>2. /\ inst'[i].pc = "findRole" /\ inst'[i].made = inst[i].made
          /\ \A j \in Instances \ {i} : /\ inst'[j].pc = inst[j].pc /\ inst'[j].todo = inst[j].todo
                                      /\ inst'[j].made = inst[j].made
      BY <1>0, <2>1, <3>b, FindFacts DEF Fields
    <3>3. versions' = Files /\ versions = Files /\ inst[i].made = {}
      BY <1>0, <1>1, <1>m DEF FindAdmin, At, RunOK, migrations
    <3>4. RunOK(i)'
      BY <3>2, <3>3 DEF RunOK, Seeding, Migrating
    <3>5. \A j \in Instances \ {i} : RunOK(j)'
      BY <3>2, <3>3 DEF RunOK, MigrationInv
    <3>6. Prefix'
      BY <1>0, <1>m DEF Prefix, migrations
    <3> QED BY <1>d, <3>1, <3>4, <3>5, <3>6 DEF MigrationInv
  <2> QED BY <1>1, <1>s, <1>f, <2>1 DEF FindAdmin
<1>2. CASE FindRole(i)
  <2>1. inst[i].pc \in Seeding /\ inst[i].made = {}
    BY <1>0, <1>2 DEF FindRole, At, Seeding, RunOK
  <2> QED BY <1>2, <2>1, <1>f, <1>g, <1>l DEF FindRole, Seeding
<1>3. CASE CreateRole(i)
  BY <1>3, <1>f, <1>s, <1>l DEF CreateRole, At, Seeding
<1>4. CASE CreatePerm(i)
  <2>1. PICK k \in Reached(i) : CreatePerm(i)!(k)
    BY <1>4 DEF CreatePerm
  <2>2. inst[i].todo \subseteq Perms /\ k \in Perms
    BY <1>0, <2>1, ReachedFacts DEF RunOK, At
  <2>3. ASSUME NEW made \in SUBSET Perms, NEW r \in States,
               r.pc = Looped(i, made).pc, r.todo = Looped(i, made).todo,
               inst' = [inst EXCEPT ![i] = r]
        PROVE  MigrationInv'
    <3>1. InstOK' /\ Others(i) /\ Fields(i, r.pc, r.todo, r.made, r.gone, r.first)
      BY <1>0, <2>3, Replace
    <3>2. /\ r.todo \subseteq Perms
          /\ r.pc \in {"createPerm", "assign", "createUser"}
      BY <1>0, <2>2, <2>3, LoopedFacts
    <3>3. CASE r.pc = "createPerm"
      <4>1. RunOK(i)'
        BY <1>m, <2>1, <3>1, <3>2, <3>3, LoopRun DEF Fields, At, Seeding
      <4> QED BY <4>1, <3>1, <1>m, <1>d, MoveMigration
    <3>4. CASE r.pc \in {"assign", "createUser"}
      <4>1. r.pc \in (Seeding \ {"findRole", "createPerm"}) \cup {"serve"} /\ r.pc # "createRole"
        BY <3>4 DEF Seeding
      <4>2. RunOK(i)'
        BY <1>m, <1>pc, <3>1, <4>1, SeedRun
      <4> QED BY <4>2, <3>1, <1>m, <1>d, MoveMigration
    <3> QED BY <3>2, <3>3, <3>4
  <2>4. inst[i].made \in SUBSET Perms /\ inst[i].made \cup {k} \in SUBSET Perms
    BY <1>0, <2>2, FieldTypes
  <2>5. ASSUME NEW made \in SUBSET Perms
        PROVE  /\ Looped(i, made) \in States
               /\ [Looped(i, made) EXCEPT !.first = FALSE] \in States
               /\ [Looped(i, made) EXCEPT !.first = FALSE].pc = Looped(i, made).pc
               /\ [Looped(i, made) EXCEPT !.first = FALSE].todo = Looped(i, made).todo
    <3>1. Looped(i, made) \in States
      BY <1>0, LoopedFacts
    <3> HIDE DEF Looped
    <3> QED BY <3>1 DEF States
  <2> QED BY <2>1, <2>3, <2>4, <2>5
<1>5. CASE Assign(i)
  <2>1. CASE inst' = [inst EXCEPT ![i].pc = "commit", ![i].gone = granted]
    <3> DEFINE r == [inst[i] EXCEPT !.pc = "commit", !.gone = granted]
    <3>1. inst' = [inst EXCEPT ![i] = r]
      BY <1>0, <2>1 DEF InstOK
    <3>2. r \in States /\ r.pc = "commit"
      BY <1>0, FieldTypes DEF States, Seeding, DataOK, InstOK
    <3> HIDE DEF r
    <3>3. InstOK' /\ Others(i) /\ Fields(i, "commit", r.todo, r.made, r.gone, r.first)
      BY <1>0, <3>1, <3>2, Replace
    <3>4. RunOK(i)'
      BY <1>m, <1>pc, <3>3, SeedRun DEF Seeding
    <3> QED BY <3>3, <3>4, <1>m, <1>d, MoveMigration
  <2> QED BY <1>5, <2>1, <1>f DEF Assign
<1>6. CASE Commit(i)
  BY <1>6, <1>f, <1>g DEF Commit, Seeding
<1>7. CASE CreateUser(i)
  BY <1>7, <1>f, <1>g, <1>s DEF CreateUser, Seeding
<1>8. CASE AssignRole(i)
  BY <1>8, <1>f, <1>s DEF AssignRole
<1> QED BY <1>1, <1>2, <1>3, <1>4, <1>5, <1>6, <1>7, <1>8 DEF Seed

LEMMA EndMigration ==
  ASSUME MigrationInv, NEW i \in Instances, Start(i) \/ Stop(i) \/ Crash(i)
  PROVE  MigrationInv'
<1>0. DataOK /\ InstOK /\ Prefix /\ RunOK(i)
  BY DEF MigrationInv
<1>1. UNCHANGED migrations
  BY DEF Start, Stop, Crash
<1>2. crashes' \in 0..MaxCrashes
  BY <1>0, NumbersAssumption DEF Start, Stop, Crash, DataOK, bounds
<1>3. DataOK'
  BY <1>0, <1>1, <1>2 DEF Start, Stop, Crash, DataOK, migrations, seed, bounds
<1>4. Prefix'
  BY <1>0, <1>1 DEF Prefix, migrations
<1>5. CASE Start(i)
  <2>1. /\ InstOK' /\ Others(i)
        /\ Fields(i, "table", inst[i].todo, inst[i].made, inst[i].gone, inst[i].first)
    BY <1>0, <1>5, GotoFacts DEF Start, PCs, Migrating
  <2>2. RunOK(i)'
    BY <1>0, <1>5, <2>1 DEF Start, At, Fields, RunOK, Seeding, Migrating
  <2> QED BY <1>1, <1>3, <2>1, <2>2, MoveMigration
<1>6. CASE Die(i)
  BY <1>1, <1>3, <1>4, <1>6, FatalMigration DEF migrations
<1> QED BY <1>5, <1>6 DEF Stop, Crash

LEMMA NextMigration == MigrationInv /\ [Next]_vars => MigrationInv'
<1> SUFFICES ASSUME MigrationInv, [Next]_vars PROVE MigrationInv'
  OBVIOUS
<1>1. CASE Next
  <2>1. PICK i \in Instances : Start(i) \/ Migrate(i) \/ Seed(i) \/ Stop(i) \/ Crash(i)
    BY <1>1 DEF Next
  <2> QED BY <2>1, MigrateMigration, SeedMigration, EndMigration
<1>2. CASE UNCHANGED vars
  BY <1>2 DEF vars, migrations, seed, bounds, MigrationInv, DataOK, InstOK, Prefix, RunOK
<1> QED BY <1>1, <1>2

LEMMA MigrationInvariant == Spec => []MigrationInv
BY InitMigration, NextMigration, PTL DEF Spec

\* SchemaRecorded: schema_migrations and the schema never part, and whatever
\* seeds or serves has every migration under it.
THEOREM SpecSchemaRecorded == Spec => []SchemaRecorded
<1>1. MigrationInv => SchemaRecorded
  BY DEF MigrationInv, Prefix, RunOK, SchemaRecorded
<1> QED BY <1>1, MigrationInvariant, PTL

-----------------------------------------------------------------------------
(* The migrations implement MigrationLog.                                   *)

LEMMA LogStep ==
  ASSUME MigrationInv, [Next]_vars
  PROVE  [Log!Next]_versions
<1>1. ASSUME NEW i \in Instances, Record(i) PROVE [Log!Next]_versions
  <2>1. PICK v \in Reached(i) : Record(i)!(v)
    BY <1>1 DEF Record
  <2>2. CASE v \notin versions /\ versions' = versions \cup {v}
    BY <2>1, <2>2, NextFile DEF Log!Next, Files
  <2> QED BY <2>1, <2>2 DEF migrations
<1>2. ASSUME NEW i \in Instances, Seed(i) PROVE versions' = versions
  BY <1>2 DEF Seed, FindAdmin, FindRole, CreateRole, CreatePerm, Assign, Commit, CreateUser,
              AssignRole, migrations
<1>3. ASSUME NEW i \in Instances,
             Start(i) \/ Stop(i) \/ Crash(i) \/ CreateTable(i) \/ ReadApplied(i) \/ Exec(i)
      PROVE  versions' = versions
  BY <1>3 DEF Start, Stop, Crash, CreateTable, ReadApplied, Exec, migrations
<1>4. CASE UNCHANGED vars
  BY <1>4 DEF vars, migrations
<1>5. CASE Next
  BY <1>5, <1>1, <1>2, <1>3 DEF Next, Migrate
<1> QED BY <1>4, <1>5

\* Implements: whatever fails or dies, the schema moves through the files one
\* at a time and in order.
THEOREM SpecImplements == Spec => Implements
<1>1. Init => Log!Init
  BY DEF Init, Log!Init
<1> QED BY <1>1, LogStep, MigrationInvariant, PTL DEF Spec, Implements, Log!Spec

-----------------------------------------------------------------------------
(* The seed.                                                                *)

\* What a step of one instance must not take away from the others.
LEMMA MoveAccess ==
  ASSUME AccessInv, NEW i \in Instances, AccessOK(i)',
         \A j \in Instances \ {i} : /\ inst'[j].pc = inst[j].pc /\ inst'[j].todo = inst[j].todo
                                    /\ inst'[j].made = inst[j].made,
         role' = role \/ role' = TRUE, perms \subseteq perms', adminRole' = adminRole \/ adminRole' = TRUE,
         lost \subseteq lost', lost' \subseteq Perms, lostRole' = lostRole \/ lostRole' = TRUE,
         \A p \in perms' \ granted' :
           p \in lost' \/ p \in Carried(i)' \/ (p \in perms \ granted /\ p \notin Carried(i)),
         admin' => admin \/ (role' /\ Perms \ perms' \subseteq lost'),
         admin' => \/ adminRole' \/ lostRole' \/ inst'[i].pc = "assignRole"
                   \/ admin /\ inst[i].pc # "assignRole"
  PROVE  AccessInv'
<1>1. \A j \in Instances \ {i} : AccessOK(j)'
  BY DEF AccessInv, AccessOK
<1>2. \A j \in Instances \ {i} : Carried(j)' = Carried(j)
  BY DEF Carried
<1>3. \A p \in perms' \ granted' : p \in lost' \/ \E j \in Instances : p \in Carried(j)'
  <2> SUFFICES ASSUME NEW p \in perms' \ granted', p \notin lost', p \notin Carried(i)'
               PROVE  \E j \in Instances : p \in Carried(j)'
    OBVIOUS
  <2>1. p \in perms \ granted /\ p \notin Carried(i) /\ p \notin lost
    OBVIOUS
  <2>2. PICK j \in Instances : p \in Carried(j)
    BY <2>1 DEF AccessInv, AccessAccounted
  <2> QED BY <1>2, <2>1, <2>2
<1>4. admin' => role' /\ Perms \ perms' \subseteq lost'
  BY DEF AccessInv, AccessAccounted
<1>5. admin' => adminRole' \/ lostRole' \/ \E j \in Instances : inst'[j].pc = "assignRole"
  BY DEF AccessInv, AccessAccounted, At
<1>6. lost' \subseteq Perms /\ lostRole' \in BOOLEAN
  BY DEF AccessInv
<1> QED BY <1>1, <1>3, <1>4, <1>5, <1>6 DEF AccessInv, AccessAccounted, At

\* An instance that carries nothing and is not at the last step may leave.
LEMMA OutsideAccess ==
  ASSUME AccessInv, NEW i \in Instances, Others(i), UNCHANGED <<seed, losses>>,
         inst'[i].pc \notin Seeding \ {"findRole", "createRole"},
         inst[i].pc # "assignRole", Carried(i) = {}
  PROVE  AccessInv'
<1>1. AccessOK(i)'
  BY DEF AccessOK, Seeding
<1>2. \A j \in Instances \ {i} : /\ inst'[j].pc = inst[j].pc /\ inst'[j].todo = inst[j].todo
                                 /\ inst'[j].made = inst[j].made
  BY DEF Others
<1>3. /\ UNCHANGED <<role, perms, granted, admin, adminRole, lost, lostRole>>
      /\ lost \subseteq Perms /\ lostRole \in BOOLEAN
  BY DEF seed, losses, AccessInv
<1> QED BY <1>1, <1>2, <1>3, MoveAccess

\* Where the actions that are not part of the seed lead.
LEMMA NotSeeding ==
  ASSUME MigrationInv, NEW i \in Instances, Migrate(i) \/ Start(i) \/ Stop(i) \/ Crash(i)
  PROVE  /\ Others(i) /\ UNCHANGED <<seed, seeded>>
         /\ inst'[i].pc \notin Seeding
         /\ ~inst'[i].first \/ (inst'[i].first = inst[i].first /\ inst[i].pc \notin Seeding)
<1>0. DataOK /\ InstOK /\ faults \in Nat
  BY DEF MigrationInv, DataOK
<1>p. /\ {"table", "read", "exec", "record", "findAdmin"} \subseteq PCs
      /\ {"down", "table", "read", "exec", "record", "findAdmin"} \cap Seeding = {}
  BY DEF PCs, Migrating, Seeding
<1>d. ASSUME Die(i) PROVE Others(i) /\ inst'[i].pc \notin Seeding /\ ~inst'[i].first
  BY <1>0, <1>p, <1>d, DieFacts DEF Fields
<1>f. ASSUME Fatal(i) PROVE Die(i) /\ UNCHANGED <<seed, seeded>> /\ faults' # 0
  BY <1>0, <1>f, FatalFacts
<1>g. ASSUME NEW pc \in {"table", "read", "record"}, Goto(i, pc)
      PROVE  Others(i) /\ inst'[i].pc \notin Seeding /\ inst'[i].first = inst[i].first
  BY <1>0, <1>p, <1>g, GotoFacts DEF Fields
<1>1. CASE CreateTable(i)
  BY <1>1, <1>d, <1>f, <1>g, <1>p DEF CreateTable, At, bounds
<1>2. CASE ReadApplied(i)
  <2>1. ASSUME NEW read,
               inst' = [inst EXCEPT ![i].pc = IF Files \subseteq read THEN "findAdmin" ELSE "exec",
                                    ![i].todo = Files \ read]
        PROVE  Others(i) /\ inst'[i].pc \notin Seeding /\ inst'[i].first = inst[i].first
    <3> DEFINE pc == IF Files \subseteq read THEN "findAdmin" ELSE "exec"
    <3>1. Others(i) /\ inst'[i].pc = pc /\ inst'[i].first = inst[i].first
      BY <1>0, <2>1, PendingFacts DEF Fields
    <3>2. pc \notin Seeding
      BY <1>p
    <3> QED BY <3>1, <3>2
  <2>2. inst[i].pc \notin Seeding /\ (faults' = faults + 1 => faults' # 0)
    BY <1>0, <1>2, <1>p DEF ReadApplied, At
  <2> QED BY <1>2, <1>d, <1>f, <2>1, <2>2 DEF ReadApplied, bounds
<1>3. CASE Exec(i)
  BY <1>3, <1>d, <1>f, <1>g, <1>p DEF Exec, At, bounds
<1>4. CASE Record(i)
  <2>1. PICK v \in Reached(i) : Record(i)!(v)
    BY <1>4 DEF Record
  <2>2. ASSUME Applied(i)
        PROVE  Others(i) /\ inst'[i].pc \notin Seeding /\ inst'[i].first = inst[i].first
    BY <1>0, <1>p, <2>2, AppliedFacts DEF Fields
  <2> QED BY <2>1, <2>2, <1>d, <1>f, <1>p DEF At, bounds
<1>5. CASE Start(i)
  BY <1>5, <1>g, <1>p DEF Start, At, bounds
<1>6. CASE Stop(i) \/ Crash(i)
  BY <1>6, <1>d DEF Stop, Crash, bounds
<1> QED BY <1>1, <1>2, <1>3, <1>4, <1>5, <1>6 DEF Migrate

\* The steps outside the seed carry nothing, except for kills.
LEMMA CarryNothing ==
  ASSUME MigrationInv, NEW i \in Instances, Migrate(i) \/ Start(i) \/ Stop(i)
  PROVE  /\ inst[i].pc \notin Seeding /\ UNCHANGED losses
         /\ inst[i].pc # "assignRole" /\ Carried(i) = {}
<1>1. inst[i].pc \notin Seeding /\ UNCHANGED losses
  BY DEF Migrate, CreateTable, ReadApplied, Exec, Record, Start, Stop, At, Seeding
<1> QED BY <1>1 DEF Seeding, Carried

LEMMA CrashAccess ==
  ASSUME MigrationInv, AccessInv, NEW i \in Instances, Crash(i)
  PROVE  AccessInv'
<1>0. InstOK /\ lost \subseteq Perms /\ lostRole \in BOOLEAN
  BY DEF MigrationInv, AccessInv
<1>1. Others(i) /\ inst'[i].pc = "down"
  BY <1>0, DieFacts DEF Crash, Fields
<1>2. AccessOK(i)'
  BY <1>1 DEF AccessOK, Seeding
<1>3. \A j \in Instances \ {i} : /\ inst'[j].pc = inst[j].pc /\ inst'[j].todo = inst[j].todo
                                 /\ inst'[j].made = inst[j].made
  BY <1>1 DEF Others
<1>4. /\ UNCHANGED <<role, perms, granted, admin, adminRole>>
      /\ lost' = lost \cup Carried(i) /\ lostRole' = (lostRole \/ inst[i].pc = "assignRole")
  BY DEF Crash, seed, At
<1>5. lost' \subseteq Perms
  BY <1>0, <1>4, FieldTypes DEF Carried
<1>6. (lostRole' = lostRole \/ lostRole' = TRUE) /\ (inst[i].pc = "assignRole" => lostRole' = TRUE)
  BY <1>0, <1>4
<1> QED BY <1>0, <1>2, <1>3, <1>4, <1>5, <1>6, MoveAccess

LEMMA SeedAccess ==
  ASSUME MigrationInv, AccessInv, NEW i \in Instances, Seed(i)
  PROVE  AccessInv'
<1>0. /\ DataOK /\ InstOK /\ RunOK(i) /\ DataOK' /\ AccessOK(i)
      /\ lost \subseteq Perms /\ lostRole \in BOOLEAN
  BY SeedData DEF MigrationInv, AccessInv
<1>p. Seeding \subseteq PCs /\ "serve" \in PCs /\ "serve" \notin Seeding
  BY DEF PCs, Seeding
<1>s. ASSUME Serve(i) PROVE Others(i) /\ inst'[i].pc = "serve"
  BY <1>0, <1>s, ServeFacts DEF Fields
<1>f. ASSUME NEW pc \in PCs, Fail(i, pc)
      PROVE  Others(i) /\ inst'[i].pc = pc
  BY <1>0, <1>f, FailFacts DEF Fields
<1>g. ASSUME NEW pc \in Seeding, Goto(i, pc)
      PROVE  Others(i) /\ inst'[i].pc = pc
  BY <1>0, <1>p, <1>g, GotoFacts DEF Fields
<1>l. ASSUME StartPerms(i)
      PROVE  Others(i) /\ inst'[i].pc = "createPerm" /\ inst'[i].todo = Perms
             /\ inst'[i].made = inst[i].made
  BY <1>0, <1>l, StartPermsFacts DEF Fields
<1>o. Others(i) => \A j \in Instances \ {i} : /\ inst'[j].pc = inst[j].pc
                                              /\ inst'[j].todo = inst[j].todo
                                              /\ inst'[j].made = inst[j].made
  BY DEF Others
<1>1. CASE FindAdmin(i)
  <2>0. inst[i].pc = "findAdmin" /\ UNCHANGED <<seed, losses>>
    BY <1>1 DEF FindAdmin, At
  <2>1. inst[i].pc # "assignRole" /\ Carried(i) = {}
    BY <2>0 DEF Carried
  <2>2. CASE Serve(i) \/ Fail(i, "serve")
    BY <1>s, <1>f, <1>p, <2>0, <2>1, <2>2, OutsideAccess
  <2>3. CASE inst' = [j \in Instances |->
                IF j = i THEN [inst[i] EXCEPT !.pc = "findRole", !.first = Untouched /\ Alone(i)]
                ELSE [inst[j] EXCEPT !.first = FALSE]]
    <3>b. (Untouched /\ Alone(i)) \in BOOLEAN
      BY DEF Untouched, Alone
    <3>1. /\ inst'[i].pc = "findRole"
          /\ \A j \in Instances \ {i} : /\ inst'[j].pc = inst[j].pc /\ inst'[j].todo = inst[j].todo
                                        /\ inst'[j].made = inst[j].made
      BY <1>0, <2>3, <3>b, FindFacts DEF Fields
    <3>2. AccessOK(i)'
      BY <3>1 DEF AccessOK, Seeding
    <3>3. UNCHANGED <<role, perms, granted, admin, adminRole, lost, lostRole>>
      BY <2>0 DEF seed, losses
    <3> QED BY <1>0, <2>1, <3>1, <3>2, <3>3, MoveAccess
  <2> QED BY <1>1, <2>2, <2>3 DEF FindAdmin
<1>2. CASE FindRole(i)
  <2>0. inst[i].pc = "findRole" /\ UNCHANGED <<seed, losses>>
    BY <1>2 DEF FindRole, At
  <2>1. inst[i].pc # "assignRole" /\ Carried(i) = {}
    BY <2>0 DEF Carried
  <2>2. CASE Fail(i, "serve") \/ Goto(i, "createRole")
    BY <1>g, <1>f, <1>p, <2>0, <2>1, <2>2, OutsideAccess DEF Seeding
  <2>3. CASE role /\ StartPerms(i)
    <3>1. UNCHANGED <<role, perms, granted, admin, adminRole, lost, lostRole>>
      BY <2>0 DEF seed, losses
    <3>2. AccessOK(i)'
      BY <1>l, <2>3, <3>1 DEF AccessOK
    <3> QED BY <1>0, <1>l, <1>o, <2>1, <2>3, <3>1, <3>2, MoveAccess
  <2> QED BY <1>2, <2>2, <2>3 DEF FindRole
<1>3. CASE CreateRole(i)
  <2>0. inst[i].pc = "createRole" /\ UNCHANGED <<perms, granted, admin, adminRole, lost, lostRole>>
    BY <1>3 DEF CreateRole, At, losses
  <2>1. inst[i].pc # "assignRole" /\ Carried(i) = {}
    BY <2>0 DEF Carried
  <2>2. CASE (Serve(i) /\ UNCHANGED role) \/ (Fail(i, "serve") /\ role' \in {role, TRUE})
    <3>1. Others(i) /\ inst'[i].pc = "serve"
      BY <1>s, <1>f, <1>p, <2>2
    <3>3. role' = role \/ role' = TRUE
      BY <2>2
    <3>2. AccessOK(i)'
      BY <1>p, <3>1 DEF AccessOK
    <3> QED BY <1>0, <1>o, <2>0, <2>1, <3>1, <3>2, <3>3, MoveAccess
  <2>3. CASE role' = TRUE /\ StartPerms(i)
    <3>1. AccessOK(i)'
      BY <1>l, <2>3 DEF AccessOK
    <3> QED BY <1>0, <1>l, <1>o, <2>0, <2>1, <2>3, <3>1, MoveAccess
  <2> QED BY <1>3, <2>2, <2>3 DEF CreateRole
<1>4. CASE CreatePerm(i)
  <2>1. PICK k \in Reached(i) : CreatePerm(i)!(k)
    BY <1>4 DEF CreatePerm
  <2>a. /\ inst[i].pc = "createPerm" /\ Carried(i) = inst[i].made
        /\ UNCHANGED <<role, granted, admin, adminRole, lostRole>>
    BY <2>1 DEF At, Carried
  <2>2. k \in inst[i].todo /\ k \in Perms /\ inst[i].todo \subseteq Perms
    BY <1>0, <2>a, ReachedFacts DEF RunOK
  <2>3. role /\ Perms \ inst[i].todo \subseteq perms \cup lost
    BY <1>0, <2>a DEF AccessOK, Seeding
  <2>m. inst[i].made \in SUBSET Perms /\ inst[i].made \cup {k} \in SUBSET Perms
    BY <1>0, <2>2, FieldTypes
  <2>4. ASSUME NEW made \in SUBSET Perms, NEW r \in States, inst[i].made \subseteq made,
               r.pc = Looped(i, made).pc, r.todo = Looped(i, made).todo,
               r.made = Looped(i, made).made, inst' = [inst EXCEPT ![i] = r],
               perms \subseteq perms', perms' \subseteq perms \cup {k},
               lost \subseteq lost', lost' \subseteq lost \cup {k}, k \in perms' \cup lost',
               perms' \subseteq perms \cup made \cup lost'
        PROVE  AccessInv'
    <3>1. /\ Others(i) /\ inst'[i].pc = r.pc /\ inst'[i].todo = r.todo /\ inst'[i].made = r.made
      BY <1>0, <2>4, Replace DEF Fields
    <3>2. /\ r.made = made /\ r.todo = inst[i].todo \ {k}
          /\ r.pc = IF ~(inst[i].todo \subseteq {k}) THEN "createPerm"
                    ELSE IF made # {} THEN "assign" ELSE "createUser"
      BY <1>0, <2>4, LoopedFacts
    <3>3. Carried(i)' = made
      BY <3>1, <3>2 DEF Carried
    <3>4. AccessOK(i)'
      BY <2>a, <2>2, <2>3, <2>4, <3>1, <3>2 DEF AccessOK
    <3>5. \A p \in perms' \ granted' :
            p \in lost' \/ p \in Carried(i)' \/ (p \in perms \ granted /\ p \notin Carried(i))
      BY <2>a, <2>4, <3>3
    <3>6. lost' \subseteq Perms
      BY <1>0, <2>2, <2>4
    <3> QED BY <1>0, <1>o, <2>a, <2>4, <3>1, <3>4, <3>5, <3>6, MoveAccess
  <2>5. ASSUME NEW made \in SUBSET Perms
        PROVE  /\ Looped(i, made) \in States
               /\ [Looped(i, made) EXCEPT !.first = FALSE] \in States
               /\ [Looped(i, made) EXCEPT !.first = FALSE].pc = Looped(i, made).pc
               /\ [Looped(i, made) EXCEPT !.first = FALSE].todo = Looped(i, made).todo
               /\ [Looped(i, made) EXCEPT !.first = FALSE].made = Looped(i, made).made
    <3>1. Looped(i, made) \in States
      BY <1>0, LoopedFacts
    <3> HIDE DEF Looped
    <3> QED BY <3>1 DEF States
  <2>6. CASE /\ perms' = perms \cup {k} /\ UNCHANGED lost
             /\ inst' = [inst EXCEPT ![i] = Looped(i, inst[i].made \cup {k})]
    <3> DEFINE made == inst[i].made \cup {k}
    <3>1. /\ made \in SUBSET Perms /\ inst[i].made \subseteq made
          /\ perms' \subseteq perms \cup made /\ inst' = [inst EXCEPT ![i] = Looped(i, made)]
      BY <2>m, <2>6
    <3> HIDE DEF made
    <3> QED BY <2>4, <2>5, <2>6, <3>1
  <2>7. CASE /\ k \in perms /\ UNCHANGED <<perms, lost>>
             /\ inst' = [inst EXCEPT ![i] = Looped(i, inst[i].made)]
    BY <2>4, <2>5, <2>7, <2>m
  <2>8. CASE /\ perms' \in {perms, perms \cup {k}} /\ lost' = lost \cup {k}
             /\ inst' = [inst EXCEPT ![i] = [Looped(i, inst[i].made) EXCEPT !.first = FALSE]]
    BY <2>4, <2>5, <2>8, <2>m
  <2> QED BY <2>1, <2>6, <2>7, <2>8
<1>5. CASE Assign(i)
  <2>0. /\ inst[i].pc = "assign" /\ Carried(i) = inst[i].made
        /\ UNCHANGED <<role, perms, granted, admin, adminRole, lostRole>>
    BY <1>5 DEF Assign, At, Carried, seed
  <2>1. role /\ Perms \subseteq perms \cup lost
    BY <1>0, <2>0 DEF AccessOK, Seeding
  <2>2. CASE inst' = [inst EXCEPT ![i].pc = "commit", ![i].gone = granted] /\ UNCHANGED lost
    <3>1. Others(i) /\ inst'[i].pc = "commit" /\ inst'[i].made = inst[i].made
      BY <1>0, <2>2 DEF InstOK, Others, States
    <3>2. AccessOK(i)' /\ Carried(i)' = inst[i].made
      BY <2>0, <2>1, <2>2, <3>1 DEF AccessOK, Carried
    <3> QED BY <1>0, <1>o, <2>0, <2>2, <3>1, <3>2, MoveAccess
  <2>3. CASE Fail(i, "createUser") /\ lost' = lost \cup inst[i].made
    <3>1. Others(i) /\ inst'[i].pc = "createUser"
      BY <1>f, <1>p, <2>3 DEF Seeding
    <3>2. AccessOK(i)' /\ lost' \subseteq Perms
      BY <1>0, <2>0, <2>1, <2>3, <3>1, FieldTypes DEF AccessOK
    <3> QED BY <1>0, <1>o, <2>0, <2>3, <3>1, <3>2, MoveAccess
  <2> QED BY <1>5, <2>2, <2>3 DEF Assign
<1>6. CASE Commit(i)
  <2>0. /\ inst[i].pc = "commit" /\ Carried(i) = inst[i].made
        /\ UNCHANGED <<role, perms, admin, adminRole, lostRole>>
    BY <1>6 DEF Commit, At, Carried
  <2>1. role /\ Perms \subseteq perms \cup lost
    BY <1>0, <2>0 DEF AccessOK, Seeding
  <2>2. Others(i) /\ inst'[i].pc = "createUser"
    BY <1>6, <1>f, <1>g, <1>p DEF Commit, Seeding
  <2>3. \/ /\ granted' = (granted \ inst[i].gone) \cup inst[i].made
           /\ lost' = lost \cup (inst[i].gone \ inst[i].made)
        \/ lost' = lost \cup inst[i].made /\ UNCHANGED granted
    BY <1>6 DEF Commit
  <2>4. lost \subseteq lost' /\ lost' \subseteq Perms
    BY <1>0, <2>3, FieldTypes
  <2>5. AccessOK(i)'
    BY <2>0, <2>1, <2>2, <2>4 DEF AccessOK
  <2>6. \A p \in perms' \ granted' : p \in lost' \/ (p \in perms \ granted /\ p \notin Carried(i))
    BY <2>0, <2>3
  <2> QED BY <1>0, <1>o, <2>0, <2>2, <2>4, <2>5, <2>6, MoveAccess
<1>7. CASE CreateUser(i)
  <2>0. /\ inst[i].pc = "createUser" /\ Carried(i) = {}
        /\ UNCHANGED <<role, perms, granted, adminRole, lost>>
    BY <1>7 DEF CreateUser, At, Carried
  <2>1. role /\ Perms \ perms \subseteq lost
    BY <1>0, <2>0 DEF AccessOK, Seeding
  <2>2. CASE admin' = TRUE /\ Goto(i, "assignRole") /\ UNCHANGED lostRole
    <3>1. Others(i) /\ inst'[i].pc = "assignRole"
      BY <1>g, <2>2 DEF Seeding
    <3>2. AccessOK(i)'
      BY <2>0, <2>1, <3>1 DEF AccessOK
    <3> QED BY <1>0, <1>o, <2>0, <2>1, <2>2, <3>1, <3>2, MoveAccess
  <2>3. CASE /\ Serve(i) \/ Fail(i, "serve")
             /\ UNCHANGED <<admin, lostRole>> \/ (admin' = TRUE /\ lostRole' = TRUE)
    <3>1. Others(i) /\ inst'[i].pc = "serve"
      BY <1>s, <1>f, <1>p, <2>3
    <3>2. AccessOK(i)'
      BY <1>p, <3>1 DEF AccessOK
    <3>3. CASE UNCHANGED <<admin, lostRole>>
      BY <1>0, <1>o, <2>0, <2>1, <3>1, <3>2, <3>3, MoveAccess
    <3>4. CASE admin' = TRUE /\ lostRole' = TRUE
      BY <1>0, <1>o, <2>0, <2>1, <3>1, <3>2, <3>4, MoveAccess
    <3> QED BY <2>3, <3>3, <3>4
  <2> QED BY <1>7, <2>2, <2>3 DEF CreateUser
<1>8. CASE AssignRole(i)
  <2>0. /\ inst[i].pc = "assignRole" /\ Carried(i) = {}
        /\ UNCHANGED <<role, perms, granted, admin, lost>>
    BY <1>8 DEF AssignRole, At, Carried
  <2>1. Others(i) /\ inst'[i].pc = "serve"
    BY <1>8, <1>s, <1>f, <1>p DEF AssignRole
  <2>2. AccessOK(i)'
    BY <1>p, <2>1 DEF AccessOK
  <2>3. CASE adminRole' = TRUE /\ UNCHANGED lostRole
    BY <1>0, <1>o, <2>0, <2>1, <2>2, <2>3, MoveAccess
  <2>4. CASE adminRole' \in {adminRole, TRUE} /\ lostRole' = TRUE
    BY <1>0, <1>o, <2>0, <2>1, <2>2, <2>4, MoveAccess
  <2> QED BY <1>8, <2>3, <2>4 DEF AssignRole
<1> QED BY <1>1, <1>2, <1>3, <1>4, <1>5, <1>6, <1>7, <1>8 DEF Seed

LEMMA AccessInvariant == Spec => []AccessInv
<1>1. ASSUME Init PROVE AccessInv
  <2>1. perms = {} /\ ~admin /\ lost = {} /\ lostRole = FALSE
    BY <1>1 DEF Init
  <2>2. \A i \in Instances : inst[i].pc = "down"
    BY <1>1 DEF Init, Down
  <2>3. \A i \in Instances : AccessOK(i)
    BY <2>2 DEF AccessOK, Seeding
  <2> QED BY <2>1, <2>3 DEF AccessInv, AccessAccounted
<1>2. ASSUME MigrationInv, AccessInv, [Next]_vars PROVE AccessInv'
  <2>1. ASSUME NEW i \in Instances, Migrate(i) \/ Start(i) \/ Stop(i) PROVE AccessInv'
    <3>1. Others(i) /\ UNCHANGED seed /\ inst'[i].pc \notin Seeding
      BY <1>2, <2>1, NotSeeding
    <3> QED BY <1>2, <2>1, <3>1, CarryNothing, OutsideAccess
  <2>2. CASE UNCHANGED vars
    BY <1>2, <2>2 DEF vars, seed, losses, AccessInv, AccessAccounted, AccessOK, Carried, At
  <2>3. CASE Next
    BY <1>2, <2>1, <2>3, CrashAccess, SeedAccess DEF Next
  <2> QED BY <1>2, <2>2, <2>3
<1> QED BY <1>1, <1>2, MigrationInvariant, PTL DEF Spec

\* TypeOK.
THEOREM SpecTypeOK == Spec => []TypeOK
<1>1. MigrationInv /\ AccessInv => TypeOK
  BY DEF MigrationInv, DataOK, InstOK, AccessInv, TypeOK
<1> QED BY <1>1, MigrationInvariant, AccessInvariant, PTL

\* AccessAccounted: whatever of the admin's access is missing is in the hands
\* of a run, or an error, a kill or another run's replacement has cost it.
THEOREM SpecAccessAccounted == Spec => []AccessAccounted
<1>1. AccessInv => AccessAccounted
  BY DEF AccessInv
<1> QED BY <1>1, AccessInvariant, PTL

-----------------------------------------------------------------------------
(* The first seed.                                                          *)

\* An instance that is not in the seed disturbs nobody.
LEMMA OutsideFirst ==
  ASSUME FirstInv, NEW i \in Instances, Others(i), UNCHANGED <<seed, seeded>>,
         inst'[i].pc \notin Seeding, ~inst'[i].first
  PROVE  FirstInv'
<1>1. FirstOK(i)'
  BY DEF FirstOK
<1>2. ASSUME NEW j \in Instances \ {i} PROVE FirstOK(j)'
  <2>1. inst'[j] = inst[j] /\ FirstOK(j)
    BY DEF Others, FirstInv
  <2>2. Alone(j) => Alone(j)'
    BY DEF Alone, Others
  <2>3. Untouched' = Untouched
    BY DEF Untouched, seed
  <2> QED BY <2>1, <2>2, <2>3 DEF FirstOK, seed
<1>3. seeded' => FullAccess' /\ admin' /\ \A j \in Instances : inst'[j].pc \notin Seeding
  BY DEF FirstInv, Others, FullAccess, seed
<1> QED BY <1>1, <1>2, <1>3 DEF FirstInv

\* While an instance is in the seed, none has ended and no other is undisturbed.
LEMMA InsideFirst ==
  ASSUME FirstInv, NEW i \in Instances, inst[i].pc \in Seeding
  PROVE  ~seeded /\ \A j \in Instances \ {i} : ~inst[j].first
BY DEF FirstInv, FirstOK, Alone

LEMMA MoveFirst ==
  ASSUME FirstInv, NEW i \in Instances, inst[i].pc \in Seeding, Others(i),
         UNCHANGED seeded, FirstOK(i)'
  PROVE  FirstInv'
BY InsideFirst DEF FirstInv, FirstOK, Others

LEMMA EndFirst ==
  ASSUME InstOK, FirstInv, NEW i \in Instances, inst[i].pc \in Seeding, Serve(i),
         inst[i].first => FullAccess' /\ admin'
  PROVE  FirstInv'
<1>1. Others(i) /\ inst'[i].pc = "serve" /\ ~inst'[i].first /\ seeded' = inst[i].first
  BY ServeFacts, InsideFirst DEF Fields, InstOK, States
<1>2. \A j \in Instances : ~inst'[j].first
  BY <1>1, InsideFirst DEF Others
<1>3. inst[i].first => \A j \in Instances : inst'[j].pc \notin Seeding
  BY <1>1 DEF FirstInv, FirstOK, Alone, Others, Seeding
<1> QED BY <1>1, <1>2, <1>3 DEF FirstInv, FirstOK

LEMMA SeedFirst ==
  ASSUME MigrationInv, FirstInv, NEW i \in Instances, Seed(i)
  PROVE  FirstInv'
<1>0. DataOK /\ InstOK /\ RunOK(i) /\ FirstOK(i)
  BY DEF MigrationInv, FirstInv
<1>p. Seeding \subseteq PCs /\ "serve" \in PCs /\ "findAdmin" \notin Seeding
      /\ "serve" \notin Seeding
  BY DEF PCs, Seeding
<1>a. Others(i) /\ Alone(i) => Alone(i)'
  BY DEF Others, Alone
<1>f. ASSUME NEW pc \in PCs, Fail(i, pc), inst[i].pc \in Seeding PROVE FirstInv'
  <2>1. Others(i) /\ ~inst'[i].first /\ seeded' = seeded
    BY <1>0, <1>f, FailFacts DEF Fields
  <2> QED BY <1>f, <2>1, MoveFirst DEF FirstOK
<1>g. ASSUME NEW pc \in Seeding, Goto(i, pc)
      PROVE  /\ Others(i) /\ inst'[i].pc = pc /\ inst'[i].todo = inst[i].todo
             /\ inst'[i].made = inst[i].made /\ inst'[i].first = inst[i].first
  BY <1>0, <1>p, <1>g, GotoFacts DEF Fields
<1>l. ASSUME StartPerms(i)
      PROVE  /\ Others(i) /\ inst'[i].pc = "createPerm" /\ inst'[i].todo = Perms
             /\ inst'[i].made = inst[i].made /\ inst'[i].first = inst[i].first
  BY <1>0, <1>l, StartPermsFacts DEF Fields
<1>1. CASE FindAdmin(i)
  <2>0. inst[i].pc = "findAdmin" /\ ~inst[i].first /\ UNCHANGED seed
    BY <1>0, <1>1, <1>p DEF FindAdmin, At, FirstOK
  <2>1. CASE Serve(i)
    <3>1. Others(i) /\ inst'[i].pc = "serve" /\ ~inst'[i].first /\ seeded' = (seeded \/ inst[i].first)
      BY <1>0, <2>1, ServeFacts DEF Fields
    <3>2. seeded' = seeded
      BY <1>0, <2>0, <3>1 DEF DataOK
    <3> QED BY <1>p, <2>0, <3>1, <3>2, OutsideFirst
  <2>2. CASE /\ ~admin
             /\ inst' = [j \in Instances |->
                  IF j = i THEN [inst[i] EXCEPT !.pc = "findRole", !.first = Untouched /\ Alone(i)]
                  ELSE [inst[j] EXCEPT !.first = FALSE]]
             /\ UNCHANGED <<seeded, bounds>>
    <3>b. (Untouched /\ Alone(i)) \in BOOLEAN
      BY DEF Untouched, Alone
    <3>1. /\ inst'[i].pc = "findRole" /\ inst'[i].first = (Untouched /\ Alone(i))
          /\ \A j \in Instances \ {i} : inst'[j].pc = inst[j].pc /\ ~inst'[j].first
      BY <1>0, <2>2, <3>b, FindFacts DEF Fields
    <3>2. Alone(i) => Alone(i)'
      BY <3>1 DEF Alone
    <3>3. Untouched' = Untouched /\ (Untouched => ~adminRole')
      BY <2>0 DEF Untouched, seed
    <3>4. FirstOK(i)'
      BY <3>1, <3>2, <3>3 DEF FirstOK, Seeding
    <3>5. \A j \in Instances \ {i} : FirstOK(j)'
      BY <3>1 DEF FirstOK
    <3>6. ~seeded'
      BY <2>2 DEF FirstInv
    <3> QED BY <3>4, <3>5, <3>6 DEF FirstInv
  <2>3. CASE Fail(i, "serve")
    <3>1. Others(i) /\ inst'[i].pc = "serve" /\ ~inst'[i].first /\ seeded' = seeded
      BY <1>0, <1>p, <2>3, FailFacts DEF Fields
    <3> QED BY <1>p, <2>0, <3>1, OutsideFirst
  <2> QED BY <1>1, <2>1, <2>2, <2>3 DEF FindAdmin
<1>2. CASE FindRole(i)
  <2>0. inst[i].pc = "findRole" /\ inst[i].pc \in Seeding /\ UNCHANGED seed
    BY <1>2 DEF FindRole, At, Seeding
  <2>1. inst[i].first => Untouched /\ Alone(i) /\ ~adminRole
    BY <1>0, <2>0 DEF FirstOK
  <2>2. CASE role /\ StartPerms(i) /\ UNCHANGED seeded
    <3>1. ~inst'[i].first
      BY <1>l, <2>1, <2>2 DEF Untouched
    <3> QED BY <1>l, <2>0, <2>2, <3>1, MoveFirst DEF FirstOK
  <2>3. CASE Goto(i, "createRole") /\ UNCHANGED seeded
    <3>1. Untouched' = Untouched
      BY <2>0 DEF Untouched, seed
    <3>2. FirstOK(i)'
      BY <1>a, <1>g, <2>0, <2>1, <2>3, <3>1 DEF FirstOK, Seeding, seed
    <3> QED BY <1>g, <2>0, <2>3, <3>2, MoveFirst DEF Seeding
  <2> QED BY <1>2, <1>f, <1>p, <2>0, <2>2, <2>3 DEF FindRole
<1>3. CASE CreateRole(i)
  <2>0. inst[i].pc = "createRole" /\ inst[i].pc \in Seeding
        /\ UNCHANGED <<perms, granted, admin, adminRole>>
    BY <1>3 DEF CreateRole, At, Seeding
  <2>1. inst[i].first => Untouched /\ Alone(i) /\ ~adminRole
    BY <1>0, <2>0 DEF FirstOK
  <2>2. CASE StartPerms(i) /\ UNCHANGED seeded
    <3>1. inst[i].made = {}
      BY <1>0, <2>0 DEF RunOK
    <3>2. FirstOK(i)'
      BY <1>a, <1>l, <2>0, <2>1, <2>2, <3>1 DEF FirstOK, Seeding, Untouched
    <3> QED BY <1>l, <2>0, <2>2, <3>2, MoveFirst
  <2>3. CASE role /\ Serve(i)
    BY <1>0, <2>0, <2>1, <2>3, EndFirst DEF Untouched
  <2> QED BY <1>3, <1>f, <1>p, <2>0, <2>2, <2>3 DEF CreateRole
<1>4. CASE CreatePerm(i)
  <2>0. PICK k \in Reached(i) : CreatePerm(i)!(k)
    BY <1>4 DEF CreatePerm
  <2>a. /\ inst[i].pc = "createPerm" /\ inst[i].pc \in Seeding
        /\ UNCHANGED <<granted, admin, adminRole, seeded>>
    BY <2>0 DEF At, Seeding
  <2>1. k \in inst[i].todo /\ k \in Perms /\ inst[i].todo \subseteq Perms /\ inst[i].made \subseteq Perms
    BY <1>0, <2>a, ReachedFacts, FieldTypes DEF RunOK
  <2>2. inst[i].first => /\ inst[i].made = perms /\ perms = Perms \ inst[i].todo
                         /\ granted = {} /\ ~admin /\ Alone(i) /\ ~adminRole
    BY <1>0, <2>a DEF FirstOK
  <2>3. CASE perms' = perms \cup {k} /\ inst' = [inst EXCEPT ![i] = Looped(i, inst[i].made \cup {k})]
    <3> DEFINE made == inst[i].made \cup {k}
               r == Looped(i, made)
    <3>1. made \in SUBSET Perms /\ made # {}
      BY <2>1
    <3> HIDE DEF made
    <3>2. /\ r \in States /\ r.todo = inst[i].todo \ {k} /\ r.made = made /\ r.first = inst[i].first
          /\ r.pc = IF ~(inst[i].todo \subseteq {k}) THEN "createPerm" ELSE "assign"
      BY <1>0, <3>1, LoopedFacts
    <3>3. inst' = [inst EXCEPT ![i] = r]
      BY <2>3 DEF made
    <3> HIDE DEF r
    <3>4. /\ Others(i) /\ inst'[i].pc = r.pc /\ inst'[i].todo = r.todo /\ inst'[i].made = r.made
          /\ inst'[i].first = r.first
      BY <1>0, <3>2, <3>3, Replace DEF Fields
    <3>5. inst[i].first => made = Perms \ (inst[i].todo \ {k}) /\ perms' = made
      BY <2>1, <2>2, <2>3 DEF made
    <3>6. FirstOK(i)'
      BY <1>a, <2>a, <2>2, <3>2, <3>4, <3>5 DEF FirstOK, Seeding
    <3> QED BY <2>a, <3>4, <3>6, MoveFirst
  <2>4. CASE k \in perms /\ inst' = [inst EXCEPT ![i] = Looped(i, inst[i].made)]
    <3> DEFINE r == Looped(i, inst[i].made)
    <3>1. r \in States /\ r.first = inst[i].first
      BY <1>0, <2>1, LoopedFacts
    <3>2. inst' = [inst EXCEPT ![i] = r]
      BY <2>4
    <3> HIDE DEF r
    <3>3. Others(i) /\ inst'[i].first = inst[i].first
      BY <1>0, <3>1, <3>2, Replace DEF Fields
    <3>4. ~inst[i].first
      BY <2>1, <2>2, <2>4
    <3> QED BY <2>a, <3>3, <3>4, MoveFirst DEF FirstOK
  <2>5. CASE inst' = [inst EXCEPT ![i] = [Looped(i, inst[i].made) EXCEPT !.first = FALSE]]
    <3> DEFINE q == Looped(i, inst[i].made)
               r == [q EXCEPT !.first = FALSE]
    <3>1. q \in States
      BY <1>0, <2>1, LoopedFacts
    <3>2. inst' = [inst EXCEPT ![i] = r]
      BY <2>5
    <3> HIDE DEF q
    <3>3. r \in States /\ r.first = FALSE
      BY <3>1 DEF States
    <3> HIDE DEF r
    <3>4. Others(i) /\ ~inst'[i].first
      BY <1>0, <3>2, <3>3, Replace DEF Fields
    <3> QED BY <2>a, <3>4, MoveFirst DEF FirstOK
  <2> QED BY <2>0, <2>3, <2>4, <2>5
<1>5. CASE Assign(i)
  <2>0. inst[i].pc = "assign" /\ inst[i].pc \in Seeding /\ UNCHANGED seed
    BY <1>5 DEF Assign, At, Seeding
  <2>1. CASE inst' = [inst EXCEPT ![i].pc = "commit", ![i].gone = granted] /\ UNCHANGED seeded
    <3>1. Others(i) /\ inst'[i].pc = "commit" /\ inst'[i].made = inst[i].made
          /\ inst'[i].first = inst[i].first
      BY <1>0, <2>1 DEF InstOK, Others, States
    <3>2. FirstOK(i)'
      BY <1>0, <1>a, <2>0, <3>1 DEF FirstOK, Seeding, seed
    <3> QED BY <2>0, <2>1, <3>1, <3>2, MoveFirst
  <2> QED BY <1>5, <1>f, <1>p, <2>0, <2>1 DEF Assign, Seeding
<1>6. CASE Commit(i)
  <2>0. inst[i].pc = "commit" /\ inst[i].pc \in Seeding /\ UNCHANGED <<admin, adminRole>>
    BY <1>6 DEF Commit, At, Seeding
  <2>1. CASE /\ granted' = (granted \ inst[i].gone) \cup inst[i].made
             /\ Goto(i, "createUser") /\ UNCHANGED seeded
    <3>1. Others(i) /\ inst'[i].pc = "createUser" /\ inst'[i].first = inst[i].first
      BY <1>g, <2>1 DEF Seeding
    <3>2. FirstOK(i)'
      BY <1>0, <1>a, <2>0, <2>1, <3>1 DEF FirstOK, Seeding
    <3> QED BY <2>0, <2>1, <3>1, <3>2, MoveFirst
  <2> QED BY <1>6, <1>f, <1>p, <2>0, <2>1 DEF Commit, Seeding
<1>7. CASE CreateUser(i)
  <2>0. inst[i].pc = "createUser" /\ inst[i].pc \in Seeding /\ UNCHANGED <<granted, adminRole>>
    BY <1>7 DEF CreateUser, At, Seeding
  <2>1. CASE admin' = TRUE /\ Goto(i, "assignRole") /\ UNCHANGED seeded
    <3>1. Others(i) /\ inst'[i].pc = "assignRole" /\ inst'[i].first = inst[i].first
      BY <1>g, <2>1 DEF Seeding
    <3>2. FirstOK(i)'
      BY <1>0, <1>a, <2>0, <2>1, <3>1 DEF FirstOK, Seeding
    <3> QED BY <2>0, <2>1, <3>1, <3>2, MoveFirst
  <2>2. CASE admin /\ Serve(i)
    BY <1>0, <2>0, <2>2, EndFirst DEF FirstOK
  <2> QED BY <1>7, <1>f, <1>p, <2>0, <2>1, <2>2 DEF CreateUser
<1>8. CASE AssignRole(i)
  <2>0. inst[i].pc = "assignRole" /\ inst[i].pc \in Seeding /\ UNCHANGED <<granted, admin>>
    BY <1>8 DEF AssignRole, At, Seeding
  <2>1. CASE adminRole' = TRUE /\ Serve(i)
    <3>1. inst[i].first => FullAccess' /\ admin'
      BY <1>0, <2>0, <2>1 DEF FirstOK, FullAccess
    <3> QED BY <1>0, <2>0, <2>1, <3>1, EndFirst
  <2> QED BY <1>8, <1>f, <1>p, <2>0, <2>1 DEF AssignRole
<1> QED BY <1>1, <1>2, <1>3, <1>4, <1>5, <1>6, <1>7, <1>8 DEF Seed

LEMMA FirstInvariant == Spec => []FirstInv
<1>1. Init => FirstInv
  BY DEF Init, FirstInv, FirstOK, Down
<1>2. ASSUME MigrationInv, FirstInv, [Next]_vars PROVE FirstInv'
  <2>1. ASSUME NEW i \in Instances, Migrate(i) \/ Start(i) \/ Stop(i) \/ Crash(i) PROVE FirstInv'
    <3>1. /\ Others(i) /\ UNCHANGED <<seed, seeded>> /\ inst'[i].pc \notin Seeding
          /\ ~inst'[i].first \/ (inst'[i].first = inst[i].first /\ inst[i].pc \notin Seeding)
      BY <1>2, <2>1, NotSeeding
    <3>2. ~inst'[i].first
      BY <1>2, <3>1 DEF FirstInv, FirstOK
    <3> QED BY <1>2, <3>1, <3>2, OutsideFirst
  <2>2. CASE UNCHANGED vars
    BY <1>2, <2>2 DEF vars, seed, FirstInv, FirstOK, Alone, Untouched, FullAccess
  <2>3. CASE Next
    BY <1>2, <2>1, <2>3, SeedFirst DEF Next
  <2> QED BY <1>2, <2>2, <2>3
<1> QED BY <1>1, <1>2, MigrationInvariant, PTL DEF Spec

\* FirstSeedLasts: an undisturbed first seed gives the admin everything, and no
\* later start takes anything away.
THEOREM SpecFirstSeedLasts == Spec => []FirstSeedLasts
<1>1. FirstInv => FirstSeedLasts
  BY DEF FirstInv, FirstSeedLasts
<1> QED BY <1>1, FirstInvariant, PTL

=============================================================================
