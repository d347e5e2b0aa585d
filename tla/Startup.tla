------------------------------ MODULE Startup ------------------------------
(***************************************************************************)
(* The start of the service (cmd/api/main.go): RunMigrations                *)
(* (internal/database/migrate.go) and then SeedDefaultAdmin                 *)
(* (admin_service.go), by any number of instances on one database, which    *)
(* are started, stopped and killed at any time.                             *)
(*                                                                          *)
(* An action is one SQL statement outside a transaction, the DDL of a       *)
(* migration, or a commit.  An error in RunMigrations ends the process      *)
(* (logger.Fatal); an error in SeedDefaultAdmin ends or shortens the seed,  *)
(* and the process serves all the same.                                     *)
(***************************************************************************)
EXTENDS Naturals

CONSTANTS
  Instances,   \* processes that run the service
  NumFiles,    \* migrations/*.up.sql
  NumPerms,    \* basePermissions
  MaxFaults,   \* bound on failed statements
  MaxCrashes   \* bound on killed processes

ASSUME NumbersAssumption ==
  /\ NumFiles \in Nat \ {0} /\ NumPerms \in Nat \ {0}
  /\ MaxFaults \in Nat /\ MaxCrashes \in Nat

Files == 1..NumFiles  \* in the order of sort.Strings
Perms == 1..NumPerms

VARIABLES
  versions,   \* rows of schema_migrations
  schema,     \* migrations whose DDL the database has
  role,       \* the row of the role "admin" exists
  perms,      \* permissions rows, of the base permissions
  granted,    \* role_permissions of the role "admin"
  admin,      \* the users row of the default admin exists
  adminRole,  \* its user_roles row exists
  inst,       \* what each instance is doing
  seeded,     \* history: an undisturbed first seed has ended
  lost,       \* history: permissions whose INSERT or assignment an error or a
              \* kill cut short, or whose grant another run has deleted
  lostRole,   \* history: the same happened to the role of the admin
  faults, crashes

migrations == <<versions, schema>>
seed == <<role, perms, granted, admin, adminRole>>
losses == <<lost, lostRole>>
bounds == <<faults, crashes>>
vars == <<migrations, seed, inst, seeded, losses, bounds>>

Migrating == {"table", "read", "exec", "record"}
Seeding == {"findRole", "createRole", "createPerm", "assign", "commit",
            "createUser", "assignRole"}
\* todo: the files or permissions the loop has not reached; made: the
\* permissions this run has created; gone: the rows its DELETE has seen.
\* first: the run found nothing seeded, and nothing has disturbed it so far.
States == [pc: {"down", "findAdmin", "serve"} \cup Migrating \cup Seeding,
           todo: SUBSET (Files \cup Perms), made: SUBSET Perms,
           gone: SUBSET Perms, first: BOOLEAN]
Down == [pc |-> "down", todo |-> {}, made |-> {}, gone |-> {}, first |-> FALSE]

At(i, pc) == inst[i].pc = pc
Goto(i, pc) == inst' = [inst EXCEPT ![i].pc = pc]
\* What the loop of instance i has reached: the least of what is left.
Reached(i) == {k \in inst[i].todo : \A j \in inst[i].todo : k <= j}

\* A statement fails, and the run of instance i goes on at pc.
Fail(i, pc) ==
  /\ faults < MaxFaults /\ faults' = faults + 1
  /\ inst' = [inst EXCEPT ![i].pc = pc, ![i].first = FALSE]
  /\ UNCHANGED <<crashes, seeded>>
\* A failed statement in RunMigrations: logger.Fatal.
Fatal(i) ==
  /\ faults < MaxFaults /\ faults' = faults + 1
  /\ inst' = [inst EXCEPT ![i] = Down]
  /\ UNCHANGED <<crashes, seeded, seed>>
Die(i) == inst' = [inst EXCEPT ![i] = Down]

Init ==
  /\ versions = {} /\ schema = {}
  /\ role = FALSE /\ perms = {} /\ granted = {}
  /\ admin = FALSE /\ adminRole = FALSE
  /\ inst = [i \in Instances |-> Down]
  /\ seeded = FALSE /\ lost = {} /\ lostRole = FALSE
  /\ faults = 0 /\ crashes = 0

-----------------------------------------------------------------------------
(* RunMigrations.                                                           *)

Start(i) ==
  /\ At(i, "down") /\ Goto(i, "table")
  /\ UNCHANGED <<migrations, seed, seeded, losses, bounds>>

\* createMigrationsTable; two at once can also fail on the catalogue's keys.
CreateTable(i) ==
  /\ At(i, "table")
  /\ \/ Goto(i, "read") /\ UNCHANGED <<seed, seeded, bounds>>
     \/ Fatal(i)
  /\ UNCHANGED <<migrations, losses>>

\* getAppliedMigrations: what is pending is decided here, once.  rows.Err() is
\* not looked at, so a result that breaks off counts as all there is.
ReadApplied(i) ==
  LET Pending(read) ==
        inst' = [inst EXCEPT ![i].pc = IF Files \subseteq read THEN "findAdmin" ELSE "exec",
                             ![i].todo = Files \ read]
  IN
  /\ At(i, "read")
  /\ \/ Pending(versions) /\ UNCHANGED <<seed, seeded, bounds>>
     \/ /\ faults < MaxFaults /\ faults' = faults + 1
        /\ \E read \in SUBSET versions : Pending(read)
        /\ UNCHANGED <<seed, seeded, crashes>>
     \/ Fatal(i)
  /\ UNCHANGED <<migrations, losses>>

\* An open transaction has created the objects of file v; another one that
\* creates them too waits for its end on the keys of the catalogue.
Holds(i, v) == At(i, "record") /\ v \in Reached(i)

\* Mutant: the DDL runs outside the transaction.
ExecAutocommit(i) ==
  /\ At(i, "exec") /\ schema' = schema \cup Reached(i) /\ Goto(i, "record")
  /\ UNCHANGED <<versions, seed, seeded, losses, bounds>>

\* BEGIN and the DDL.  If another instance has committed the file since this
\* one read the versions, a CREATE INDEX fails (fixCreateTableStatements
\* adds IF NOT EXISTS to tables only); a file without one succeeds.
Exec(i) ==
  /\ At(i, "exec")
  /\ \A v \in Reached(i), j \in Instances \ {i} : ~Holds(j, v)
  /\ \/ Goto(i, "record") /\ UNCHANGED <<seed, seeded, bounds>>
     \/ Reached(i) \subseteq schema /\ Die(i) /\ UNCHANGED <<seed, seeded, bounds>>
     \/ Fatal(i)
  /\ UNCHANGED <<migrations, losses>>

\* The instance goes on to its next file, or to the seed.
Applied(i) ==
  LET rest == inst[i].todo \ Reached(i) IN
  inst' = [inst EXCEPT ![i].todo = rest,
                       ![i].pc = IF rest = {} THEN "findAdmin" ELSE "exec"]

\* Mutant: a migration that fails is skipped.
RecordOrSkip(i) ==
  /\ At(i, "record") /\ Applied(i)
  /\ \/ /\ versions' = versions \cup Reached(i) /\ schema' = schema \cup Reached(i)
        /\ UNCHANGED faults
     \/ /\ faults < MaxFaults /\ faults' = faults + 1
        /\ UNCHANGED <<versions, schema>>
  /\ UNCHANGED <<seed, seeded, losses, crashes>>

\* INSERT INTO schema_migrations and COMMIT, which make the DDL visible too.
\* The version is UNIQUE, so an instance that lost the race fails here.  A
\* COMMIT that is answered with an error may have taken effect.
Record(i) == \E v \in Reached(i) :
  /\ At(i, "record")
  /\ \/ /\ v \notin versions /\ Applied(i)
        /\ versions' = versions \cup {v} /\ schema' = schema \cup {v}
        /\ UNCHANGED <<seed, seeded, bounds>>
     \/ /\ v \in versions /\ Die(i)
        /\ UNCHANGED <<migrations, seed, seeded, bounds>>
     \/ /\ Fatal(i)
        /\ \/ UNCHANGED migrations
           \/ /\ v \notin versions
              /\ versions' = versions \cup {v} /\ schema' = schema \cup {v}
  /\ UNCHANGED losses

-----------------------------------------------------------------------------
(* SeedDefaultAdmin.                                                        *)

Serve(i) ==
  /\ inst' = [inst EXCEPT ![i] = [Down EXCEPT !.pc = "serve"]]
  /\ seeded' = (seeded \/ inst[i].first)

\* Nobody else is between its look for the admin and the end of its seed.
Alone(i) == \A j \in Instances \ {i} : inst[j].pc \notin Seeding
Untouched == ~role /\ perms = {} /\ granted = {} /\ ~admin /\ ~adminRole

\* FindByEmail: a run that finds the admin leaves everything as it is.
FindAdmin(i) ==
  /\ At(i, "findAdmin")
  /\ \/ admin /\ Serve(i) /\ UNCHANGED bounds
     \/ /\ ~admin
        /\ inst' = [j \in Instances |->
             IF j = i THEN [inst[i] EXCEPT !.pc = "findRole", !.first = Untouched /\ Alone(i)]
             ELSE [inst[j] EXCEPT !.first = FALSE]]
        /\ UNCHANGED <<seeded, bounds>>
     \/ Fail(i, "serve")
  /\ UNCHANGED <<migrations, seed, losses>>

\* The loop over basePermissions starts.
StartPerms(i) ==
  inst' = [inst EXCEPT ![i].pc = "createPerm", ![i].todo = Perms]

\* Mutant: a run that finds the role takes its permissions to be there too.
FindRoleSkips(i) ==
  /\ At(i, "findRole") /\ Goto(i, IF role THEN "createUser" ELSE "createRole")
  /\ UNCHANGED <<migrations, seed, seeded, losses, bounds>>

FindRole(i) ==
  /\ At(i, "findRole")
  /\ \/ role /\ StartPerms(i) /\ UNCHANGED <<seeded, bounds>>
     \/ ~role /\ Goto(i, "createRole") /\ UNCHANGED <<seeded, bounds>>
     \/ Fail(i, "serve")
  /\ UNCHANGED <<migrations, seed, losses>>

\* The name is UNIQUE: of two instances one fails and serves.  An INSERT that
\* is answered with an error may have taken effect.
CreateRole(i) ==
  /\ At(i, "createRole")
  /\ \/ ~role /\ role' = TRUE /\ StartPerms(i) /\ UNCHANGED <<seeded, bounds>>
     \/ role /\ Serve(i) /\ UNCHANGED <<role, bounds>>
     \/ Fail(i, "serve") /\ role' \in {role, TRUE}
  /\ UNCHANGED <<migrations, perms, granted, admin, adminRole, losses>>

\* The loop goes on to the next permission, or leaves; the permissions are
\* assigned only if this run created some.
Looped(i, made) ==
  LET rest == inst[i].todo \ Reached(i) IN
  [inst[i] EXCEPT !.todo = rest, !.made = made,
                  !.pc = IF rest # {} THEN "createPerm"
                         ELSE IF made # {} THEN "assign" ELSE "createUser"]

\* Mutant: a permission that exists already is tried again.
CreatePermRetry(i) == \E k \in Reached(i) :
  /\ At(i, "createPerm")
  /\ \/ /\ k \notin perms /\ perms' = perms \cup {k}
        /\ inst' = [inst EXCEPT ![i] = Looped(i, inst[i].made \cup {k})]
     \/ k \in perms /\ UNCHANGED <<perms, inst>>
  /\ UNCHANGED <<migrations, role, granted, admin, adminRole, seeded, losses, bounds>>
\* Mutant: only the last permission is remembered.
CreatePermLast(i) == \E k \in Reached(i) :
  /\ At(i, "createPerm") /\ perms' = perms \cup {k}
  /\ inst' = [inst EXCEPT ![i] = Looped(i, {k})]
  /\ UNCHANGED <<migrations, role, granted, admin, adminRole, seeded, losses, bounds>>

\* permRepo.Create; a permission that exists (its name is UNIQUE), or whose
\* INSERT fails, is skipped and not assigned.
CreatePerm(i) == \E k \in Reached(i) :
  LET made == inst[i].made IN
  /\ At(i, "createPerm")
  /\ \/ /\ k \notin perms /\ perms' = perms \cup {k}
        /\ inst' = [inst EXCEPT ![i] = Looped(i, made \cup {k})]
        /\ UNCHANGED <<lost, faults>>
     \/ /\ k \in perms /\ UNCHANGED <<perms, lost, faults>>
        /\ inst' = [inst EXCEPT ![i] = Looped(i, made)]
     \/ /\ faults < MaxFaults /\ faults' = faults + 1
        /\ perms' \in {perms, perms \cup {k}} /\ lost' = lost \cup {k}
        /\ inst' = [inst EXCEPT ![i] = [Looped(i, made) EXCEPT !.first = FALSE]]
  /\ UNCHANGED <<migrations, role, granted, admin, adminRole, seeded, lostRole, crashes>>

\* AssignPermissions: its DELETE removes the rows committed by now ...
Assign(i) ==
  /\ At(i, "assign")
  /\ \/ /\ inst' = [inst EXCEPT ![i].pc = "commit", ![i].gone = granted]
        /\ UNCHANGED <<seeded, lost, bounds>>
     \/ Fail(i, "createUser") /\ lost' = lost \cup inst[i].made
  /\ UNCHANGED <<migrations, seed, lostRole>>

\* ... and the COMMIT puts the permissions of this run in their place; rows of
\* a transaction that overlapped stay (READ COMMITTED).
Commit(i) ==
  LET made == inst[i].made
      Replaced == /\ granted' = (granted \ inst[i].gone) \cup made
                  /\ lost' = lost \cup (inst[i].gone \ made)
  IN
  /\ At(i, "commit")
  /\ \/ Replaced /\ Goto(i, "createUser") /\ UNCHANGED <<seeded, bounds>>
     \/ /\ Fail(i, "createUser")
        /\ Replaced \/ (lost' = lost \cup made /\ UNCHANGED granted)
  /\ UNCHANGED <<migrations, role, perms, admin, adminRole, lostRole>>

\* The e-mail is UNIQUE: of two instances one fails and serves.
CreateUser(i) ==
  /\ At(i, "createUser")
  /\ \/ /\ ~admin /\ admin' = TRUE /\ Goto(i, "assignRole")
        /\ UNCHANGED <<seeded, lostRole, bounds>>
     \/ admin /\ Serve(i) /\ UNCHANGED <<admin, lostRole, bounds>>
     \/ /\ Fail(i, "serve")
        /\ \/ UNCHANGED <<admin, lostRole>>
           \/ ~admin /\ admin' = TRUE /\ lostRole' = TRUE
  /\ UNCHANGED <<migrations, role, perms, granted, adminRole, lost>>

AssignRole(i) ==
  /\ At(i, "assignRole")
  /\ \/ adminRole' = TRUE /\ Serve(i) /\ UNCHANGED <<lostRole, bounds>>
     \/ Fail(i, "serve") /\ adminRole' \in {adminRole, TRUE} /\ lostRole' = TRUE
  /\ UNCHANGED <<migrations, role, perms, granted, admin, lost>>

-----------------------------------------------------------------------------
\* SIGTERM while serving.
Stop(i) ==
  /\ At(i, "serve") /\ Die(i)
  /\ UNCHANGED <<migrations, seed, seeded, losses, bounds>>

\* The permissions that instance i has created and is going to assign.
Carried(i) == IF inst[i].pc \in {"createPerm", "assign", "commit"}
              THEN inst[i].made ELSE {}

\* The process is killed; the database rolls an open transaction back.
Crash(i) ==
  /\ inst[i].pc \notin {"down", "serve"}
  /\ crashes < MaxCrashes /\ crashes' = crashes + 1
  /\ Die(i)
  /\ lost' = lost \cup Carried(i) /\ lostRole' = (lostRole \/ At(i, "assignRole"))
  /\ UNCHANGED <<migrations, seed, seeded, faults>>

Migrate(i) == CreateTable(i) \/ ReadApplied(i) \/ Exec(i) \/ Record(i)
Seed(i) ==
  \/ FindAdmin(i) \/ FindRole(i) \/ CreateRole(i) \/ CreatePerm(i)
  \/ Assign(i) \/ Commit(i) \/ CreateUser(i) \/ AssignRole(i)

Next == \E i \in Instances : Start(i) \/ Migrate(i) \/ Seed(i) \/ Stop(i) \/ Crash(i)

Spec == Init /\ [][Next]_vars

\* A process that has been started runs on.
FairSpec == Spec /\ \A i \in Instances : WF_vars(Migrate(i) \/ Seed(i))

-----------------------------------------------------------------------------
(* Properties.                                                              *)

TypeOK ==
  /\ versions \subseteq Files /\ schema \subseteq Files
  /\ role \in BOOLEAN /\ perms \subseteq Perms /\ granted \subseteq Perms
  /\ admin \in BOOLEAN /\ adminRole \in BOOLEAN
  /\ inst \in [Instances -> States]
  /\ seeded \in BOOLEAN /\ lost \subseteq Perms /\ lostRole \in BOOLEAN
  /\ faults \in 0..MaxFaults /\ crashes \in 0..MaxCrashes

\* The schema never runs ahead of schema_migrations or behind it, wherever a
\* process dies, and an instance that seeds or serves has the whole schema
\* under it, though it decided what was pending long before.
SchemaRecorded ==
  /\ schema = versions
  /\ \A i \in Instances :
       inst[i].pc \in Seeding \cup {"findAdmin", "serve"} => versions = Files

\* The files are applied one at a time, in order, each once.
Log == INSTANCE MigrationLog WITH log <- versions
Implements == Log!Spec

\* What keeps the admin from full access always has a cause that can be named.
\* A base permission is missing, or is not granted, only when its own INSERT
\* failed (taken for "may already exist"), when the run that created it failed
\* or was killed before it assigned it, or when another run has replaced the
\* role's permissions; or while the run that created it is on its way there.
\* The admin, which makes every later start skip the seed, comes after the role
\* and the permissions; its own role comes after it, and is missing only while
\* that run lives or when an error or a kill came in between.  A death anywhere
\* else takes nothing away: the next start makes up for it.
AccessAccounted ==
  /\ \A p \in perms \ granted : p \in lost \/ \E i \in Instances : p \in Carried(i)
  /\ admin => role /\ Perms \ perms \subseteq lost
  /\ admin => adminRole \/ lostRole \/ \E i \in Instances : At(i, "assignRole")

\* The admin may do everything.
FullAccess == adminRole /\ granted = Perms

\* A first seed that no other run overlaps, and in which no statement fails,
\* gives the admin full access, and no later start takes anything away.
FirstSeedLasts == seeded => FullAccess

\* A start ends: with a server or with a process that has given up; no
\* instance waits for ever for another, dead or alive.
StartEnds == \A i \in Instances :
  At(i, "table") ~> (At(i, "serve") \/ At(i, "down"))

-----------------------------------------------------------------------------
(* What the documentation says and the code does not do.                    *)

\* README: "On first run, the API automatically seeds an admin user with full
\* access": when all instances serve and no statement failed, it has.
SeededWhenServing ==
  faults = 0 /\ (\A i \in Instances : At(i, "serve")) => FullAccess
=============================================================================
