---------------------------- MODULE MigrationLog ----------------------------
(***************************************************************************)
(* What RunMigrations (internal/database/migrate.go) promises about the     *)
(* schema: it moves through the migration files one at a time, in order,    *)
(* each file once, however many processes start at the same time and        *)
(* whenever they die.                                                       *)
(***************************************************************************)
EXTENDS Naturals

CONSTANT NumFiles

VARIABLE log  \* the files the database has applied

Init == log = {}
Next == \E n \in 1..NumFiles : log = 1..(n - 1) /\ log' = 1..n
Spec == Init /\ [][Next]_log
=============================================================================
