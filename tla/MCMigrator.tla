----------------------------- MODULE MCMigrator -----------------------------
(* Small instances of Migrator for TLC. *)
EXTENDS Migrator, TLC

\* The first seeder is blank.
BlankFiles == [c \in Catalogue |-> IF c = "seeders" THEN {1} ELSE {}]
=============================================================================
