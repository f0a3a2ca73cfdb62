------------------------------ MODULE Migrator ------------------------------
(***************************************************************************)
(* The commands migrate, seed and fresh of cmd/cli, run against one        *)
(* database by several people or deployments at once.  Nothing in the code *)
(* keeps them apart but the primary keys of the bookkeeping tables.        *)
(*                                                                         *)
(* A run goes through the files of a catalogue (the migrations or the      *)
(* seeders) in order: check, read, execute and record in one transaction,  *)
(* commit.  The first error ends the process (log.Fatalf), and PostgreSQL  *)
(* rolls back what it had not committed.                                   *)
(*                                                                         *)
(* Simplifications: every run has the same files; a statement that fails   *)
(* because of what other files did is the fault of the file and counts     *)
(* under Faults; dump changes nothing.                                     *)
(***************************************************************************)
EXTENDS Naturals, Sequences, FiniteSets

CONSTANTS
  Run,       \* invocations of the CLI, each of them once
  Commands,  \* which commands are in use: "migrate", "seed", "fresh"
  LastFile,  \* files are 1..LastFile in the order of their names
  Blank,     \* Blank[c]: the files of c with nothing in them
  Faults     \* may statements fail, processes be killed, commits lose
             \* their answer?

ASSUME CommandsAssumption == Commands \subseteq {"migrate", "seed", "fresh"}
Catalogue == {"migrations", "seeders"}

ASSUME FilesAssumption    ==
  LastFile \in Nat \ {0} /\ Blank \in [Catalogue -> SUBSET (1..LastFile)]
ASSUME FaultsAssumption   == Faults \in BOOLEAN

VARIABLES
  exists,    \* exists[c]: is c's bookkeeping table there?
  recorded,  \* recorded[c]: the names committed in it
  effects,   \* effects[c]: the files whose work is committed, in that order
  pc, cmd,   \* what a run does next, and which command it is
  at,        \* the catalogue a run works on
  file,      \* the file it has come to
  noted      \* has its transaction inserted the file's name?

database == <<exists, recorded, effects>>
run      == <<pc, cmd, at, file, noted>>
vars     == <<database, run>>

Over == {"done", "failed", "killed"}  \* killed: by a fault of its own
Open == {"record", "commit"}  \* in a transaction that has done something
PC   == {"idle", "reset", "ensure", "create", "check", "exec", "blank"} \cup Open \cup Over

Init ==
  /\ exists   = [c \in Catalogue |-> FALSE]
  /\ recorded = [c \in Catalogue |-> {}]
  /\ effects  = [c \in Catalogue |-> <<>>]
  /\ pc    = [r \in Run |-> "idle"]
  /\ cmd   = [r \in Run |-> "migrate"]
  /\ at    = [r \in Run |-> "migrations"]
  /\ file  = [r \in Run |-> 1]
  /\ noted = [r \in Run |-> FALSE]

Goto(r, where) == pc' = [pc EXCEPT ![r] = where]

\* r moves on within its command.
Move(r, where) == Goto(r, where) /\ UNCHANGED <<database, cmd, at, file, noted>>

Start(r, c) ==
  /\ pc[r] = "idle"
  /\ cmd' = [cmd EXCEPT ![r] = c]
  /\ at'  = [at EXCEPT ![r] = IF c = "seed" THEN "seeders" ELSE "migrations"]
  /\ Goto(r, IF c = "fresh" THEN "reset" ELSE "ensure")
  /\ UNCHANGED <<database, file, noted>>

-----------------------------------------------------------------------------
\* ResetSchema: drop schema public cascade waits for every transaction that
\* has touched an object in it.
Reset(r) ==
  /\ pc[r] = "reset"
  /\ \A q \in Run : pc[q] \notin Open
  /\ exists'   = [c \in Catalogue |-> FALSE]
  /\ recorded' = [c \in Catalogue |-> {}]
  /\ effects'  = [c \in Catalogue |-> <<>>]
  /\ Goto(r, "ensure")
  /\ UNCHANGED <<cmd, at, file, noted>>

\* create table if not exists: the test and the creation are two steps, and
\* PostgreSQL lets only one of two concurrent creations succeed.
EnsureTable(r) ==
  /\ pc[r] = "ensure"
  /\ Move(r, IF exists[at[r]] THEN "check" ELSE "create")

CreateTable(r) ==
  /\ pc[r] = "create"
  /\ IF exists[at[r]]
       THEN Move(r, "failed")
       ELSE /\ exists' = [exists EXCEPT ![at[r]] = TRUE]
            /\ Goto(r, "check")
            /\ UNCHANGED <<recorded, effects, cmd, at, file, noted>>

-----------------------------------------------------------------------------
(* apply and seed: the loop over the files *)

\* Mutant of Rest: the loop ends one file early.
Rest_OneShort(r) == file[r] + 1 < LastFile

\* Is there a file after the one r is at?
Rest(r) == file[r] < LastFile

\* The file is dealt with: to the next one; after the last, fresh -seed goes
\* on to the seeders (whether -seed was given is chosen here).
NextFile(r) ==
  \/ /\ Rest(r)
     /\ file' = [file EXCEPT ![r] = @ + 1]
     /\ Goto(r, "check")
     /\ UNCHANGED at
  \/ /\ ~Rest(r)
     /\ Goto(r, "done")
     /\ UNCHANGED <<at, file>>
  \/ /\ ~Rest(r) /\ cmd[r] = "fresh" /\ at[r] = "migrations"
     /\ at'   = [at EXCEPT ![r] = "seeders"]
     /\ file' = [file EXCEPT ![r] = 1]
     /\ Goto(r, "ensure")

\* migrationApplied, and what is found in the file.
Check(r) ==
  /\ pc[r] = "check"
  /\ CASE ~exists[at[r]] -> Move(r, "failed")
       [] exists[at[r]] /\ file[r] \in recorded[at[r]] ->
            NextFile(r) /\ UNCHANGED <<database, cmd, noted>>
       [] OTHER -> Move(r, IF file[r] \in Blank[at[r]] THEN "blank" ELSE "exec")

\* Another transaction has inserted r's file and has not ended.
Held(r) == \E q \in Run \ {r} : noted[q] /\ at[q] = at[r] /\ file[q] = file[r]

\* The bookkeeping row cannot be inserted.
Taken(r) == ~exists[at[r]] \/ file[r] \in recorded[at[r]]

\* A blank file is recorded by an INSERT of its own.
RecordBlank(r) ==
  /\ pc[r] = "blank"
  /\ IF Taken(r)
       THEN Move(r, "failed")
       ELSE /\ recorded' = [recorded EXCEPT ![at[r]] = @ \cup {file[r]}]
            /\ \/ NextFile(r)
               \/ Faults /\ Goto(r, "killed") /\ UNCHANGED <<at, file>>
            /\ UNCHANGED <<exists, effects, cmd, noted>>

\* The statement runs again what another transaction did meanwhile: it may
\* go through ("if not exists") or fail.
Exec(r) ==
  /\ pc[r] = "exec"
  /\ \/ Move(r, "record")
     \/ /\ \E i \in 1..Len(effects[at[r]]) : effects[at[r]][i] = file[r]
        /\ Move(r, "failed")

\* A transaction that ends without COMMIT leaves nothing.
RollBack(r, how) ==
  /\ noted' = [noted EXCEPT ![r] = FALSE]
  /\ Goto(r, how)
  /\ UNCHANGED <<database, cmd, at, file>>

\* Mutant of Record: recorded through the pool, outside the transaction.
Record_OutsideTx(r) ==
  /\ pc[r] = "record"
  /\ ~Held(r)
  /\ recorded' = [recorded EXCEPT ![at[r]] = @ \cup {file[r]}]
  /\ Goto(r, "commit")
  /\ UNCHANGED <<exists, effects, cmd, at, file, noted>>

\* Mutant of Record: the file is tried again when its row is taken.
Record_Retry(r) ==
  /\ pc[r] = "record"
  /\ ~Held(r)
  /\ IF Taken(r)
       THEN Move(r, "exec")
       ELSE /\ noted' = [noted EXCEPT ![r] = TRUE]
            /\ Goto(r, "commit")
            /\ UNCHANGED <<database, cmd, at, file>>

\* recordMigrationTx, recordSeedTx: the primary key waits for the holder of
\* the same name, and refuses the second.
Record(r) ==
  /\ pc[r] = "record"
  /\ ~Held(r)
  /\ IF Taken(r)
       THEN RollBack(r, "failed")
       ELSE /\ noted' = [noted EXCEPT ![r] = TRUE]
            /\ Goto(r, "commit")
            /\ UNCHANGED <<database, cmd, at, file>>

Commit(r) ==
  /\ pc[r] = "commit"
  /\ recorded' = [recorded EXCEPT ![at[r]] = IF noted[r] THEN @ \cup {file[r]} ELSE @]
  /\ effects'  = [effects EXCEPT ![at[r]] = Append(@, file[r])]
  /\ noted' = [noted EXCEPT ![r] = FALSE]
  /\ \/ NextFile(r)
     \/ Faults /\ Goto(r, "killed") /\ UNCHANGED <<at, file>>
  /\ UNCHANGED <<exists, cmd>>

-----------------------------------------------------------------------------
\* Mutant of Failed: an error is logged and the loop goes on.
Failed_GoOn(r) ==
  /\ noted' = [noted EXCEPT ![r] = FALSE]
  /\ IF pc[r] \in {"exec", "blank"} \cup Open
       THEN NextFile(r)
       ELSE Goto(r, "killed") /\ UNCHANGED <<at, file>>
  /\ UNCHANGED <<database, cmd>>

\* An error ends the run, and so do a signal and the five-minute timeout.
Failed(r) == RollBack(r, "killed")

Fail(r) == Faults /\ pc[r] \notin Over \cup {"idle"} /\ Failed(r)

\* The drop holds the bookkeeping table and waits for a migration that waits
\* for it: PostgreSQL fails one of the two.
DeadlockVictim(r) ==
  /\ \/ pc[r] = "reset"  /\ \E q \in Run : pc[q] = "record"
     \/ pc[r] = "record" /\ \E q \in Run : pc[q] = "reset"
  /\ RollBack(r, "failed")

Step(r) == \/ Reset(r) \/ EnsureTable(r) \/ CreateTable(r) \/ Check(r)
           \/ RecordBlank(r) \/ Exec(r) \/ Record(r) \/ Commit(r)

Next == \E r \in Run : \/ \E c \in Commands : Start(r, c)
                       \/ Step(r) \/ Fail(r) \/ DeadlockVictim(r)

Spec == Init /\ [][Next]_vars

\* A statement that can run does; the drop, once in the lock queue, is served.
FairSpec == Spec /\ \A r \in Run : SF_vars(Step(r))

-----------------------------------------------------------------------------
(* Properties *)

\* Types of the database and the runs.
TypeOK ==
  /\ exists   \in [Catalogue -> BOOLEAN]
  /\ recorded \in [Catalogue -> SUBSET (1..LastFile)]
  /\ effects  \in [Catalogue -> Seq(1..LastFile)]
  /\ pc    \in [Run -> PC]
  /\ cmd   \in [Run -> {"migrate", "seed", "fresh"}]
  /\ at    \in [Run -> Catalogue]
  /\ file  \in [Run -> 1..LastFile]
  /\ noted \in [Run -> BOOLEAN]

\* Types, and: however many runs race and wherever they are killed, the work of
\* a file is committed once if it is recorded (its INSERT is in the transaction) and
\* never otherwise.
RecordedIsApplied ==
  /\ TypeOK
  /\ \A c \in Catalogue : \A f \in (1..LastFile) \ Blank[c] :
       Cardinality({i \in 1..Len(effects[c]) : effects[c][i] = f})
         = IF f \in recorded[c] THEN 1 ELSE 0

\* No run drops the schema.
Undisturbed == \A r \in Run : cmd[r] # "fresh"

\* Unless the schema is dropped under them, files are applied in the order of
\* their names and none is passed over, wherever runs fail: what is recorded
\* is always an initial part of the list.
AppliedInOrder ==
  Undisturbed => \A c \in Catalogue :
    /\ \A i, j \in 1..Len(effects[c]) : i < j => effects[c][i] <= effects[c][j]
    /\ \A i \in recorded[c] : 1..i \subseteq recorded[c]

\* A run that reports success has left every file of its catalogue applied,
\* by itself or by others.
SuccessMeansApplied ==
  Undisturbed => \A r \in Run : pc[r] = "done" => recorded[at[r]] = 1..LastFile

\* Racing runs may defeat one another, but never all: when they are over and
\* no fault has stopped one, whatever catalogue was started is complete.  (With
\* fresh all may fail: two migrations and a drop can deadlock in turn.)
SomebodySucceeds ==
  /\ Undisturbed
  /\ \A r \in Run : pc[r] \in {"idle", "done", "failed"}
  => \A r \in Run : pc[r] # "idle" => recorded[at[r]] = 1..LastFile

\* Every run ends: none waits for ever on a bookkeeping row or on the drop, so
\* there is a time from which none is under way.
EveryRunEnds == <>[](\A r \in Run : pc[r] \in Over \cup {"idle"})
=============================================================================
