--------------------------- MODULE MigratorProofs ---------------------------
(***************************************************************************)
(* What migrate, seed and fresh guarantee for any number of runs and of    *)
(* files, wherever runs fail or are killed.                                *)
(***************************************************************************)
EXTENDS Migrator, FiniteSetTheorems, TLAPS

\* Where in a list a file's work was done.
Places(s, f) == {i \in 1..Len(s) : s[i] = f}

\* A run at one of the files, with the bookkeeping table there.
Working == {"check", "exec", "blank"} \cup Open

\* What a run has come to, by its next statement.
Stages ==
  \A r \in Run :
    /\ pc[r] \in {"idle", "reset", "ensure", "create"} => file[r] = 1
    /\ pc[r] = "idle" => cmd[r] # "fresh"
    /\ pc[r] = "reset" => cmd[r] = "fresh"
    /\ pc[r] = "blank" => file[r] \in Blank[at[r]]
    /\ pc[r] \in {"exec"} \cup Open => file[r] \notin Blank[at[r]]
    /\ noted[r] <=> pc[r] = "commit"

\* A name that is inserted and not yet committed is not there, and not twice.
Claims ==
  \A r \in Run : pc[r] = "commit" => file[r] \notin recorded[at[r]] /\ ~Held(r)

\* Work that was committed is recorded.
Backed ==
  \A c \in Catalogue : \A i \in 1..Len(effects[c]) : effects[c][i] \in recorded[c]

\* Unless the schema is dropped, a run has passed no file that is not recorded.
NothingSkipped ==
  Undisturbed => \A r \in Run :
    pc[r] \in Working => 1..(file[r] - 1) \subseteq recorded[at[r]]

\* Someone, unless he was killed, is ahead of everything recorded: that one
\* cannot fail.  Before the table is there, nobody has failed.
Leader ==
  Undisturbed => \A c \in Catalogue :
    IF exists[c]
      THEN \E r \in Run : /\ at[r] = c
                          /\ \/ pc[r] \in {"done", "killed"}
                             \/ /\ pc[r] \in Working
                                /\ recorded[c] \subseteq 1..(file[r] - 1)
      ELSE /\ recorded[c] = {}
           /\ \A r \in Run : at[r] = c => pc[r] \in {"idle", "ensure", "create", "killed"}

Inductive == /\ RecordedIsApplied /\ Stages /\ Claims /\ Backed
             /\ AppliedInOrder /\ NothingSkipped /\ SuccessMeansApplied /\ Leader

-----------------------------------------------------------------------------
(* Appending to a list. *)

\* A list that gets one more element has it in one more place.
LEMMA PlacesAppend ==
  ASSUME NEW S, NEW s \in Seq(S), NEW x \in S, NEW f
  PROVE  Places(Append(s, x), f) =
           IF x = f THEN Places(s, f) \cup {Len(s) + 1} ELSE Places(s, f)
<1>1. /\ Len(Append(s, x)) = Len(s) + 1 /\ Len(s) \in Nat
      /\ Append(s, x)[Len(s) + 1] = x
      /\ \A i \in 1..Len(s) : Append(s, x)[i] = s[i]
      OBVIOUS
<1>2. 1..(Len(s) + 1) = (1..Len(s)) \cup {Len(s) + 1}
      BY <1>1
<1> QED
    BY <1>1, <1>2 DEF Places

\* So it is there once more.
LEMMA CountAppend ==
  ASSUME NEW S, NEW s \in Seq(S), NEW x \in S, NEW f
  PROVE  /\ Cardinality(Places(s, f)) \in Nat
         /\ Cardinality(Places(Append(s, x), f)) =
              IF x = f THEN Cardinality(Places(s, f)) + 1 ELSE Cardinality(Places(s, f))
<1>1. Len(s) \in Nat /\ IsFiniteSet(1..Len(s))
      BY FS_Interval
<1>2. IsFiniteSet(Places(s, f))
      BY <1>1, FS_Subset DEF Places
<1>3. Len(s) + 1 \notin Places(s, f)
      BY <1>1 DEF Places
<1>4. Cardinality(Places(s, f)) \in Nat
      BY <1>2, FS_CardinalityType
<1>5. Cardinality(Places(s, f) \cup {Len(s) + 1}) = Cardinality(Places(s, f)) + 1
      BY <1>2, <1>3, FS_AddElement
<1>6. Places(Append(s, x), f) =
        IF x = f THEN Places(s, f) \cup {Len(s) + 1} ELSE Places(s, f)
      BY PlacesAppend
<1> QED
    BY <1>4, <1>5, <1>6

-----------------------------------------------------------------------------
(* The steps. *)

\* A step leaves the database alone, or is one of four statements.
LEMMA StepCases ==
  ASSUME [Next]_vars
  PROVE  \/ UNCHANGED database
         \/ \E r \in Run : Reset(r) \/ CreateTable(r) \/ RecordBlank(r) \/ Commit(r)
BY DEF Next, Step, vars, Start, EnsureTable, Check, Exec, Record, Fail, Failed,
       DeadlockVictim, RollBack, Move

\* Types are kept.
LEMMA TypeStep == TypeOK /\ [Next]_vars => TypeOK'
<1> SUFFICES ASSUME TypeOK, [Next]_vars PROVE TypeOK'
    OBVIOUS
<1> USE FilesAssumption
        DEF TypeOK, Catalogue, PC, Over, Open, Goto, database
<1>1. CASE UNCHANGED vars
      BY <1>1 DEF vars, run
<1>2. ASSUME NEW r \in Run, NEW c \in Commands, Start(r, c) PROVE TypeOK'
      BY <1>2, CommandsAssumption DEF Start
<1>3. ASSUME NEW r \in Run, Reset(r) PROVE TypeOK'
      BY <1>3 DEF Reset
<1>4. ASSUME NEW r \in Run, EnsureTable(r) \/ CreateTable(r) PROVE TypeOK'
  <2>1. ASSUME NEW where \in {"check", "create", "failed"}, Move(r, where)
        PROVE  TypeOK'
        BY <2>1 DEF Move
  <2>2. CASE /\ exists' = [exists EXCEPT ![at[r]] = TRUE]
             /\ pc' = [pc EXCEPT ![r] = "check"]
             /\ UNCHANGED <<recorded, effects, cmd, at, file, noted>>
        BY <2>2
  <2>3. CASE EnsureTable(r)
        BY <2>1, <2>3 DEF EnsureTable
  <2>4. CASE CreateTable(r)
        BY <2>1, <2>2, <2>4 DEF CreateTable
  <2> QED
      BY <1>4, <2>3, <2>4
<1>5. ASSUME NEW r \in Run, NextFile(r)
      PROVE  /\ pc' \in [Run -> PC] /\ at' \in [Run -> Catalogue]
             /\ file' \in [Run -> 1..LastFile]
  <2>1. CASE /\ Rest(r) /\ file' = [file EXCEPT ![r] = @ + 1]
             /\ pc' = [pc EXCEPT ![r] = "check"] /\ at' = at
    <3>1. file[r] + 1 \in 1..LastFile
          BY <2>1 DEF Rest
    <3> QED
        BY <2>1, <3>1
  <2>2. CASE pc' = [pc EXCEPT ![r] = "done"] /\ at' = at /\ file' = file
        BY <2>2
  <2>3. CASE /\ at' = [at EXCEPT ![r] = "seeders"] /\ file' = [file EXCEPT ![r] = 1]
             /\ pc' = [pc EXCEPT ![r] = "ensure"]
        BY <2>3
  <2> QED
      BY <1>5, <2>1, <2>2, <2>3 DEF NextFile
<1>6. ASSUME NEW r \in Run, Check(r) PROVE TypeOK'
  <2>1. CASE NextFile(r) /\ UNCHANGED <<database, cmd, noted>>
        BY <1>5, <2>1
  <2>2. CASE \E where \in {"failed", "blank", "exec"} : Move(r, where)
        BY <2>2 DEF Move
  <2>3. \/ NextFile(r) /\ UNCHANGED <<database, cmd, noted>>
        \/ \E where \in {"failed", "blank", "exec"} : Move(r, where)
    <3>1. CASE ~exists[at[r]]
          BY <1>6, <3>1 DEF Check
    <3>2. CASE exists[at[r]] /\ file[r] \in recorded[at[r]]
          BY <1>6, <3>2 DEF Check
    <3>3. CASE exists[at[r]] /\ file[r] \notin recorded[at[r]]
          BY <1>6, <3>3 DEF Check
    <3> QED
        BY <3>1, <3>2, <3>3
  <2> QED
      BY <2>1, <2>2, <2>3
<1>7. ASSUME NEW r \in Run, RecordBlank(r) PROVE TypeOK'
  <2>1. CASE Taken(r)
        BY <1>7, <2>1 DEF RecordBlank, Move
  <2>2. CASE ~Taken(r)
    <3>1. /\ pc' \in [Run -> PC] /\ at' \in [Run -> Catalogue]
          /\ file' \in [Run -> 1..LastFile]
          BY <1>5, <1>7, <2>2 DEF RecordBlank
    <3>2. /\ recorded' \in [Catalogue -> SUBSET (1..LastFile)]
          /\ UNCHANGED <<exists, effects, cmd, noted>>
      <4>1. recorded' = [recorded EXCEPT ![at[r]] = @ \cup {file[r]}]
            BY <1>7, <2>2 DEF RecordBlank
      <4>2. UNCHANGED <<exists, effects, cmd, noted>>
            BY <1>7, <2>2 DEF RecordBlank
      <4> QED
          BY <4>1, <4>2
    <3> QED
        BY <3>1, <3>2
  <2> QED
      BY <2>1, <2>2
<1>8. ASSUME NEW r \in Run, Commit(r) PROVE TypeOK'
  <2>1. effects' \in [Catalogue -> Seq(1..LastFile)]
        BY <1>8 DEF Commit
  <2>2. recorded' \in [Catalogue -> SUBSET (1..LastFile)]
        BY <1>8 DEF Commit
  <2>3. /\ pc' \in [Run -> PC] /\ at' \in [Run -> Catalogue]
        /\ file' \in [Run -> 1..LastFile]
        BY <1>5, <1>8 DEF Commit
  <2> QED
      BY <1>8, <2>1, <2>2, <2>3 DEF Commit
<1>9. ASSUME NEW r \in Run, Exec(r) \/ Record(r) \/ Fail(r) \/ DeadlockVictim(r)
      PROVE  TypeOK'
      BY <1>9 DEF Exec, Record, Fail, Failed, DeadlockVictim, RollBack, Move
<1> QED
    BY <1>1, <1>2, <1>3, <1>4, <1>6, <1>7, <1>8, <1>9 DEF Next, Step

\* r takes a step.
Turn(r) == \/ \E c \in Commands : Start(r, c)
           \/ Step(r) \/ Fail(r) \/ DeadlockVictim(r)

\* A run's step changes no other run, and only Record brings it to its commit.
LEMMA OneRun ==
  ASSUME TypeOK, NEW r \in Run, Turn(r)
  PROVE  /\ \A q \in Run \ {r} :
              /\ pc'[q] = pc[q] /\ cmd'[q] = cmd[q] /\ at'[q] = at[q]
              /\ file'[q] = file[q] /\ noted'[q] = noted[q]
         /\ pc'[r] = "commit" => Record(r)
<1> USE DEF TypeOK, Goto
<1> DEFINE Only == \A q \in Run \ {r} :
                     /\ pc'[q] = pc[q] /\ cmd'[q] = cmd[q] /\ at'[q] = at[q]
                     /\ file'[q] = file[q] /\ noted'[q] = noted[q]
<1>1. ASSUME NEW c \in Commands, Start(r, c) PROVE Only /\ pc'[r] # "commit"
      BY <1>1 DEF Start
<1>2. CASE Reset(r) \/ EnsureTable(r) \/ CreateTable(r) \/ Exec(r)
      BY <1>2 DEF Reset, EnsureTable, CreateTable, Exec, Move
<1>3. CASE Record(r) \/ Fail(r) \/ DeadlockVictim(r)
      BY <1>3 DEF Record, Fail, Failed, DeadlockVictim, RollBack
<1>4. CASE Check(r) \/ RecordBlank(r) \/ Commit(r)
      BY <1>4 DEF Check, RecordBlank, Commit, NextFile, Move
<1> QED
    BY <1>1, <1>2, <1>3, <1>4 DEF Turn, Step

\* A run comes to its statements in order.
LEMMA StagesStep == Inductive /\ [Next]_vars => Stages'
<1> SUFFICES ASSUME Inductive, [Next]_vars PROVE Stages'
    OBVIOUS
<1>0. TypeOK /\ Stages
      BY DEF Inductive, RecordedIsApplied
<1> USE <1>0 DEF TypeOK, Stages, Open, Goto
<1>1. CASE UNCHANGED vars
      BY <1>1 DEF vars, run
<1>2. ASSUME NEW r \in Run, NEW c \in Commands, Start(r, c) PROVE Stages'
      BY <1>2 DEF Start
<1>3. ASSUME NEW r \in Run, Reset(r) \/ EnsureTable(r) \/ CreateTable(r) PROVE Stages'
      BY <1>3 DEF Reset, EnsureTable, CreateTable, Move
<1>4. ASSUME NEW r \in Run, NextFile(r), UNCHANGED cmd,
             noted' = [noted EXCEPT ![r] = FALSE]
      PROVE  Stages'
      BY <1>4 DEF NextFile
<1>5. ASSUME NEW r \in Run, Check(r) PROVE Stages'
  <2>1. CASE NextFile(r) /\ UNCHANGED <<cmd, noted>> /\ pc[r] = "check"
        BY <1>4, <2>1
  <2>2. CASE Move(r, "failed") /\ pc[r] = "check"
        BY <2>2 DEF Move
  <2>3. CASE Move(r, IF file[r] \in Blank[at[r]] THEN "blank" ELSE "exec") /\ pc[r] = "check"
        BY <2>3 DEF Move
  <2> QED
      BY <1>5, <2>1, <2>2, <2>3 DEF Check
<1>6. ASSUME NEW r \in Run, RecordBlank(r) PROVE Stages'
  <2>1. CASE NextFile(r) /\ UNCHANGED <<cmd, noted>> /\ pc[r] = "blank"
        BY <1>4, <2>1
  <2>2. CASE /\ pc' = [pc EXCEPT ![r] = "killed"] \/ pc' = [pc EXCEPT ![r] = "failed"]
             /\ UNCHANGED <<at, file, cmd, noted>> /\ pc[r] = "blank"
        BY <2>2
  <2> QED
      BY <1>6, <2>1, <2>2 DEF RecordBlank, Move
<1>7. ASSUME NEW r \in Run, Commit(r) PROVE Stages'
  <2>1. CASE NextFile(r) /\ UNCHANGED cmd
        BY <1>4, <1>7, <2>1 DEF Commit
  <2>2. CASE pc' = [pc EXCEPT ![r] = "killed"] /\ UNCHANGED <<at, file, cmd>>
        BY <1>7, <2>2 DEF Commit
  <2> QED
      BY <1>7, <2>1, <2>2 DEF Commit
<1>8. ASSUME NEW r \in Run, Exec(r) \/ Record(r) \/ Fail(r) \/ DeadlockVictim(r)
      PROVE  Stages'
      BY <1>8 DEF Exec, Record, Fail, Failed, DeadlockVictim, RollBack, Move
<1> QED
    BY <1>1, <1>2, <1>3, <1>5, <1>6, <1>7, <1>8 DEF Next, Step

\* The commit applies a file and records it, both for the first time.
LEMMA CommitRecords ==
  ASSUME Inductive, NEW r \in Run, Commit(r)
  PROVE  /\ at[r] \in Catalogue /\ file[r] \in 1..LastFile
         /\ file[r] \notin Blank[at[r]] /\ file[r] \notin recorded[at[r]]
         /\ recorded' = [recorded EXCEPT ![at[r]] = @ \cup {file[r]}]
         /\ effects' = [effects EXCEPT ![at[r]] = Append(@, file[r])]
         /\ UNCHANGED exists
BY DEF Inductive, RecordedIsApplied, TypeOK, Stages, Claims, Open, Commit

\* A blank file is recorded for the first time, and nothing is applied.
LEMMA BlankRecords ==
  ASSUME Inductive, NEW r \in Run, RecordBlank(r)
  PROVE  \/ UNCHANGED database
         \/ /\ at[r] \in Catalogue /\ file[r] \in 1..LastFile
            /\ file[r] \in Blank[at[r]] /\ file[r] \notin recorded[at[r]] /\ exists[at[r]]
            /\ recorded' = [recorded EXCEPT ![at[r]] = @ \cup {file[r]}]
            /\ UNCHANGED <<exists, effects>>
BY DEF Inductive, RecordedIsApplied, TypeOK, Stages, RecordBlank, Taken, Move, database

\* Either way one name is recorded, and it is new.
LEMMA RecordsOne ==
  ASSUME Inductive, NEW r \in Run, Commit(r) \/ RecordBlank(r), ~UNCHANGED database
  PROVE  /\ at[r] \in Catalogue /\ file[r] \in 1..LastFile
         /\ file[r] \notin recorded[at[r]]
         /\ \A c \in Catalogue :
              recorded'[c] = IF c = at[r] THEN recorded[c] \cup {file[r]} ELSE recorded[c]
         /\ UNCHANGED exists
<1>1. /\ at[r] \in Catalogue /\ file[r] \in 1..LastFile
      /\ file[r] \notin recorded[at[r]]
      /\ recorded' = [recorded EXCEPT ![at[r]] = @ \cup {file[r]}]
      /\ UNCHANGED exists
      BY CommitRecords, BlankRecords
<1>2. recorded \in [Catalogue -> SUBSET (1..LastFile)]
      BY DEF Inductive, RecordedIsApplied, TypeOK
<1> QED
    BY <1>1, <1>2

\* A file is recorded together with its work.
LEMMA AppliedStep == Inductive /\ [Next]_vars => RecordedIsApplied' /\ Backed'
<1> SUFFICES ASSUME Inductive, [Next]_vars PROVE RecordedIsApplied' /\ Backed'
    OBVIOUS
<1> DEFINE Once(c, f) == Cardinality(Places(effects[c], f))
                           = IF f \in recorded[c] THEN 1 ELSE 0
           Kept(c) == \A i \in 1..Len(effects[c]) : effects[c][i] \in recorded[c]
<1>0. TypeOK /\ TypeOK'
      BY TypeStep DEF Inductive, RecordedIsApplied
<1>a. \A c \in Catalogue : Kept(c) /\ \A f \in (1..LastFile) \ Blank[c] : Once(c, f)
      BY DEF Inductive, RecordedIsApplied, Backed, Places
<1> SUFFICES \A c \in Catalogue :
               Kept(c)' /\ \A f \in (1..LastFile) \ Blank[c] : Once(c, f)'
    BY <1>0 DEF RecordedIsApplied, Backed, Places
<1> TAKE c \in Catalogue
<1>b. effects[c] \in Seq(1..LastFile)
      BY <1>0 DEF TypeOK
<1> HIDE DEF Once, Kept
<1>1. CASE effects'[c] = effects[c] /\ recorded'[c] = recorded[c]
      BY <1>a, <1>1 DEF Once, Kept
<1>2. CASE effects'[c] = <<>> /\ recorded'[c] = {}
  <2>1. \A f : Places(<<>>, f) = {}
        BY DEF Places
  <2>2. \A f : Cardinality(Places(effects'[c], f)) = 0
        BY <1>2, <2>1, FS_EmptySet
  <2>3. Len(effects'[c]) = 0
        BY <1>2
  <2> QED
      BY <1>2, <2>2, <2>3 DEF Once, Kept
<1>3. ASSUME NEW f \in Blank[c], effects'[c] = effects[c],
             recorded'[c] = recorded[c] \cup {f}
      PROVE  Kept(c)' /\ \A g \in (1..LastFile) \ Blank[c] : Once(c, g)'
      BY <1>a, <1>3 DEF Once, Kept
<1>4. ASSUME NEW f \in (1..LastFile) \ Blank[c], f \notin recorded[c],
             effects'[c] = Append(effects[c], f), recorded'[c] = recorded[c] \cup {f}
      PROVE  Kept(c)' /\ \A g \in (1..LastFile) \ Blank[c] : Once(c, g)'
  <2>1. ASSUME NEW g \in (1..LastFile) \ Blank[c] PROVE Once(c, g)'
    <3>1. Cardinality(Places(effects'[c], g)) =
            IF f = g THEN Cardinality(Places(effects[c], g)) + 1
                     ELSE Cardinality(Places(effects[c], g))
      <4> DEFINE S == 1..LastFile
      <4>1. effects[c] \in Seq(S) /\ f \in S
            BY <1>b
      <4> HIDE DEF S
      <4>2. Cardinality(Places(Append(effects[c], f), g)) =
              IF f = g THEN Cardinality(Places(effects[c], g)) + 1
                       ELSE Cardinality(Places(effects[c], g))
            BY <4>1, CountAppend
      <4> QED
          BY <1>4, <4>2
    <3>2. Once(c, g)
          BY <1>a
    <3> QED
        BY <1>4, <3>1, <3>2 DEF Once
  <2>2. Kept(c)'
        BY <1>a, <1>b, <1>4 DEF Kept
  <2> QED
      BY <2>1, <2>2
<1>5. ASSUME NEW r \in Run, Commit(r)
      PROVE  Kept(c)' /\ \A g \in (1..LastFile) \ Blank[c] : Once(c, g)'
  <2>1. CASE c = at[r]
    <3>1. /\ file[r] \in (1..LastFile) \ Blank[c] /\ file[r] \notin recorded[c]
          /\ effects'[c] = Append(effects[c], file[r])
          /\ recorded'[c] = recorded[c] \cup {file[r]}
          BY <1>0, <1>5, <2>1, CommitRecords DEF TypeOK
    <3> QED
        BY <1>4, <3>1
  <2>2. CASE c # at[r]
        BY <1>0, <1>1, <1>5, <2>2, CommitRecords DEF TypeOK
  <2> QED
      BY <2>1, <2>2
<1>6. ASSUME NEW r \in Run, RecordBlank(r)
      PROVE  Kept(c)' /\ \A g \in (1..LastFile) \ Blank[c] : Once(c, g)'
  <2>1. CASE UNCHANGED database \/ c # at[r]
        BY <1>0, <1>1, <1>6, <2>1, BlankRecords DEF TypeOK, database
  <2>2. CASE ~UNCHANGED database /\ c = at[r]
    <3>1. /\ file[r] \in Blank[c] /\ effects'[c] = effects[c]
          /\ recorded'[c] = recorded[c] \cup {file[r]}
          BY <1>0, <1>6, <2>2, BlankRecords DEF TypeOK
    <3> QED
        BY <1>3, <3>1
  <2> QED
      BY <2>1, <2>2
<1>7. ASSUME NEW r \in Run, Reset(r)
      PROVE  Kept(c)' /\ \A g \in (1..LastFile) \ Blank[c] : Once(c, g)'
      BY <1>2, <1>7 DEF Reset
<1>8. CASE UNCHANGED database \/ \E r \in Run : CreateTable(r)
      BY <1>1, <1>8 DEF database, CreateTable, Move
<1> QED
    BY <1>5, <1>6, <1>7, <1>8, StepCases

\* The primary key lets one transaction in, and holds it to be the first.
LEMMA ClaimsStep == Inductive /\ [Next]_vars => Claims'
<1> SUFFICES ASSUME Inductive, [Next]_vars, NEW q \in Run, pc'[q] = "commit"
             PROVE  file'[q] \notin recorded'[at'[q]] /\ ~Held(q)'
    BY DEF Claims
<1>0. TypeOK /\ TypeOK' /\ Stages /\ Stages' /\ Claims
      BY TypeStep, StagesStep DEF Inductive, RecordedIsApplied
<1>1. CASE UNCHANGED vars
      BY <1>0, <1>1 DEF vars, run, database, Claims, Held
<1>2. ASSUME pc[q] = "commit" PROVE file[q] \notin recorded'[at[q]]
  <2>1. at[q] \in Catalogue /\ file[q] \notin recorded[at[q]] /\ file[q] \notin Blank[at[q]]
        BY <1>0, <1>2 DEF TypeOK, Claims, Stages, Open
  <2>2. ASSUME NEW r \in Run, Commit(r) PROVE file[q] \notin recorded'[at[q]]
    <3>1. r # q
          BY <1>0, <2>2 DEF Commit, NextFile, Goto, TypeOK
    <3>2. ~(at[r] = at[q] /\ file[r] = file[q])
          BY <1>0, <1>2, <2>2, <3>1 DEF Commit, Claims, Stages, Held
    <3>3. recorded' = [recorded EXCEPT ![at[r]] = @ \cup {file[r]}]
          BY <2>2, CommitRecords
    <3> QED
        BY <1>0, <2>1, <3>2, <3>3 DEF TypeOK
  <2>3. ASSUME NEW r \in Run, RecordBlank(r) PROVE file[q] \notin recorded'[at[q]]
    <3>1. CASE UNCHANGED database
          BY <2>1, <3>1 DEF database
    <3>2. CASE /\ file[r] \in Blank[at[r]]
               /\ recorded' = [recorded EXCEPT ![at[r]] = @ \cup {file[r]}]
          BY <1>0, <2>1, <3>2 DEF TypeOK
    <3> QED
        BY <2>3, <3>1, <3>2, BlankRecords
  <2>4. ASSUME NEW r \in Run, Reset(r) PROVE FALSE
        BY <1>2, <2>4 DEF Reset, Open
  <2>5. ASSUME NEW r \in Run, CreateTable(r) PROVE UNCHANGED recorded
        BY <2>5 DEF CreateTable, Move, database
  <2> QED
      BY <2>1, <2>2, <2>3, <2>4, <2>5, StepCases DEF database
<1>3. ASSUME NEW r \in Run, Turn(r), q # r,
             ~(pc'[r] = "commit" /\ at'[r] = at[q] /\ file'[r] = file[q])
      PROVE  file'[q] \notin recorded'[at'[q]] /\ ~Held(q)'
  <2>1. pc[q] = "commit" /\ at'[q] = at[q] /\ file'[q] = file[q]
        BY <1>0, <1>3, OneRun
  <2>2. ~Held(q)
        BY <1>0, <2>1 DEF Claims
  <2>3. ~Held(q)'
        BY <1>0, <1>3, <2>1, <2>2, OneRun DEF Held, Stages
  <2> QED
      BY <1>2, <2>1, <2>3
<1>4. ASSUME NEW r \in Run, Record(r) PROVE file'[q] \notin recorded'[at'[q]] /\ ~Held(q)'
  <2>1. Turn(r)
        BY <1>4 DEF Turn, Step
  <2>2. CASE q = r
    <3>1. /\ ~Taken(r) /\ ~Held(r) /\ UNCHANGED <<database, at, file>>
          /\ \A k \in Run \ {r} : noted'[k] = noted[k]
          BY <1>0, <1>4, <2>2 DEF Record, RollBack, Goto, TypeOK
    <3> QED
        BY <2>2, <3>1 DEF Taken, Held, database
  <2>3. CASE q # r
    <3>1. pc[q] = "commit"
          BY <1>0, <2>1, <2>3, OneRun
    <3>2. ~(at[r] = at[q] /\ file[r] = file[q])
          BY <1>0, <1>4, <2>3, <3>1 DEF Record, Held, Stages
    <3>3. UNCHANGED <<at, file>>
          BY <1>4 DEF Record, RollBack
    <3> QED
        BY <1>3, <2>1, <2>3, <3>2, <3>3
  <2> QED
      BY <2>2, <2>3
<1>5. ASSUME NEW r \in Run, Turn(r), ~Record(r)
      PROVE  file'[q] \notin recorded'[at'[q]] /\ ~Held(q)'
      BY <1>0, <1>3, <1>5, OneRun
<1> QED
    BY <1>1, <1>4, <1>5 DEF Next, Turn

-----------------------------------------------------------------------------
(* Runs that no fresh disturbs. *)

\* Then none did before, and what there is stays.
LEMMA UndisturbedStep ==
  ASSUME Inductive, [Next]_vars, Undisturbed'
  PROVE  /\ Undisturbed
         /\ \A r \in Run : pc[r] # "reset" /\ ~Reset(r)
         /\ \A c \in Catalogue : recorded[c] \subseteq recorded'[c]
         /\ \A c \in Catalogue : exists[c] => exists'[c]
<1>0. TypeOK /\ TypeOK' /\ Stages
      BY TypeStep DEF Inductive, RecordedIsApplied
<1>1. ASSUME NEW r \in Run, cmd[r] = "fresh" PROVE FALSE
  <2>1. cmd'[r] = "fresh"
    <3>1. ASSUME NEW q \in Run, Turn(q) PROVE cmd'[r] = "fresh"
      <4>1. CASE q # r
            BY <1>0, <1>1, <3>1, <4>1, OneRun
      <4>2. ASSUME NEW c \in Commands, Start(r, c) PROVE FALSE
            BY <1>0, <1>1, <4>2 DEF Start, Stages
      <4>3. CASE q = r /\ (Step(r) \/ Fail(r) \/ DeadlockVictim(r))
        <5>1. UNCHANGED cmd
              BY <4>3 DEF Step, Reset, EnsureTable, CreateTable, Check, RecordBlank,
                          Exec, Record, Commit, Fail, Failed, DeadlockVictim,
                          RollBack, Move
        <5> QED
            BY <1>1, <5>1
      <4> QED
          BY <3>1, <4>1, <4>2, <4>3 DEF Turn
    <3> QED
        BY <1>1, <3>1 DEF Next, Turn, vars, run
  <2> QED
      BY <2>1 DEF Undisturbed
<1>2. \A r \in Run : pc[r] # "reset" /\ ~Reset(r)
      BY <1>0, <1>1 DEF Stages, Reset
<1>3. ASSUME NEW c \in Catalogue
      PROVE  recorded[c] \subseteq recorded'[c] /\ (exists[c] => exists'[c])
  <2>1. CASE UNCHANGED database
        BY <2>1 DEF database
  <2>2. ASSUME NEW r \in Run, CreateTable(r)
        PROVE  recorded[c] \subseteq recorded'[c] /\ (exists[c] => exists'[c])
        BY <1>0, <2>2 DEF CreateTable, TypeOK, Move, database
  <2>3. ASSUME NEW r \in Run, Commit(r) \/ RecordBlank(r)
        PROVE  recorded[c] \subseteq recorded'[c] /\ (exists[c] => exists'[c])
        BY <2>1, <2>3, RecordsOne
  <2> QED
      BY <1>2, <2>1, <2>2, <2>3, StepCases
<1> QED
    BY <1>1, <1>2, <1>3 DEF Undisturbed

\* A run that goes on to the next file leaves a recorded one behind it.
LEMMA Advance ==
  ASSUME Inductive, TypeOK', Undisturbed, NEW r \in Run, NextFile(r), pc[r] \in Working,
         recorded[at[r]] \cup {file[r]} \subseteq recorded'[at[r]]
  PROVE  /\ at'[r] = at[r]
         /\ \/ /\ pc'[r] = "check" /\ file'[r] = file[r] + 1
               /\ 1..(file'[r] - 1) \subseteq recorded'[at[r]]
            \/ pc'[r] = "done" /\ recorded'[at[r]] = 1..LastFile
<1>0. TypeOK /\ at[r] \in Catalogue /\ file[r] \in 1..LastFile /\ LastFile \in Nat
      BY FilesAssumption DEF Inductive, RecordedIsApplied, TypeOK
<1>1. 1..file[r] \subseteq recorded'[at[r]]
  <2>1. 1..(file[r] - 1) \subseteq recorded[at[r]]
        BY DEF Inductive, NothingSkipped
  <2>2. 1..file[r] = (1..(file[r] - 1)) \cup {file[r]}
        BY <1>0
  <2> QED
      BY <2>1, <2>2
<1>2. cmd[r] # "fresh"
      BY DEF Undisturbed
<1>3. CASE /\ Rest(r) /\ file' = [file EXCEPT ![r] = @ + 1]
           /\ Goto(r, "check") /\ UNCHANGED at
      BY <1>0, <1>1, <1>3 DEF TypeOK, Goto
<1>4. CASE ~Rest(r) /\ Goto(r, "done") /\ UNCHANGED <<at, file>>
  <2>1. file[r] = LastFile
        BY <1>0, <1>4 DEF Rest
  <2>2. recorded'[at[r]] \subseteq 1..LastFile
        BY <1>0 DEF TypeOK
  <2> QED
      BY <1>0, <1>1, <1>4, <2>1, <2>2 DEF TypeOK, Goto
<1> QED
    BY <1>2, <1>3, <1>4 DEF NextFile

\* A file follows all that precede it, in the table and in its effects.
LEMMA OrderStep == Inductive /\ [Next]_vars => AppliedInOrder'
<1> SUFFICES ASSUME Inductive, [Next]_vars, Undisturbed', NEW c \in Catalogue
             PROVE  /\ \A i, j \in 1..Len(effects'[c]) :
                         i < j => effects'[c][i] <= effects'[c][j]
                    /\ \A i \in recorded'[c] : 1..i \subseteq recorded'[c]
    BY DEF AppliedInOrder
<1> DEFINE Sorted(s) == \A i, j \in 1..Len(s) : i < j => s[i] <= s[j]
           Closed(R) == \A i \in R : 1..i \subseteq R
<1>0. /\ Undisturbed /\ TypeOK /\ \A r \in Run : ~Reset(r)
      /\ effects[c] \in Seq(1..LastFile) /\ recorded[c] \subseteq 1..LastFile
      BY UndisturbedStep DEF Inductive, RecordedIsApplied, TypeOK
<1>1. Sorted(effects[c]) /\ Closed(recorded[c])
      BY <1>0 DEF Inductive, AppliedInOrder
<1>2. CASE UNCHANGED database \/ \E r \in Run : CreateTable(r)
      BY <1>1, <1>2 DEF database, CreateTable, Move
<1>3. ASSUME NEW r \in Run, Commit(r) \/ RecordBlank(r), ~UNCHANGED database
      PROVE  Closed(recorded'[c])
  <2>1. CASE c = at[r]
    <3>1. file[r] \in 1..LastFile /\ recorded'[c] = recorded[c] \cup {file[r]}
          BY <1>3, <2>1, RecordsOne
    <3>2. 1..(file[r] - 1) \subseteq recorded[c]
          BY <1>0, <1>3, <2>1
             DEF Inductive, NothingSkipped, Working, Open, Commit, RecordBlank
    <3>3. 1..file[r] \subseteq recorded'[c]
          BY <3>1, <3>2
    <3> QED
        BY <1>1, <3>1, <3>3
  <2>2. CASE c # at[r]
        BY <1>1, <1>3, <2>2, RecordsOne
  <2> QED
      BY <2>1, <2>2
<1>4. ASSUME NEW r \in Run, Commit(r) PROVE Sorted(effects'[c])
  <2>1. CASE c = at[r]
    <3>1. /\ effects'[c] = Append(effects[c], file[r])
          /\ file[r] \in 1..LastFile /\ file[r] \notin recorded[c]
      <4>1. /\ effects' = [effects EXCEPT ![c] = Append(@, file[r])]
            /\ file[r] \in 1..LastFile /\ file[r] \notin recorded[c]
            BY <1>4, <2>1, CommitRecords
      <4> QED
          BY <1>0, <4>1 DEF TypeOK
    <3>2. ASSUME NEW i \in 1..Len(effects[c]) PROVE effects[c][i] <= file[r]
      <4>1. effects[c][i] \in recorded[c] /\ effects[c][i] \in 1..LastFile
            BY <1>0 DEF Inductive, Backed
      <4>2. 1..effects[c][i] \subseteq recorded[c]
            BY <1>1, <4>1
      <4> QED
          BY <3>1, <4>1, <4>2
    <3>3. /\ Len(effects'[c]) = Len(effects[c]) + 1 /\ Len(effects[c]) \in Nat
          /\ effects'[c][Len(effects[c]) + 1] = file[r]
          /\ \A i \in 1..Len(effects[c]) : effects'[c][i] = effects[c][i]
          BY <1>0, <3>1
    <3> QED
        BY <1>1, <3>1, <3>2, <3>3
  <2>2. CASE c # at[r]
        BY <1>0, <1>1, <1>4, <2>2, CommitRecords DEF TypeOK
  <2> QED
      BY <2>1, <2>2
<1>5. ASSUME NEW r \in Run, RecordBlank(r) PROVE Sorted(effects'[c])
      BY <1>1, <1>5, BlankRecords DEF database
<1> QED
    BY <1>0, <1>2, <1>3, <1>4, <1>5, StepCases

\* A run passes a file once it is recorded, and ends once it has passed all.
LEMMA PassingStep == Inductive /\ [Next]_vars => NothingSkipped' /\ SuccessMeansApplied'
<1> DEFINE Good(q) ==
      /\ pc[q] \in Working => 1..(file[q] - 1) \subseteq recorded[at[q]]
      /\ pc[q] = "done" => recorded[at[q]] = 1..LastFile
<1> SUFFICES ASSUME Inductive, [Next]_vars, Undisturbed', NEW q \in Run
             PROVE  Good(q)'
    BY DEF NothingSkipped, SuccessMeansApplied
<1>0. /\ Undisturbed /\ TypeOK /\ TypeOK' /\ Stages /\ \A r \in Run : pc[r] # "reset"
      /\ \A c \in Catalogue : recorded[c] \subseteq recorded'[c]
      BY UndisturbedStep, TypeStep DEF Inductive, RecordedIsApplied
<1>1. Good(q) /\ at[q] \in Catalogue /\ file[q] \in 1..LastFile
      BY <1>0 DEF Inductive, NothingSkipped, SuccessMeansApplied, TypeOK
<1>2. ASSUME at'[q] = at[q], file'[q] = file[q],
             \/ pc'[q] = pc[q] \/ pc'[q] \notin Working \cup {"done"}
             \/ pc[q] \in Working /\ pc'[q] # "done"
             \/ file[q] = 1 /\ pc'[q] # "done"
      PROVE  Good(q)'
  <2>1. recorded[at[q]] \subseteq recorded'[at'[q]] /\ recorded'[at'[q]] \subseteq 1..LastFile
        BY <1>0, <1>1, <1>2 DEF TypeOK
  <2>2. 1..(1 - 1) = {}
        OBVIOUS
  <2> QED
      BY <1>1, <1>2, <2>1, <2>2 DEF Working, Open
<1>3. ASSUME NextFile(q), pc[q] \in Working, file[q] \in recorded'[at[q]]
      PROVE  Good(q)'
  <2>1. recorded[at[q]] \cup {file[q]} \subseteq recorded'[at[q]]
        BY <1>0, <1>1, <1>3
  <2> QED
      BY <1>0, <1>3, <2>1, Advance DEF Working, Open
<1>4. CASE UNCHANGED vars
      BY <1>2, <1>4 DEF vars, run
<1>5. ASSUME NEW r \in Run, Turn(r), r # q PROVE Good(q)'
      BY <1>0, <1>2, <1>5, OneRun
<1>6. ASSUME NEW c \in Commands, Start(q, c) PROVE Good(q)'
  <2>1. pc'[q] = "reset" \/ pc'[q] = "ensure"
        BY <1>0, <1>6 DEF Start, Goto, TypeOK
  <2> QED
      BY <2>1 DEF Working, Open
<1>7. CASE EnsureTable(q) \/ CreateTable(q) \/ Exec(q) \/ Record(q) \/ Fail(q)
           \/ DeadlockVictim(q)
  <2>1. /\ UNCHANGED <<at, file>> /\ pc'[q] # "done"
        /\ \/ pc'[q] \notin Working \cup {"done"}
           \/ pc[q] \in Working \/ pc[q] \in {"ensure", "create"}
        BY <1>0, <1>7 DEF EnsureTable, CreateTable, Exec, Record, Fail, Failed,
              DeadlockVictim, RollBack, Move, Goto, TypeOK, Working, Open
  <2> QED
      BY <1>0, <1>2, <2>1 DEF Stages
<1>8. CASE Check(q)
  <2>1. CASE pc[q] = "check" /\ NextFile(q) /\ file[q] \in recorded[at[q]]
        BY <1>0, <1>1, <1>3, <2>1 DEF Working
  <2>2. CASE pc[q] = "check" /\ \E where \in {"failed", "blank", "exec"} : Move(q, where)
        BY <1>0, <1>2, <2>2 DEF Move, Goto, TypeOK, Working, Open
  <2>3. exists[at[q]] \in BOOLEAN
        BY <1>0, <1>1 DEF TypeOK
  <2> QED
      BY <1>8, <2>1, <2>2, <2>3 DEF Check
<1>9. CASE Commit(q) \/ RecordBlank(q)
  <2>1. CASE pc'[q] \in {"failed", "killed"} /\ UNCHANGED <<at, file>>
        BY <1>2, <2>1 DEF Working, Open
  <2>2. ASSUME NextFile(q), recorded' = [recorded EXCEPT ![at[q]] = @ \cup {file[q]}]
        PROVE  Good(q)'
    <3>1. file[q] \in recorded'[at[q]]
          BY <1>0, <1>1, <2>2 DEF TypeOK
    <3> QED
        BY <1>3, <1>9, <2>2, <3>1 DEF Commit, RecordBlank, Working, Open
  <2>3. CASE Commit(q)
    <3>1. recorded' = [recorded EXCEPT ![at[q]] = @ \cup {file[q]}]
          BY <2>3, CommitRecords
    <3>2. \/ NextFile(q)
          \/ pc'[q] \in {"failed", "killed"} /\ UNCHANGED <<at, file>>
          BY <1>0, <2>3 DEF Commit, Goto, TypeOK
    <3> QED
        BY <2>1, <2>2, <3>1, <3>2
  <2>4. CASE RecordBlank(q)
    <3>1. \/ NextFile(q) /\ recorded' = [recorded EXCEPT ![at[q]] = @ \cup {file[q]}]
          \/ pc'[q] \in {"failed", "killed"} /\ UNCHANGED <<at, file>>
          BY <1>0, <2>4 DEF RecordBlank, Move, Goto, TypeOK
    <3> QED
        BY <2>1, <2>2, <3>1
  <2> QED
      BY <1>9, <2>3, <2>4
<1> QED
    BY <1>0, <1>4, <1>5, <1>6, <1>7, <1>8, <1>9 DEF Next, Turn, Step, Reset

\* Whoever records a file is ahead of all that are recorded, and whoever is
\* ahead finds nothing in his way.
LEMMA LeaderStep == Inductive /\ [Next]_vars => Leader'
<1> DEFINE Leads(r, c) ==
             /\ at[r] = c
             /\ \/ pc[r] \in {"done", "killed"}
                \/ pc[r] \in Working /\ recorded[c] \subseteq 1..(file[r] - 1)
           Nobody(c) ==
             /\ recorded[c] = {}
             /\ \A r \in Run : at[r] = c => pc[r] \in {"idle", "ensure", "create", "killed"}
<1> SUFFICES ASSUME Inductive, [Next]_vars, Undisturbed', NEW c \in Catalogue
             PROVE  IF exists'[c] THEN \E r \in Run : Leads(r, c)' ELSE Nobody(c)'
    BY DEF Leader
<1>0. /\ Undisturbed /\ TypeOK /\ TypeOK' /\ Stages
      /\ \A r \in Run : pc[r] # "reset" /\ ~Reset(r)
      /\ recorded[c] \subseteq recorded'[c] /\ (exists[c] => exists'[c])
      BY UndisturbedStep, TypeStep DEF Inductive, RecordedIsApplied
<1>1. IF exists[c] THEN \E r \in Run : Leads(r, c) ELSE Nobody(c)
      BY <1>0 DEF Inductive, Leader
<1>2. \A i \in recorded[c] : 1..i \subseteq recorded[c]
      BY <1>0 DEF Inductive, AppliedInOrder
<1> USE <1>0
<1>3. ASSUME NEW r \in Run, Commit(r) \/ RecordBlank(r), ~UNCHANGED database,
             at[r] = c
      PROVE  Leads(r, c)'
  <2>1. /\ file[r] \in 1..LastFile /\ file[r] \notin recorded[c]
        /\ recorded'[c] = recorded[c] \cup {file[r]} /\ pc[r] \in Working
        BY <1>3, RecordsOne DEF Commit, RecordBlank, Working, Open
  <2>2. recorded'[c] \subseteq 1..file[r]
    <3>1. ASSUME NEW i \in recorded[c] PROVE i \in 1..file[r]
      <4>1. i \in 1..LastFile /\ LastFile \in Nat
            BY FilesAssumption DEF TypeOK
      <4>2. file[r] \notin 1..i
            BY <1>2, <2>1
      <4> QED
          BY <2>1, <4>1, <4>2
    <3> QED
        BY <2>1, <3>1
  <2>3. CASE pc'[r] = "killed" /\ UNCHANGED <<at, file>>
        BY <1>3, <2>3
  <2>4. CASE NextFile(r)
    <3>1. recorded[at[r]] \cup {file[r]} \subseteq recorded'[at[r]]
          BY <1>3, <2>1
    <3>2. /\ at'[r] = c
          /\ pc'[r] = "done" \/ (pc'[r] = "check" /\ file'[r] = file[r] + 1)
          BY <1>3, <2>1, <2>4, <3>1, Advance
    <3>3. (file[r] + 1) - 1 = file[r]
          BY <2>1
    <3> QED
        BY <2>2, <3>2, <3>3 DEF Working
  <2>5. NextFile(r) \/ (pc'[r] = "killed" /\ UNCHANGED <<at, file>>)
        BY <1>3 DEF Commit, RecordBlank, Move, Goto, TypeOK, database
  <2> QED
      BY <2>3, <2>4, <2>5
<1>4. CASE ~exists[c]
  <2>1. Nobody(c)
        BY <1>1, <1>4
  <2>2. ASSUME NEW r \in Run, CreateTable(r), at[r] = c PROVE Leads(r, c)'
    <3>1. /\ pc'[r] = "check" /\ at'[r] = c /\ file'[r] = 1 /\ recorded'[c] = {}
          BY <1>4, <2>1, <2>2 DEF CreateTable, Goto, TypeOK, Stages
    <3> QED
        BY <3>1 DEF Working
  <2>3. ASSUME NEW r \in Run, Turn(r), ~(CreateTable(r) /\ at[r] = c)
        PROVE  ~exists'[c] /\ Nobody(c)'
    <3>1. recorded'[c] = {} /\ ~exists'[c]
      <4>1. CASE Commit(r) \/ RecordBlank(r)
        <5>1. at[r] # c
              BY <2>1, <4>1 DEF Commit, RecordBlank
        <5> QED
            BY <1>4, <2>1, <4>1, <5>1, RecordsOne DEF database
      <4>2. CASE CreateTable(r)
            BY <1>4, <2>1, <2>3, <4>2 DEF CreateTable, Move, database, TypeOK
      <4>3. CASE ~(Commit(r) \/ RecordBlank(r) \/ CreateTable(r))
        <5>1. UNCHANGED database
              BY <2>3, <4>3 DEF Turn, Step, Start, EnsureTable, Check, Exec, Record,
                    Fail, Failed, DeadlockVictim, RollBack, Move
        <5> QED
            BY <1>4, <2>1, <5>1 DEF database
      <4> QED
          BY <4>1, <4>2, <4>3
    <3>2. ASSUME at'[r] = c PROVE pc'[r] \in {"idle", "ensure", "create", "killed"}
      <4>1. ASSUME NEW k \in Commands, Start(r, k) PROVE pc'[r] = "ensure"
            BY <4>1 DEF Start, Goto, TypeOK, Undisturbed
      <4>2. CASE EnsureTable(r) \/ CreateTable(r)
            BY <1>4, <2>3, <3>2, <4>2 DEF EnsureTable, CreateTable, Move, Goto, TypeOK
      <4>3. ASSUME Check(r) \/ RecordBlank(r) \/ Exec(r) \/ Record(r) \/ Commit(r)
                   \/ DeadlockVictim(r)
            PROVE  FALSE
        <5>1. at'[r] = at[r]
              BY <4>3 DEF Check, RecordBlank, Exec, Record, Commit, DeadlockVictim,
                    RollBack, Move, NextFile, Undisturbed
        <5>2. pc[r] \in Working
              BY <4>3 DEF Check, RecordBlank, Exec, Record, Commit, DeadlockVictim,
                    Working, Open
        <5> QED
            BY <2>1, <3>2, <5>1, <5>2 DEF Working, Open
      <4>4. CASE Fail(r)
            BY <4>4 DEF Fail, Failed, RollBack, Goto, TypeOK
      <4> QED
          BY <2>3, <4>1, <4>2, <4>3, <4>4 DEF Turn, Step
    <3> QED
        BY <2>1, <2>3, <3>1, <3>2, OneRun
  <2>4. CASE UNCHANGED vars
        BY <1>4, <2>1, <2>4 DEF vars, database, run
  <2> QED
      BY <2>2, <2>3, <2>4, <1>4 DEF Next, Turn, CreateTable, TypeOK
<1>5. CASE exists[c]
  <2>1. PICK l \in Run : Leads(l, c)
        BY <1>1, <1>5
  <2>2. ASSUME recorded'[c] = recorded[c], at'[l] = at[l], file'[l] = file[l],
               \/ pc'[l] = pc[l] \/ pc'[l] = "killed"
               \/ pc[l] \in Working /\ pc'[l] \in Working
        PROVE  Leads(l, c)'
        BY <2>1, <2>2 DEF Working, Open
  <2>3. ASSUME NEW r \in Run, Turn(r),
               ~((Commit(r) \/ RecordBlank(r)) /\ ~UNCHANGED database /\ at[r] = c)
        PROVE  recorded'[c] = recorded[c]
    <3>1. CASE Commit(r) \/ RecordBlank(r)
          BY <2>3, <3>1, RecordsOne DEF database
    <3>2. CASE ~(Commit(r) \/ RecordBlank(r))
          BY <2>3, <3>2 DEF Turn, Step, Start, EnsureTable, CreateTable, Check, Exec,
                Record, Fail, Failed, DeadlockVictim, RollBack, Move, database
    <3> QED
        BY <3>1, <3>2
  <2>4. ASSUME Turn(l),
               ~((Commit(l) \/ RecordBlank(l)) /\ ~UNCHANGED database /\ at[l] = c)
        PROVE  Leads(l, c)'
    <3>1. recorded'[c] = recorded[c]
          BY <2>3, <2>4
    <3>2. CASE Fail(l)
          BY <2>2, <3>1, <3>2 DEF Fail, Failed, RollBack, Goto, TypeOK
    <3>3. CASE ~Fail(l)
      <4>1. pc[l] \in Working /\ recorded[c] \subseteq 1..(file[l] - 1)
        <5>1. pc[l] \notin {"done", "killed"}
              BY <2>4, <3>3 DEF Turn, Step, Start, Reset, EnsureTable, CreateTable,
                    Check, RecordBlank, Exec, Record, Commit, DeadlockVictim
        <5> QED
            BY <2>1, <5>1
      <4>2. file[l] \notin recorded[c] /\ ~Taken(l)
            BY <1>5, <2>1, <4>1 DEF Taken, TypeOK
      <4>3. CASE Check(l)
            BY <1>5, <2>1, <2>2, <3>1, <4>1, <4>2, <4>3
               DEF Check, Move, Goto, TypeOK, Working
      <4>4. CASE Exec(l)
        <5>1. \A i \in 1..Len(effects[at[l]]) : effects[at[l]][i] # file[l]
              BY <2>1, <4>2 DEF Inductive, Backed
        <5> QED
            BY <2>2, <3>1, <4>1, <4>4, <5>1 DEF Exec, Move, Goto, TypeOK, Working, Open
      <4>5. CASE Record(l)
            BY <2>2, <3>1, <4>1, <4>2, <4>5 DEF Record, Goto, TypeOK, Working, Open
      <4>6. ASSUME Commit(l) \/ RecordBlank(l) PROVE FALSE
        <5>1. recorded'[c] = recorded[c] \cup {file[l]}
              BY <2>1, <4>2, <4>6 DEF Commit, RecordBlank, TypeOK, Inductive, Stages
        <5> QED
            BY <3>1, <4>2, <5>1
      <4>7. ASSUME DeadlockVictim(l) PROVE FALSE
            BY <4>7 DEF DeadlockVictim
      <4> QED
          BY <2>4, <3>3, <4>1, <4>3, <4>4, <4>5, <4>6, <4>7
             DEF Turn, Step, Start, Reset, EnsureTable, CreateTable, Working, Open
    <3> QED
        BY <3>2, <3>3
  <2>5. ASSUME NEW r \in Run, Turn(r), r # l,
               ~((Commit(r) \/ RecordBlank(r)) /\ ~UNCHANGED database /\ at[r] = c)
        PROVE  Leads(l, c)'
        BY <2>2, <2>3, <2>5, OneRun
  <2>6. ASSUME UNCHANGED vars PROVE Leads(l, c)'
        BY <2>2, <2>6 DEF vars, database, run
  <2>7. ASSUME NEW r \in Run, Turn(r) PROVE \E k \in Run : Leads(k, c)'
        BY <1>3, <2>4, <2>5, <2>7
  <2>8. exists'[c]
        BY <1>5
  <2> QED
      BY <2>6, <2>7, <2>8 DEF Next, Turn
<1> QED
    BY <1>4, <1>5

-----------------------------------------------------------------------------
(* The theorems. *)

\* Nothing has run.
LEMMA InductiveInit == Init => Inductive
<1> SUFFICES ASSUME Init PROVE Inductive
    OBVIOUS
<1> USE FilesAssumption DEF Init
<1>1. TypeOK
      BY DEF TypeOK, PC, Catalogue
<1>2. \A c \in Catalogue : effects[c] = <<>> /\ recorded[c] = {} /\ ~exists[c]
      OBVIOUS
<1>3. RecordedIsApplied
  <2>1. ASSUME NEW c \in Catalogue, NEW f
        PROVE  Cardinality({i \in 1..Len(effects[c]) : effects[c][i] = f}) = 0
    <3>1. {i \in 1..Len(effects[c]) : effects[c][i] = f} = {}
          BY <1>2
    <3> QED
        BY <3>1, FS_EmptySet
  <2> QED
      BY <1>1, <1>2, <2>1 DEF RecordedIsApplied
<1>4. Backed /\ AppliedInOrder /\ Leader
      BY <1>2 DEF Backed, AppliedInOrder, Leader
<1>5. Stages /\ Claims /\ NothingSkipped /\ SuccessMeansApplied
      BY DEF Stages, Claims, NothingSkipped, SuccessMeansApplied, Working, Open
<1> QED
    BY <1>3, <1>4, <1>5 DEF Inductive

\* The invariant holds of every state.
THEOREM InductiveInvariant == Spec => []Inductive
<1>1. Inductive /\ [Next]_vars => Inductive'
      BY AppliedStep, StagesStep, ClaimsStep, OrderStep, PassingStep, LeaderStep
         DEF Inductive
<1> QED
    BY <1>1, InductiveInit, PTL DEF Spec

\* A file's work is committed once if it is recorded and never otherwise.
THEOREM AppliedOnce == Spec => []RecordedIsApplied
<1>1. Inductive => RecordedIsApplied
      BY DEF Inductive
<1> QED
    BY <1>1, InductiveInvariant, PTL

\* Unless the schema is dropped, files are applied in order and none is passed
\* over.
THEOREM FilesInOrder == Spec => []AppliedInOrder
<1>1. Inductive => AppliedInOrder
      BY DEF Inductive
<1> QED
    BY <1>1, InductiveInvariant, PTL

\* A run that reports success has left its whole catalogue applied.
THEOREM SuccessIsComplete == Spec => []SuccessMeansApplied
<1>1. Inductive => SuccessMeansApplied
      BY DEF Inductive
<1> QED
    BY <1>1, InductiveInvariant, PTL

\* Racing runs that nothing kills never all defeat one another.
THEOREM RaceIsWon == Spec => []SomebodySucceeds
<1>1. Inductive => SomebodySucceeds
  <2> SUFFICES ASSUME Inductive, Undisturbed,
                      \A q \in Run : pc[q] \in {"idle", "done", "failed"},
                      NEW r \in Run, pc[r] # "idle"
               PROVE  recorded[at[r]] = 1..LastFile
      BY DEF SomebodySucceeds
  <2>1. \A q \in Run : pc[q] = "done" => recorded[at[q]] = 1..LastFile
        BY DEF Inductive, SuccessMeansApplied
  <2>2. at[r] \in Catalogue
        BY DEF Inductive, RecordedIsApplied, TypeOK
  <2>3. CASE pc[r] = "failed"
    <3>1. exists[at[r]]
          BY <2>2, <2>3 DEF Inductive, Leader
    <3>2. PICK l \in Run : at[l] = at[r] /\ pc[l] \in {"done", "killed"} \cup Working
          BY <2>2, <3>1 DEF Inductive, Leader
    <3> QED
        BY <2>1, <3>2 DEF Working, Open
  <2> QED
      BY <2>1, <2>3
<1> QED
    BY <1>1, InductiveInvariant, PTL
=============================================================================
