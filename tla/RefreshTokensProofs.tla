------------------------ MODULE RefreshTokensProofs ------------------------
(***************************************************************************)
(* What RefreshTokens guarantees, and ApiAuth with its access tokens, for  *)
(* any number of requests, tokens and families, any lifetimes and any      *)
(* clock, with or without faults.                                          *)
(***************************************************************************)
EXTENDS ApiAuth, TLAPS

-----------------------------------------------------------------------------
(* The steps, once and for all: the proofs below go through these cases.   *)

\* A step leaves everything, moves the clock, or is one of the requests'.
LEMMA StepCases ==
  ASSUME [Next]_vars
  PROVE  \/ UNCHANGED vars
         \/ Tick
         \/ \E r \in Request :
              \/ Arrive(r) \/ Login(r) \/ SelectNoRow(r) \/ CommitRotation(r)
              \/ BeginSweep(r) \/ CommitSweep(r) \/ Deliver(r)
              \/ SelectForUpdate(r) \/ SweepRow(r) \/ Logout(r)
              \/ Abort(r) \/ Lose(r)
BY DEF Next, Advance, AwaitRow, Fail, DeadlockVictim

\* A request that arrives changes nothing but its own local state.
LEMMA Arrival ==
  ASSUME NEW r \in Request, Arrive(r)
  PROVE  /\ pc[r] = "idle"
         /\ \E t \in known \cup {NULL} : 
              /\ \/ pc' = [pc EXCEPT ![r] = "login"]
                 \/ pc' = [pc EXCEPT ![r] = "select"]
                 \/ pc' = [pc EXCEPT ![r] = "logout"] /\ t \in known
              /\ tok' = [tok EXCEPT ![r] = t]
         /\ now' = [now EXCEPT ![r] = clock]
         /\ UNCHANGED <<table, lock, rows, known, clock>>
BY DEF Arrive, StartLogin, StartRefresh, StartLogout, Start, Goto

\* Only four steps write the table.
LEMMA Writers ==
  ASSUME [Next]_vars
  PROVE  \/ UNCHANGED table
         \/ \E r \in Request :
              Login(r) \/ CommitRotation(r) \/ CommitSweep(r) \/ Logout(r)
BY StepCases, Arrival
   DEF vars, table, request, Tick, SelectNoRow, BeginSweep, Deliver, Forget,
       SelectForUpdate, SweepRow, Abort, Lose

\* Every step keeps the types; a request that touches a row has a token.
LEMMA TypeStep == Inductive /\ [Next]_vars => TypeOK'
<1> SUFFICES ASSUME Inductive, [Next]_vars PROVE TypeOK'
    OBVIOUS
<1> USE NullAssumption, NumberAssumption DEF Inductive, TypeOK, TokenInv, table, request, Goto, PC, Bearers, Answers
<1>1. CASE UNCHANGED vars
      BY <1>1 DEF vars
<1>2. CASE Tick
      BY <1>2 DEF Tick
<1>3. ASSUME NEW r \in Request, Arrive(r) PROVE TypeOK'
      BY <1>3, Arrival
<1>4. ASSUME NEW r \in Request, Login(r) PROVE TypeOK'
      BY <1>4 DEF Login, Drawn, ExpiresAt, Fresh
<1>5. ASSUME NEW r \in Request, SelectNoRow(r) PROVE TypeOK'
      BY <1>5 DEF SelectNoRow
<1>6. ASSUME NEW r \in Request, CommitRotation(r) PROVE TypeOK'
      BY <1>6 DEF CommitRotation, MarkRotated, Drawn, ExpiresAt, Fresh, Release
<1>7. ASSUME NEW r \in Request, BeginSweep(r) PROVE TypeOK'
      BY <1>7 DEF BeginSweep, Snapshot, Rows
<1>8. ASSUME NEW r \in Request, CommitSweep(r) PROVE TypeOK'
      BY <1>8 DEF CommitSweep, Coalesce, Sweeps, Release
<1>9. ASSUME NEW r \in Request, Deliver(r) PROVE TypeOK'
      BY <1>9 DEF Deliver, Forget, Answers
<1>10. ASSUME NEW r \in Request, SelectForUpdate(r) PROVE TypeOK'
      BY <1>10 DEF SelectForUpdate, Refused
<1>11. ASSUME NEW r \in Request, SweepRow(r) PROVE TypeOK'
      BY <1>11 DEF SweepRow, Sweeps
<1>12. ASSUME NEW r \in Request, Logout(r) PROVE TypeOK'
      BY <1>12 DEF Logout, Coalesce
<1>13. ASSUME NEW r \in Request, Abort(r) PROVE TypeOK'
      BY <1>13 DEF Abort, AnswerAfterError, Release
<1>14. ASSUME NEW r \in Request, Lose(r) PROVE TypeOK'
      BY <1>14 DEF Lose, Forget, Answers
<1> QED
    BY <1>1, <1>2, <1>3, <1>4, <1>5, <1>6, <1>7, <1>8, <1>9, <1>10, <1>11, <1>12, <1>13, <1>14, StepCases

\* Rows are never removed, so what has a row keeps it; a request takes a token
\* only from a client or from the table.
LEMMA TokenStep == Inductive /\ [Next]_vars => TokenInv'
<1> SUFFICES ASSUME Inductive, [Next]_vars PROVE TokenInv'
    OBVIOUS
<1> USE NullAssumption, NumberAssumption DEF Inductive, TypeOK, TokenInv, Exists, table, request, Goto, Bearers, Answers
<1>1. CASE UNCHANGED vars
      BY <1>1 DEF vars
<1>2. CASE Tick
      BY <1>2 DEF Tick
<1>3. ASSUME NEW r \in Request, Arrive(r) PROVE TokenInv'
      BY <1>3, Arrival
<1>4. ASSUME NEW r \in Request, Login(r) PROVE TokenInv'
      BY <1>4 DEF Login, Drawn, ExpiresAt, Fresh
<1>5. ASSUME NEW r \in Request, SelectNoRow(r) PROVE TokenInv'
      BY <1>5 DEF SelectNoRow
<1>6. ASSUME NEW r \in Request, CommitRotation(r) PROVE TokenInv'
      BY <1>6 DEF CommitRotation, MarkRotated, Drawn, ExpiresAt, Fresh, Release
<1>7. ASSUME NEW r \in Request, BeginSweep(r) PROVE TokenInv'
      BY <1>7 DEF BeginSweep, Snapshot, Rows
<1>8. ASSUME NEW r \in Request, CommitSweep(r) PROVE TokenInv'
      BY <1>8 DEF CommitSweep, Coalesce, Sweeps, Release
<1>9. ASSUME NEW r \in Request, Deliver(r) PROVE TokenInv'
      BY <1>9 DEF Deliver, Forget, Answers
<1>10. ASSUME NEW r \in Request, SelectForUpdate(r) PROVE TokenInv'
      BY <1>10 DEF SelectForUpdate, Refused
<1>11. ASSUME NEW r \in Request, SweepRow(r) PROVE TokenInv'
      BY <1>11 DEF SweepRow, Sweeps
<1>12. ASSUME NEW r \in Request, Logout(r) PROVE TokenInv'
      BY <1>12 DEF Logout, Coalesce
<1>13. ASSUME NEW r \in Request, Abort(r) PROVE TokenInv'
      BY <1>13 DEF Abort, AnswerAfterError, Release
<1>14. ASSUME NEW r \in Request, Lose(r) PROVE TokenInv'
      BY <1>14 DEF Lose, Forget, Answers
<1> QED
    BY <1>1, <1>2, <1>3, <1>4, <1>5, <1>6, <1>7, <1>8, <1>9, <1>10, <1>11, <1>12, <1>13, <1>14, StepCases

\* A successor's row comes with the commit that names it.
LEMMA TableStep == Inductive /\ [Next]_vars => TableInv'
<1> SUFFICES ASSUME Inductive, [Next]_vars PROVE TableInv'
    OBVIOUS
<1> USE NullAssumption, NumberAssumption DEF Inductive, TypeOK, TokenInv, Exists, table, request, Goto, Bearers, TableInv, HolderInv, Live, Spent
<1>1. CASE UNCHANGED table
      BY <1>1
<1>2. ASSUME NEW r \in Request, Login(r) PROVE TableInv'
      BY <1>2 DEF Login, Drawn, ExpiresAt, Fresh
<1>3. ASSUME NEW r \in Request, CommitRotation(r) PROVE TableInv'
      BY <1>3 DEF CommitRotation, MarkRotated, Drawn, ExpiresAt, Fresh, Release
<1>4. ASSUME NEW r \in Request, CommitSweep(r) PROVE TableInv'
      BY <1>4 DEF CommitSweep, Coalesce, Sweeps, Release
<1>5. ASSUME NEW r \in Request, Logout(r) PROVE TableInv'
      BY <1>5 DEF Logout, Coalesce
<1> QED
    BY <1>1, <1>2, <1>3, <1>4, <1>5, Writers

\* Whoever else writes the row a rotation has tested would need its lock.
LEMMA HolderStep == Inductive /\ [Next]_vars => HolderInv'
<1> SUFFICES ASSUME Inductive, [Next]_vars PROVE HolderInv'
    OBVIOUS
<1> USE NullAssumption, NumberAssumption DEF Inductive, TypeOK, TokenInv, Exists, table, request, Goto, Bearers, HolderInv, Live, Spent, Refused
<1>1. CASE UNCHANGED vars
      BY <1>1 DEF vars
<1>2. CASE Tick
      BY <1>2 DEF Tick
<1>3. ASSUME NEW r \in Request, Arrive(r) PROVE HolderInv'
      BY <1>3, Arrival
<1>4. ASSUME NEW r \in Request, Login(r) PROVE HolderInv'
      BY <1>4 DEF Login, Drawn, ExpiresAt, Fresh
<1>5. ASSUME NEW r \in Request, SelectNoRow(r) PROVE HolderInv'
      BY <1>5 DEF SelectNoRow
<1>6. ASSUME NEW r \in Request, CommitRotation(r) PROVE HolderInv'
      BY <1>6 DEF CommitRotation, MarkRotated, Drawn, ExpiresAt, Fresh, Release
<1>7. ASSUME NEW r \in Request, BeginSweep(r) PROVE HolderInv'
      BY <1>7 DEF BeginSweep, Snapshot, Rows
<1>8. ASSUME NEW r \in Request, CommitSweep(r) PROVE HolderInv'
      BY <1>8 DEF CommitSweep, Coalesce, Sweeps, Release
<1>9. ASSUME NEW r \in Request, Deliver(r) PROVE HolderInv'
      BY <1>9 DEF Deliver, Forget, Answers
<1>10. ASSUME NEW r \in Request, SelectForUpdate(r) PROVE HolderInv'
      BY <1>10 DEF SelectForUpdate, Refused
<1>11. ASSUME NEW r \in Request, SweepRow(r) PROVE HolderInv'
      BY <1>11 DEF SweepRow, Sweeps
<1>12. ASSUME NEW r \in Request, Logout(r) PROVE HolderInv'
      BY <1>12 DEF Logout, Coalesce
<1>13. ASSUME NEW r \in Request, Abort(r) PROVE HolderInv'
      BY <1>13 DEF Abort, AnswerAfterError, Release
<1>14. ASSUME NEW r \in Request, Lose(r) PROVE HolderInv'
      BY <1>14 DEF Lose, Forget, Answers
<1> QED
    BY <1>1, <1>2, <1>3, <1>4, <1>5, <1>6, <1>7, <1>8, <1>9, <1>10, <1>11, <1>12, <1>13, <1>14, StepCases

\* A snapshot is of one family, and rows keep their family.
LEMMA SweepStep == Inductive /\ [Next]_vars => SweepInv'
<1> SUFFICES ASSUME Inductive, [Next]_vars PROVE SweepInv'
    OBVIOUS
<1> USE NullAssumption, NumberAssumption DEF Inductive, TypeOK, TokenInv, Exists, table, request, Goto, Bearers, SweepInv, Answers
<1>1. CASE UNCHANGED vars
      BY <1>1 DEF vars
<1>2. CASE Tick
      BY <1>2 DEF Tick
<1>3. ASSUME NEW r \in Request, Arrive(r) PROVE SweepInv'
      BY <1>3, Arrival
<1>4. ASSUME NEW r \in Request, Login(r) PROVE SweepInv'
      BY <1>4 DEF Login, Drawn, ExpiresAt, Fresh
<1>5. ASSUME NEW r \in Request, SelectNoRow(r) PROVE SweepInv'
      BY <1>5 DEF SelectNoRow
<1>6. ASSUME NEW r \in Request, CommitRotation(r) PROVE SweepInv'
      BY <1>6 DEF CommitRotation, MarkRotated, Drawn, ExpiresAt, Fresh, Release
<1>7. ASSUME NEW r \in Request, BeginSweep(r) PROVE SweepInv'
      BY <1>7 DEF BeginSweep, Snapshot, Rows
<1>8. ASSUME NEW r \in Request, CommitSweep(r) PROVE SweepInv'
      BY <1>8 DEF CommitSweep, Coalesce, Sweeps, Release
<1>9. ASSUME NEW r \in Request, Deliver(r) PROVE SweepInv'
      BY <1>9 DEF Deliver, Forget, Answers
<1>10. ASSUME NEW r \in Request, SelectForUpdate(r) PROVE SweepInv'
      BY <1>10 DEF SelectForUpdate, Refused
<1>11. ASSUME NEW r \in Request, SweepRow(r) PROVE SweepInv'
      BY <1>11 DEF SweepRow, Sweeps
<1>12. ASSUME NEW r \in Request, Logout(r) PROVE SweepInv'
      BY <1>12 DEF Logout, Coalesce
<1>13. ASSUME NEW r \in Request, Abort(r) PROVE SweepInv'
      BY <1>13 DEF Abort, AnswerAfterError, Release
<1>14. ASSUME NEW r \in Request, Lose(r) PROVE SweepInv'
      BY <1>14 DEF Lose, Forget, Answers
<1> QED
    BY <1>1, <1>2, <1>3, <1>4, <1>5, <1>6, <1>7, <1>8, <1>9, <1>10, <1>11, <1>12, <1>13, <1>14, StepCases

\* The clock only advances, and a token reaches a client after it is drawn.
LEMMA ClockStep == Inductive /\ [Next]_vars => ClockInv'
<1> SUFFICES ASSUME Inductive, [Next]_vars PROVE ClockInv'
    OBVIOUS
<1> USE NullAssumption, NumberAssumption DEF Inductive, TypeOK, TokenInv, Exists, table, request, Goto, Bearers, ClockInv, HolderInv, TableInv, Live, Spent, Answers
<1>1. CASE UNCHANGED vars
      BY <1>1 DEF vars
<1>2. CASE Tick
      BY <1>2 DEF Tick
<1>3. ASSUME NEW r \in Request, Arrive(r) PROVE ClockInv'
      BY <1>3, Arrival
<1>4. ASSUME NEW r \in Request, Login(r) PROVE ClockInv'
      BY <1>4 DEF Login, Drawn, ExpiresAt, Fresh
<1>5. ASSUME NEW r \in Request, SelectNoRow(r) PROVE ClockInv'
      BY <1>5 DEF SelectNoRow
<1>6. ASSUME NEW r \in Request, CommitRotation(r) PROVE ClockInv'
      BY <1>6 DEF CommitRotation, MarkRotated, Drawn, ExpiresAt, Fresh, Release
<1>7. ASSUME NEW r \in Request, BeginSweep(r) PROVE ClockInv'
      BY <1>7 DEF BeginSweep, Snapshot, Rows
<1>8. ASSUME NEW r \in Request, CommitSweep(r) PROVE ClockInv'
      BY <1>8 DEF CommitSweep, Coalesce, Sweeps, Release
<1>9. ASSUME NEW r \in Request, Deliver(r) PROVE ClockInv'
      BY <1>9 DEF Deliver, Forget, Answers
<1>10. ASSUME NEW r \in Request, SelectForUpdate(r) PROVE ClockInv'
      BY <1>10 DEF SelectForUpdate, Refused
<1>11. ASSUME NEW r \in Request, SweepRow(r) PROVE ClockInv'
      BY <1>11 DEF SweepRow, Sweeps
<1>12. ASSUME NEW r \in Request, Logout(r) PROVE ClockInv'
      BY <1>12 DEF Logout, Coalesce
<1>13. ASSUME NEW r \in Request, Abort(r) PROVE ClockInv'
      BY <1>13 DEF Abort, AnswerAfterError, Release
<1>14. ASSUME NEW r \in Request, Lose(r) PROVE ClockInv'
      BY <1>14 DEF Lose, Forget, Answers
<1> QED
    BY <1>1, <1>2, <1>3, <1>4, <1>5, <1>6, <1>7, <1>8, <1>9, <1>10, <1>11, <1>12, <1>13, <1>14, StepCases

\* A rotation spends the live row it holds as it adds the new one.
LEMMA LiveStep == Inductive /\ [Next]_vars => OneLiveToken'
<1> SUFFICES ASSUME Inductive, [Next]_vars PROVE OneLiveToken'
    OBVIOUS
<1> USE NullAssumption, NumberAssumption DEF Inductive, TypeOK, TokenInv, Exists, table, request, Goto, Bearers, OneLiveToken, TableInv, HolderInv, Live, Spent
<1>1. CASE UNCHANGED table
      BY <1>1
<1>2. ASSUME NEW r \in Request, Login(r) PROVE OneLiveToken'
      BY <1>2 DEF Login, Drawn, ExpiresAt, Fresh, Rows
<1>3. ASSUME NEW r \in Request, CommitRotation(r) PROVE OneLiveToken'
      BY <1>3 DEF CommitRotation, MarkRotated, Drawn, ExpiresAt, Fresh, Release
<1>4. ASSUME NEW r \in Request, CommitSweep(r) PROVE OneLiveToken'
      BY <1>4 DEF CommitSweep, Coalesce, Sweeps, Release
<1>5. ASSUME NEW r \in Request, Logout(r) PROVE OneLiveToken'
      BY <1>5 DEF Logout, Coalesce
<1> QED
    BY <1>1, <1>2, <1>3, <1>4, <1>5, Writers

\* A successor is fresh: it is in no chain yet, and its family has one.
LEMMA ChainStep == Inductive /\ [Next]_vars => OneChain'
<1> SUFFICES ASSUME Inductive, [Next]_vars PROVE OneChain'
    OBVIOUS
<1> USE NullAssumption, NumberAssumption DEF Inductive, TypeOK, TokenInv, Exists, table, request, Goto, Bearers, OneChain, First, TableInv, HolderInv, Live, Spent
<1>1. CASE UNCHANGED table
      BY <1>1
<1>2. ASSUME NEW r \in Request, Login(r) PROVE OneChain'
      BY <1>2 DEF Login, Drawn, ExpiresAt, Fresh, Rows
<1>3. ASSUME NEW r \in Request, CommitRotation(r) PROVE OneChain'
      BY <1>3 DEF CommitRotation, MarkRotated, Drawn, ExpiresAt, Fresh, Release
<1>4. ASSUME NEW r \in Request, CommitSweep(r) PROVE OneChain'
      BY <1>4 DEF CommitSweep, Coalesce, Sweeps, Release
<1>5. ASSUME NEW r \in Request, Logout(r) PROVE OneChain'
      BY <1>5 DEF Logout, Coalesce
<1> QED
    BY <1>1, <1>2, <1>3, <1>4, <1>5, Writers

\* The reading a rotation uses is not older than its token.
LEMMA TimeStep == Inductive /\ [Next]_vars => RotatedInTime'
<1> SUFFICES ASSUME Inductive, [Next]_vars PROVE RotatedInTime'
    OBVIOUS
<1> USE NullAssumption, NumberAssumption DEF Inductive, TypeOK, TokenInv, Exists, table, request, Goto, Bearers, RotatedInTime, TableInv, HolderInv, ClockInv, Live, Spent
<1>1. CASE UNCHANGED table
      BY <1>1
<1>2. ASSUME NEW r \in Request, Login(r) PROVE RotatedInTime'
      BY <1>2 DEF Login, Drawn, ExpiresAt, Fresh
<1>3. ASSUME NEW r \in Request, CommitRotation(r) PROVE RotatedInTime'
      BY <1>3 DEF CommitRotation, MarkRotated, Drawn, ExpiresAt, Fresh, Release
<1>4. ASSUME NEW r \in Request, CommitSweep(r) PROVE RotatedInTime'
      BY <1>4 DEF CommitSweep, Coalesce, Sweeps, Release
<1>5. ASSUME NEW r \in Request, Logout(r) PROVE RotatedInTime'
      BY <1>5 DEF Logout, Coalesce
<1> QED
    BY <1>1, <1>2, <1>3, <1>4, <1>5, Writers

\* A revoked row stays revoked.
LEMMA SweptStep == Inductive /\ [Next]_vars => ReuseRevokesWhatItSaw'
<1> SUFFICES ASSUME Inductive, [Next]_vars PROVE ReuseRevokesWhatItSaw'
    OBVIOUS
<1> USE NullAssumption, NumberAssumption DEF Inductive, TypeOK, TokenInv, Exists, table, request, Goto, Bearers, ReuseRevokesWhatItSaw, HolderInv, TableInv, Live, Spent, Answers
<1>1. CASE UNCHANGED vars
      BY <1>1 DEF vars
<1>2. CASE Tick
      BY <1>2 DEF Tick
<1>3. ASSUME NEW r \in Request, Arrive(r) PROVE ReuseRevokesWhatItSaw'
      BY <1>3, Arrival
<1>4. ASSUME NEW r \in Request, Login(r) PROVE ReuseRevokesWhatItSaw'
      BY <1>4 DEF Login, Drawn, ExpiresAt, Fresh
<1>5. ASSUME NEW r \in Request, SelectNoRow(r) PROVE ReuseRevokesWhatItSaw'
      BY <1>5 DEF SelectNoRow
<1>6. ASSUME NEW r \in Request, CommitRotation(r) PROVE ReuseRevokesWhatItSaw'
      BY <1>6 DEF CommitRotation, MarkRotated, Drawn, ExpiresAt, Fresh, Release
<1>7. ASSUME NEW r \in Request, BeginSweep(r) PROVE ReuseRevokesWhatItSaw'
      BY <1>7 DEF BeginSweep, Snapshot, Rows
<1>8. ASSUME NEW r \in Request, CommitSweep(r) PROVE ReuseRevokesWhatItSaw'
      BY <1>8 DEF CommitSweep, Coalesce, Sweeps, Release
<1>9. ASSUME NEW r \in Request, Deliver(r) PROVE ReuseRevokesWhatItSaw'
      BY <1>9 DEF Deliver, Forget, Answers
<1>10. ASSUME NEW r \in Request, SelectForUpdate(r) PROVE ReuseRevokesWhatItSaw'
      BY <1>10 DEF SelectForUpdate, Refused
<1>11. ASSUME NEW r \in Request, SweepRow(r) PROVE ReuseRevokesWhatItSaw'
      BY <1>11 DEF SweepRow, Sweeps
<1>12. ASSUME NEW r \in Request, Logout(r) PROVE ReuseRevokesWhatItSaw'
      BY <1>12 DEF Logout, Coalesce
<1>13. ASSUME NEW r \in Request, Abort(r) PROVE ReuseRevokesWhatItSaw'
      BY <1>13 DEF Abort, AnswerAfterError, Release
<1>14. ASSUME NEW r \in Request, Lose(r) PROVE ReuseRevokesWhatItSaw'
      BY <1>14 DEF Lose, Forget, Answers
<1> QED
    BY <1>1, <1>2, <1>3, <1>4, <1>5, <1>6, <1>7, <1>8, <1>9, <1>10, <1>11, <1>12, <1>13, <1>14, StepCases

-----------------------------------------------------------------------------
(* The theorems *)

\* The initial state satisfies the inductive invariant: the table is empty
\* and no request has arrived.
LEMMA InductiveInit == Init => Inductive
BY NullAssumption, NumberAssumption
   DEF Init, Inductive, TypeOK, PC, TokenInv, Bearers, TableInv, HolderInv,
       SweepInv, ClockInv, OneLiveToken, Live, OneChain, First, RotatedInTime,
       ReuseRevokesWhatItSaw, Exists

\* Each part of the inductive invariant survives every step.
LEMMA InductiveStep == Inductive /\ [Next]_vars => Inductive'
BY TypeStep, TokenStep, TableStep, HolderStep, SweepStep, ClockStep, LiveStep,
   ChainStep, TimeStep, SweptStep DEF Inductive

\* The inductive invariant of the table and its requests: every state that
\* user_auth_store.go can reach satisfies all of its parts.
THEOREM InductiveInvariant == Spec => []Inductive
BY InductiveInit, InductiveStep, PTL DEF Spec

\* Type correctness of the table, its locks and the requests in flight.
THEOREM TypeCorrect == Spec => []TypeOK
BY InductiveInvariant, PTL DEF Inductive

\* Clients that race to refresh or to replay a token, in any number, never
\* leave a family with two tokens that RotateAPIRefreshToken would accept.
THEOREM AtMostOneLive == Spec => []OneLiveToken
BY InductiveInvariant, PTL DEF Inductive

\* The rows of every family are one chain from its login's token.
THEOREM ChainOfRotations == Spec => []OneChain
BY InductiveInvariant, PTL DEF Inductive

\* However long a rotation waited for its row, its token had not expired when
\* it arrived, and the successor does not expire before it.
THEOREM NoLateRotation == Spec => []RotatedInTime
BY InductiveInvariant, PTL DEF Inductive

\* Every row that the family UPDATE of a reported reuse saw is revoked.
THEOREM ReuseRevokes == Spec => []ReuseRevokesWhatItSaw
BY InductiveInvariant, PTL DEF Inductive

-----------------------------------------------------------------------------
(* What no step ever does *)

\* A row's past is never rewritten, by any step from a reachable state.
LEMMA HistoryStep ==
  ASSUME Inductive, [Next]_vars, NEW t \in Token
  PROVE  /\ Exists(t) => family'[t] = family[t] /\ expiry'[t] = expiry[t]
         /\ revoked[t] # NULL => revoked'[t] = revoked[t]
         /\ next[t] # NULL => next'[t] = next[t]
<1> DEFINE Kept == /\ Exists(t) => family'[t] = family[t] /\ expiry'[t] = expiry[t]
                   /\ revoked[t] # NULL => revoked'[t] = revoked[t]
                   /\ next[t] # NULL => next'[t] = next[t]
<1> USE DEF Inductive, TypeOK, TokenInv, HolderInv, Bearers, Live, Spent, Exists
<1>1. CASE UNCHANGED table
      BY <1>1 DEF table
<1>2. ASSUME NEW r \in Request, Login(r) PROVE Kept
      BY <1>2 DEF Login, Fresh
<1>3. ASSUME NEW r \in Request, CommitRotation(r) PROVE Kept
      BY <1>3 DEF CommitRotation, MarkRotated, Fresh
<1>4. ASSUME NEW r \in Request, CommitSweep(r) PROVE Kept
      BY <1>4 DEF CommitSweep, Coalesce
<1>5. ASSUME NEW r \in Request, Logout(r) PROVE Kept
      BY <1>5 DEF Logout, Coalesce
<1> QED
    BY <1>1, <1>2, <1>3, <1>4, <1>5, Writers

\* revoked_at, replaced_by_token_id, expires_at and family_id are written
\* once: no UPDATE of the store changes what a row says of the past.
THEOREM HistoryNeverRewritten == Spec => HistoryIsFinal
<1>1. Inductive /\ [Next]_vars =>
        [\A t \in Token :
           /\ Exists(t) => family'[t] = family[t] /\ expiry'[t] = expiry[t]
           /\ revoked[t] # NULL => revoked'[t] = revoked[t]
           /\ next[t] # NULL => next'[t] = next[t]]_vars
      BY HistoryStep
<1> QED
    BY <1>1, InductiveInvariant, PTL DEF Spec, HistoryIsFinal

-----------------------------------------------------------------------------
(* Logout *)

\* A transaction holds rows only while it rotates or sweeps.
HeldBy(r) == {t \in Token : lock[t] = r}
LockInv   == \A r \in Request :
               pc[r] \notin {"rotate", "reuse"} \cup Sweeps => HeldBy(r) = {}

\* Whatever ends a transaction releases its rows.
LEMMA LockStep == Inductive /\ LockInv /\ [Next]_vars => LockInv'
<1> SUFFICES ASSUME Inductive, LockInv, [Next]_vars PROVE LockInv'
    OBVIOUS
<1> USE NullAssumption
        DEF Inductive, TypeOK, TokenInv, Bearers, LockInv, HeldBy, Sweeps, Goto, request
<1>1. CASE UNCHANGED vars \/ Tick
      BY <1>1 DEF vars, Tick
<1>2. ASSUME NEW r \in Request, Arrive(r) PROVE LockInv'
      BY <1>2, Arrival
<1>3. ASSUME NEW r \in Request, Login(r) \/ SelectNoRow(r) PROVE LockInv'
      BY <1>3 DEF Login, Drawn, SelectNoRow
<1>4. ASSUME NEW r \in Request, SelectForUpdate(r) PROVE LockInv'
      BY <1>4 DEF SelectForUpdate
<1>5. ASSUME NEW r \in Request, CommitRotation(r) PROVE LockInv'
      BY <1>5 DEF CommitRotation, Drawn, Release
<1>6. ASSUME NEW r \in Request, BeginSweep(r) \/ SweepRow(r) PROVE LockInv'
      BY <1>6 DEF BeginSweep, SweepRow
<1>7. ASSUME NEW r \in Request, CommitSweep(r) PROVE LockInv'
      BY <1>7 DEF CommitSweep, Release
<1>8. ASSUME NEW r \in Request, Logout(r) PROVE LockInv'
      BY <1>8 DEF Logout
<1>9. ASSUME NEW r \in Request, Abort(r) PROVE LockInv'
      BY <1>9 DEF Abort, Release, AnswerAfterError
<1>10. ASSUME NEW r \in Request, Deliver(r) \/ Lose(r) PROVE LockInv'
      BY <1>10 DEF Deliver, Lose, Forget, Answers
<1> QED
    BY <1>1, <1>2, <1>3, <1>4, <1>5, <1>6, <1>7, <1>8, <1>9, <1>10, StepCases

\* Nobody waits for a request that holds no row, so it is in no deadlock.
LEMMA HolderlessIsNoVictim ==
  ASSUME NEW r \in Request, HeldBy(r) = {}, NEW S \in SUBSET Request, r \in S,
         \A q \in Request : Wants(q) \subseteq Token
  PROVE  ~Deadlock(S)
<1> SUFFICES ASSUME Deadlock(S) PROVE FALSE
    OBVIOUS
<1> DEFINE U == S \ {r}
<1>1. \A q \in S : Wants(q) # {} /\ \A t \in Wants(q) : lock[t] \in U
      BY DEF Deadlock, Stuck, HeldBy
<1>2. U # {} /\ Stuck(U)
      BY <1>1 DEF Stuck
<1> QED
    BY <1>2 DEF Deadlock

\* An answered logout has revoked its token: by its own statement, because
\* nothing fails and the deadlock detector has no reason to pick it.
LEMMA LogoutStep ==
  ASSUME ~Faults, Inductive, LockInv, LogoutRevokesToken, [Next]_vars
  PROVE  LogoutRevokesToken'
<1> USE NullAssumption
        DEF Inductive, TypeOK, TokenInv, Bearers, Goto, LogoutRevokesToken
<1>1. \A t \in Token : revoked[t] # NULL => revoked'[t] # NULL
      BY HistoryStep
<1>2. CASE UNCHANGED request
      BY <1>1, <1>2 DEF request
<1>3. ASSUME NEW r \in Request, Arrive(r) PROVE LogoutRevokesToken'
      BY <1>1, <1>3, Arrival
<1>4. ASSUME NEW r \in Request, Login(r) \/ CommitRotation(r) PROVE LogoutRevokesToken'
      BY <1>1, <1>4 DEF Login, CommitRotation, Drawn
<1>5. ASSUME NEW r \in Request, SelectNoRow(r) \/ SelectForUpdate(r) \/ BeginSweep(r)
      PROVE  LogoutRevokesToken'
      BY <1>1, <1>5 DEF SelectNoRow, SelectForUpdate, BeginSweep
<1>6. ASSUME NEW r \in Request, CommitSweep(r) PROVE LogoutRevokesToken'
      BY <1>1, <1>6 DEF CommitSweep
<1>7. ASSUME NEW r \in Request, Logout(r) PROVE LogoutRevokesToken'
  <2>1. tok[r] \in Token /\ now[r] # NULL
        BY <1>7 DEF Logout
  <2>2. revoked'[tok[r]] # NULL
        BY <1>7, <2>1 DEF Logout, Coalesce
  <2> QED
      BY <1>1, <1>7, <2>2 DEF Logout
<1>8. ASSUME NEW r \in Request, DeadlockVictim(r) PROVE LogoutRevokesToken'
  <2>1. \A q \in Request : Wants(q) \subseteq Token
        BY DEF Wants
  <2>2. pc[r] # "logout"
        BY <1>8, <2>1, HolderlessIsNoVictim DEF DeadlockVictim, LockInv, Sweeps
  <2> QED
      BY <1>1, <1>8, <2>2 DEF DeadlockVictim, Abort, AnswerAfterError, Release
<1>9. ASSUME NEW r \in Request, Deliver(r) \/ Lose(r) PROVE LogoutRevokesToken'
      BY <1>1, <1>9 DEF Deliver, Lose, Forget
<1> QED
    BY <1>2, <1>3, <1>4, <1>5, <1>6, <1>7, <1>8, <1>9
       DEF Next, Advance, AwaitRow, Fail, SweepRow, Tick, vars

\* Where no statement fails, a token is dead once its logout has been
\* answered, however many rotations and sweeps were waiting for its row.
THEOREM LogoutRevokes == ASSUME ~Faults PROVE Spec => []LogoutRevokesToken
<1>1. Init => LockInv /\ LogoutRevokesToken
      BY NullAssumption DEF Init, LockInv, HeldBy, LogoutRevokesToken
<1>2. Inductive /\ LockInv /\ LogoutRevokesToken /\ [Next]_vars =>
        LockInv' /\ LogoutRevokesToken'
      BY LockStep, LogoutStep
<1> QED
    BY <1>1, <1>2, InductiveInvariant, PTL DEF Spec

-----------------------------------------------------------------------------
(* The refinement *)

\* What TokenFamily sees of a step: the live and the issued tokens of one
\* family change, those of the others do not.
Only(f) == \A g \in Family \ {f} : LiveIn(g)' = LiveIn(g) /\ Rows(g)' = Rows(g)

\* A login is Open: its family had no row, and its token is in no family.
LEMMA LoginOpens ==
  ASSUME Inductive, NEW r \in Request, Login(r)
  PROVE  Promise!Next
<1> USE NullAssumption DEF Inductive, TypeOK, TableInv, Rows, LiveIn, Live, Spent, Exists
<1>1. PICK f \in Family, t \in Fresh :
        /\ Rows(f) = {}
        /\ family' = [family EXCEPT ![t] = f]
      BY DEF Login
<1>2. UNCHANGED <<revoked, next>> /\ t \in Token /\ ~Exists(t)
      BY <1>1 DEF Login, Fresh
<1>3. LiveIn(f)' = {t} /\ Rows(f)' = {t}
      BY <1>1, <1>2
<1>4. Only(f)
      BY <1>1, <1>2 DEF Only
<1>5. t \notin Promise!Issued
      BY <1>2 DEF Promise!Issued
<1>6. Promise!Open(f, t)
  <2> HIDE DEF Rows, LiveIn
  <2> QED
      BY <1>1, <1>3, <1>4, <1>5 DEF Promise!Open, Only
<1> QED
    BY <1>2, <1>6 DEF Promise!Next

\* A committed rotation is Rotate: the row it holds was its family's live one.
LEMMA RotationRotates ==
  ASSUME Inductive, NEW r \in Request, CommitRotation(r)
  PROVE  Promise!Next
<1> USE NullAssumption
        DEF Inductive, TypeOK, TableInv, Rows, LiveIn, Live, Spent, Exists
<1>0. PICK f \in Family : tok[r] \in Token /\ f = family[tok[r]]
      BY DEF CommitRotation, TokenInv, Bearers
<1>1. PICK t \in Fresh : MarkRotated(r, t)
      BY DEF CommitRotation
<1>2. t \in Token /\ ~Exists(t) /\ Live(tok[r])
      BY <1>0, <1>1 DEF CommitRotation, Fresh, HolderInv
<1>3. /\ now[r] # NULL
      /\ family'  = [family EXCEPT ![t] = f]
      /\ revoked' = [revoked EXCEPT ![tok[r]] = now[r]]
      /\ next'    = [next EXCEPT ![tok[r]] = t]
      BY <1>0, <1>1 DEF MarkRotated
<1>4. LiveIn(f)' = {t}
      BY <1>0, <1>2, <1>3 DEF OneLiveToken
<1>5. Rows(f)' = Rows(f) \cup {t}
      BY <1>0, <1>2, <1>3
<1>6. Only(f)
      BY <1>0, <1>2, <1>3 DEF Only
<1>7. t \notin Promise!Issued /\ LiveIn(f) # {}
      BY <1>0, <1>2 DEF Promise!Issued
<1>8. Promise!Rotate(f, t)
  <2> HIDE DEF Inductive, TypeOK, TableInv, Rows, LiveIn, Live, Spent, Exists
  <2> QED
      BY <1>2, <1>4, <1>5, <1>6, <1>7 DEF Promise!Rotate, Only
<1> QED
    BY <1>2, <1>8 DEF Promise!Next

\* Revoking rows of one family closes it if its live token is among them, and
\* is nothing to TokenFamily otherwise.
LEMMA RevocationCloses ==
  ASSUME Inductive, NEW S \in SUBSET Token, NEW f \in Family,
         S \subseteq Rows(f),
         UNCHANGED <<family, next>>,
         \A t \in S : revoked'[t] # NULL,
         \A t \in Token : t \notin S \/ revoked[t] # NULL => revoked'[t] = revoked[t]
  PROVE  Promise!Next \/ UNCHANGED Promise!vars
<1> USE DEF Inductive, TypeOK, Rows, LiveIn, Live, Spent, Exists
<1>1. Rows(f)' = Rows(f) /\ Only(f)
      BY DEF Only
<1>2. CASE \E t \in S : Live(t)
  <2>1. LiveIn(f)' = {} /\ LiveIn(f) # {}
        BY <1>2 DEF OneLiveToken
  <2>2. Promise!Close(f)
    <3> HIDE DEF Rows, LiveIn
    <3> QED
        BY <1>1, <2>1 DEF Promise!Close, Only
  <2> QED
      BY <2>2 DEF Promise!Next
<1>3. CASE \A t \in S : ~Live(t)
  <2>1. LiveIn(f)' = LiveIn(f)
        BY <1>3
  <2> HIDE DEF Rows, LiveIn
  <2> QED
      BY <1>1, <2>1 DEF Promise!vars, Only
<1> QED
    BY <1>2, <1>3

\* Every step of the requests is a step of TokenFamily or one it cannot see.
LEMMA RefinementStep ==
  Inductive /\ [Next]_vars => [Promise!Next]_(Promise!vars)
<1> SUFFICES ASSUME Inductive, [Next]_vars
             PROVE  Promise!Next \/ UNCHANGED Promise!vars
    OBVIOUS
<1>1. CASE UNCHANGED table
      BY <1>1 DEF table, Promise!vars, Rows, LiveIn, Live, Spent, Exists
<1>2. ASSUME NEW r \in Request, CommitSweep(r)
      PROVE  Promise!Next \/ UNCHANGED Promise!vars
  <2> USE NullAssumption DEF Inductive, TypeOK
  <2>1. PICK f \in Family : tok[r] \in Token /\ f = family[tok[r]]
        BY <1>2 DEF CommitSweep, Sweeps, TokenInv, Bearers, Exists
  <2>2. rows[r] \in SUBSET Token /\ rows[r] \subseteq Rows(f)
        BY <2>1 DEF SweepInv, Rows
  <2>3. /\ UNCHANGED <<family, next>>
        /\ \A t \in rows[r] : revoked'[t] # NULL
        /\ \A t \in Token : t \notin rows[r] \/ revoked[t] # NULL
                              => revoked'[t] = revoked[t]
        BY <1>2 DEF CommitSweep, Coalesce
  <2>4. PICK S \in SUBSET Token : S = rows[r]
        BY <2>2
  <2> HIDE DEF Inductive, TypeOK
  <2> QED
      BY <2>1, <2>2, <2>3, <2>4, RevocationCloses
<1>3. ASSUME NEW r \in Request, Logout(r)
      PROVE  Promise!Next \/ UNCHANGED Promise!vars
  <2> USE NullAssumption DEF Inductive, TypeOK
  <2>1. PICK f \in Family : tok[r] \in Token /\ f = family[tok[r]]
        BY <1>3 DEF Logout, TokenInv, Bearers, Exists
  <2>2. {tok[r]} \subseteq Rows(f)
        BY <2>1 DEF Rows
  <2>3. /\ UNCHANGED <<family, next>>
        /\ \A t \in {tok[r]} : revoked'[t] # NULL
        /\ \A t \in Token : t \notin {tok[r]} \/ revoked[t] # NULL
                              => revoked'[t] = revoked[t]
        BY <1>3, <2>1 DEF Logout, Coalesce
  <2>4. PICK S \in SUBSET Token : S = {tok[r]}
        BY <2>1
  <2> HIDE DEF Inductive, TypeOK
  <2> QED
      BY <2>1, <2>2, <2>3, <2>4, RevocationCloses
<1> QED
    BY <1>1, <1>2, <1>3, Writers, LoginOpens, RotationRotates

\* The requests on their table implement TokenFamily: seen through what a
\* refresh would accept, login, refresh, logout and reuse detection are the
\* atomic steps Open, Rotate and Close.
THEOREM Refinement == Spec => ImplementsTokenFamily
<1>1. Init => Promise!Init
      BY NullAssumption DEF Init, Promise!Init, LiveIn, Rows, Live, Exists
<1> QED
    BY <1>1, RefinementStep, InductiveInvariant, PTL
       DEF Spec, ImplementsTokenFamily, Promise!Spec

-----------------------------------------------------------------------------
(* Access tokens: how long they outlive their family.                      *)

\* A family that has died had rows, has no live one, and none of its rows was
\* drawn by a request that came after its death.
DeathInv ==
  /\ died \in [Family -> Nat \cup {NULL}]
  /\ \A t \in Token : Exists(t) => expiry[t] <= clock + RefreshTTL
  /\ \A f \in Family : died[f] # NULL =>
       /\ died[f] <= clock
       /\ Rows(f) # {} /\ LiveIn(f) = {}
       /\ \A t \in Rows(f) : expiry[t] <= died[f] + RefreshTTL

ApiInductive == Inductive /\ DeathInv

\* A step either draws one token, for a login or for the live token of its
\* family, or leaves every family and expiry as it is.
LEMMA OneDrawn ==
  ASSUME Inductive, [Next]_vars
  PROVE  \/ UNCHANGED <<family, expiry>>
         \/ \E t \in Fresh, f \in Family, e \in Nat :
              /\ Rows(f) = {} \/ LiveIn(f) # {}
              /\ family' = [family EXCEPT ![t] = f]
              /\ expiry' = [expiry EXCEPT ![t] = e]
              /\ e <= clock + RefreshTTL
<1> USE NumberAssumption DEF Inductive, TypeOK
<1>1. CASE UNCHANGED table
      BY <1>1 DEF table
<1>2. ASSUME NEW r \in Request, Login(r)
      PROVE  \E t \in Fresh, f \in Family, e \in Nat :
               /\ Rows(f) = {} \/ LiveIn(f) # {}
               /\ family' = [family EXCEPT ![t] = f]
               /\ expiry' = [expiry EXCEPT ![t] = e]
               /\ e <= clock + RefreshTTL
  <2>1. ExpiresAt(r) \in Nat /\ ExpiresAt(r) <= clock + RefreshTTL
        BY DEF ExpiresAt, ClockInv
  <2> QED
      BY <1>2, <2>1 DEF Login
<1>3. ASSUME NEW r \in Request, CommitRotation(r)
      PROVE  \E t \in Fresh, f \in Family, e \in Nat :
               /\ Rows(f) = {} \/ LiveIn(f) # {}
               /\ family' = [family EXCEPT ![t] = f]
               /\ expiry' = [expiry EXCEPT ![t] = e]
               /\ e <= clock + RefreshTTL
  <2>1. ExpiresAt(r) \in Nat /\ ExpiresAt(r) <= clock + RefreshTTL
        BY DEF ExpiresAt, ClockInv
  <2>2. tok[r] \in Token /\ Live(tok[r]) /\ family[tok[r]] \in Family
        BY <1>3 DEF CommitRotation, TokenInv, Bearers, HolderInv, Live, Exists
  <2>3. LiveIn(family[tok[r]]) # {}
        BY <2>2 DEF LiveIn, Rows
  <2> QED
      BY <1>3, <2>1, <2>2, <2>3 DEF CommitRotation, MarkRotated
<1>4. ASSUME NEW r \in Request, CommitSweep(r) \/ Logout(r)
      PROVE  UNCHANGED <<family, expiry>>
      BY <1>4 DEF CommitSweep, Logout
<1> QED
    BY <1>1, <1>2, <1>3, <1>4, Writers

\* A row that is not live never becomes so.
LEMMA SpentForGood ==
  ASSUME Inductive, [Next]_vars, NEW t \in Token, Exists(t), ~Live(t)
  PROVE  ~Live(t)'
BY HistoryStep, NullAssumption DEF Live, Spent, Exists

\* No clock goes back.
LEMMA ClockAdvances == TypeOK /\ [Next]_vars => clock <= clock'
BY StepCases, Arrival
   DEF TypeOK, vars, Tick, Login, SelectNoRow, CommitRotation, BeginSweep,
       CommitSweep, Deliver, Forget, SelectForUpdate, SweepRow, Logout, Abort, Lose

\* A family without live token gets no row, and the rows of one that dies now
\* were drawn before.
LEMMA DeathStep == ApiInductive /\ [ApiNext]_apiVars => DeathInv'
<1> SUFFICES ASSUME ApiInductive, [ApiNext]_apiVars PROVE DeathInv'
    OBVIOUS
<1> USE NullAssumption, NumberAssumption DEF ApiInductive
<1>1. /\ [Next]_vars /\ Inductive
      /\ clock \in Nat /\ clock' \in Nat /\ clock <= clock'
      /\ family \in [Token -> Family \cup {NULL}] /\ expiry \in [Token -> Nat]
      BY TypeStep, ClockAdvances DEF ApiNext, apiVars, vars, Inductive, TypeOK
<1>2. \/ UNCHANGED died
      \/ died' = [f \in Family |->
                    IF LiveIn(f) # {} /\ LiveIn(f)' = {} THEN clock ELSE died[f]]
      BY DEF ApiNext, apiVars
<1>3. died' \in [Family -> Nat \cup {NULL}]
      BY <1>1, <1>2 DEF DeathInv
<1>4. \A t \in Token : Exists(t)' => expiry'[t] <= clock' + RefreshTTL
      BY <1>1, OneDrawn DEF DeathInv, Exists, Fresh
<1>5. ASSUME NEW f \in Family, died'[f] # NULL
      PROVE  /\ died'[f] <= clock'
             /\ Rows(f)' # {} /\ LiveIn(f)' = {}
             /\ \A t \in Rows(f)' : expiry'[t] <= died'[f] + RefreshTTL
  <2>1. /\ \A t \in Rows(f) : t \in Rows(f)' /\ expiry'[t] = expiry[t]
        /\ \A t \in Rows(f)' : t \in Rows(f) \/ expiry'[t] <= clock + RefreshTTL
        BY <1>1, HistoryStep, OneDrawn DEF Rows, Exists, Fresh
  <2>2. CASE LiveIn(f) # {} /\ LiveIn(f)' = {} /\ died'[f] = clock
    <3>1. Rows(f) # {} /\ \A t \in Rows(f) : expiry[t] <= clock + RefreshTTL
          BY <2>2 DEF LiveIn, DeathInv, Rows, Exists
    <3> QED
        BY <1>1, <2>1, <2>2, <3>1
  <2>3. CASE died'[f] = died[f]
    <3>1. /\ died[f] \in Nat /\ died[f] <= clock
          /\ Rows(f) # {} /\ LiveIn(f) = {}
          /\ \A t \in Rows(f) : expiry[t] <= died[f] + RefreshTTL
          BY <1>5, <2>3 DEF DeathInv
    <3>2. Rows(f)' = Rows(f)
          BY <1>1, <2>1, <3>1, OneDrawn DEF Rows, Exists, Fresh
    <3>3. LiveIn(f)' = {}
          BY <1>1, <3>1, <3>2, SpentForGood DEF LiveIn, Rows, Exists
    <3> QED
        BY <1>1, <2>1, <2>3, <3>1, <3>2, <3>3
  <2> QED
      BY <1>2, <2>2, <2>3 DEF DeathInv
<1> QED
    BY <1>3, <1>4, <1>5 DEF DeathInv

\* Both invariants hold in every state of the composition.
THEOREM ApiInductiveInvariant == ApiSpec => []ApiInductive
<1>1. ApiInit => ApiInductive
  <2>1. ApiInit => Inductive
        BY InductiveInit DEF ApiInit
  <2>2. ApiInit => DeathInv
        BY DEF ApiInit, Init, DeathInv, Exists
  <2> QED
      BY <2>1, <2>2 DEF ApiInductive
<1>2. ApiInductive /\ [ApiNext]_apiVars => ApiInductive'
  <2> SUFFICES ASSUME ApiInductive, [ApiNext]_apiVars PROVE ApiInductive'
      OBVIOUS
  <2>1. Inductive /\ [Next]_vars
        BY DEF ApiInductive, ApiNext, apiVars
  <2>2. Inductive'
        BY <2>1, InductiveStep
  <2> QED
      BY <2>2, DeathStep DEF ApiInductive
<1> QED
    BY <1>1, <1>2, PTL DEF ApiSpec

\* requireAPIAuth accepts no access token of a family that ended AccessTTL
\* ago, whoever ended it and whatever was in flight then.
THEOREM AccessEnds == ApiSpec => []AccessEndsWithFamily
<1>1. ApiInductive => AccessEndsWithFamily
  <2> SUFFICES ASSUME ApiInductive, NEW t \in known,
                      died[family[t]] # NULL, clock >= died[family[t]] + AccessTTL
               PROVE  ~Accepted(t)
      BY DEF AccessEndsWithFamily
  <2>1. /\ t \in Token /\ family[t] \in Family
        /\ expiry[t] \in Nat /\ clock \in Nat
        BY DEF ApiInductive, Inductive, TypeOK, TokenInv, Exists
  <2>2. /\ died[family[t]] \in Nat
        /\ expiry[t] <= died[family[t]] + RefreshTTL
        BY <2>1 DEF ApiInductive, DeathInv, Rows
  <2> QED
      BY <2>1, <2>2, NumberAssumption, AccessAssumption DEF Accepted, AccessExpiry
<1> QED
    BY <1>1, ApiInductiveInvariant, PTL
=============================================================================
