--------------------------- MODULE RefreshTokens ---------------------------
(***************************************************************************)
(* The API refresh tokens: the table api_refresh_tokens under PostgreSQL's *)
(* READ COMMITTED isolation, and the requests of POST /api/auth/login,     *)
(* /refresh and /logout that run against it at the same time.              *)
(*                                                                         *)
(* A request is a small process.  What it does between two points where    *)
(* another request may see a difference is one action: a row lock taken, a *)
(* statement's snapshot, a commit, an answer delivered.                    *)
(*                                                                         *)
(* Simplifications: a user is his family (user_id is copied from row to    *)
(* row); last_used_at is left out (nobody reads it, and only a rotation    *)
(* writes it, with the value it gives revoked_at); token hashes do not     *)
(* collide; the wall clock does not go back.                               *)
(***************************************************************************)
EXTENDS Naturals, FiniteSets

CONSTANTS
  Request,     \* requests that may be in flight together
  Token,       \* refresh tokens randomToken may draw
  Family,      \* family ids randomToken may draw
  NULL,        \* SQL null; also "no lock holder" and "no such token"
  RefreshTTL,  \* s.apiRefreshTokenTTL
  MaxClock,    \* bound: the clock stops here
  Faults       \* may statements fail and commits lose their answer?

ASSUME NullAssumption   == NULL \notin Token \cup Family \cup Request \cup Nat
ASSUME NumberAssumption == RefreshTTL \in Nat /\ MaxClock \in Nat
ASSUME FaultsAssumption == Faults \in BOOLEAN

VARIABLES
  family, expiry, revoked, next,  \* the columns of api_refresh_tokens, by token
  lock,     \* lock[t]: the request whose transaction holds row t, or NULL
  pc,       \* pc[r]: what request r does next
  tok,      \* tok[r]: the token r presented or, once granted, the new one
  now,      \* now[r]: time.Now() as r's handler read it
  rows,     \* rows[r]: the rows in the snapshot of r's family UPDATE
  known,    \* tokens some client holds, because an answer reached it
  clock

table   == <<family, expiry, revoked, next>>
request == <<pc, tok, now, rows>>
vars    == <<table, lock, request, known, clock>>

Answers == {"granted", "denied", "reused", "out"}
Sweeps  == {"sweep", "resweep"}
Bearers == {"rotate", "reuse", "sweep", "again", "resweep", "logout",
            "granted", "reused", "out"}
PC == {"idle", "login", "select", "rotate", "reuse", "sweep", "again",
       "resweep", "logout"} \cup Answers

-----------------------------------------------------------------------------
(* The table as a reader sees it. *)

Exists(t) == family[t] # NULL
Spent(t)  == revoked[t] # NULL \/ next[t] # NULL
Live(t)   == Exists(t) /\ ~Spent(t)
Rows(f)   == {t \in Token : family[t] = f}
LiveIn(f) == {t \in Rows(f) : Live(t)}
Fresh     == {t \in Token : ~Exists(t)}

\* Mutants of Refused: any unexpired token is accepted; a revoked one is; an
\* expired one is.
Refused_SpentAccepted(t, at)   == at > expiry[t]
Refused_RevokedAccepted(t, at) == next[t] # NULL \/ at > expiry[t]
Refused_ExpiredAccepted(t, at) == Spent(t)

\* The test RotateAPIRefreshToken makes on the row it has just locked.
Refused(t, at) == Spent(t) \/ at > expiry[t]

\* Mutant of Coalesce: revoked_at = $2.
Coalesce_Overwrite(t, at) == at

\* revoked_at = coalesce(revoked_at, $2)
Coalesce(t, at) == IF revoked[t] = NULL THEN at ELSE revoked[t]

-----------------------------------------------------------------------------
Init ==
  /\ family  = [t \in Token |-> NULL]
  /\ expiry  = [t \in Token |-> 0]
  /\ revoked = [t \in Token |-> NULL]
  /\ next    = [t \in Token |-> NULL]
  /\ lock    = [t \in Token |-> NULL]
  /\ pc      = [r \in Request |-> "idle"]
  /\ tok     = [r \in Request |-> NULL]
  /\ now     = [r \in Request |-> 0]
  /\ rows    = [r \in Request |-> {}]
  /\ known   = {}
  /\ clock   = 0

Tick == /\ clock < MaxClock
        /\ clock' = clock + 1
        /\ UNCHANGED <<table, lock, request, known>>

Goto(r, where) == pc' = [pc EXCEPT ![r] = where]

\* expires_at of a token drawn by r: now.Add(s.apiRefreshTokenTTL)
ExpiresAt(r) == now[r] + RefreshTTL

\* Mutant of Release: a transaction is abandoned without commit or rollback.
Release_Leak(r) == UNCHANGED lock

\* Commit and rollback release every row lock of the transaction.
Release(r) == lock' = [t \in Token |-> IF lock[t] = r THEN NULL ELSE lock[t]]

-----------------------------------------------------------------------------
(* A request arrives; its handler reads the clock.                         *)

\* Bound: a request that may draw a token starts only while enough are left.
TokensLeft ==
  Cardinality(Fresh) >
    Cardinality({r \in Request : pc[r] \in {"login", "select", "rotate"}})

FamiliesLeft ==
  Cardinality({f \in Family : Rows(f) = {}}) >
    Cardinality({r \in Request : pc[r] = "login"})

Start(r, where, t) ==
  /\ pc[r] = "idle"
  /\ Goto(r, where)
  /\ tok' = [tok EXCEPT ![r] = t]
  /\ now' = [now EXCEPT ![r] = clock]
  /\ UNCHANGED <<table, lock, rows, known, clock>>

\* The provider has vouched for the user; IssueAPITokenPair is about to run.
StartLogin(r) == TokensLeft /\ FamiliesLeft /\ Start(r, "login", NULL)

\* A client presents a token it was given, or (NULL) one that was never issued.
StartRefresh(r) ==
  \E t \in known \cup {NULL} :
    /\ t \in Token => Refused(t, clock) \/ TokensLeft
    /\ Start(r, "select", t)

StartLogout(r) == \E t \in known : Start(r, "logout", t)

-----------------------------------------------------------------------------
(* IssueAPITokenPair: one INSERT, committed by itself.  A commit may happen *)
(* and its acknowledgement be lost (Faults): the handler then answers with *)
(* an error, and no client ever learns the token.                          *)

Drawn(r, t) == \/ Goto(r, "granted") /\ tok' = [tok EXCEPT ![r] = t]
               \/ Faults /\ Goto(r, "denied") /\ UNCHANGED tok

Login(r) ==
  /\ pc[r] = "login"
  /\ \E f \in Family, t \in Fresh :
       /\ Rows(f) = {}
       /\ family' = [family EXCEPT ![t] = f]
       /\ expiry' = [expiry EXCEPT ![t] = ExpiresAt(r)]
       /\ Drawn(r, t)
  /\ UNCHANGED <<revoked, next, lock, now, rows, known, clock>>

-----------------------------------------------------------------------------
(* RotateAPIRefreshToken: a transaction that opens with SELECT ... FOR     *)
(* UPDATE, which waits for the row's holder and then reads what it left.   *)

SelectNoRow(r) ==
  /\ pc[r] = "select"
  /\ tok[r] = NULL
  /\ Goto(r, "denied")
  /\ UNCHANGED <<table, lock, tok, now, rows, known, clock>>

\* Mutant of SelectForUpdate: FOR UPDATE is missing, nothing waits.
SelectForUpdate_NoLock(r) ==
  /\ pc[r] = "select"
  /\ tok[r] # NULL
  /\ Goto(r, IF Refused(tok[r], now[r]) THEN "reuse" ELSE "rotate")
  /\ UNCHANGED <<table, lock, tok, now, rows, known, clock>>

SelectForUpdate(r) ==
  /\ pc[r] = "select"
  /\ tok[r] # NULL
  /\ lock[tok[r]] = NULL
  /\ lock' = [lock EXCEPT ![tok[r]] = r]
  /\ Goto(r, IF Refused(tok[r], now[r]) THEN "reuse" ELSE "rotate")
  /\ UNCHANGED <<table, tok, now, rows, known, clock>>

\* The successor's INSERT and the mark on the current row are the
\* transaction's own until COMMIT.
MarkRotated(r, t) ==
  /\ family'  = [family EXCEPT ![t] = family[tok[r]]]
  /\ expiry'  = [expiry EXCEPT ![t] = ExpiresAt(r)]
  /\ revoked' = [revoked EXCEPT ![tok[r]] = now[r]]
  /\ next'    = [next EXCEPT ![tok[r]] = t]

CommitRotation(r) ==
  /\ pc[r] = "rotate"
  /\ \E t \in Fresh :
       /\ MarkRotated(r, t)
       /\ Drawn(r, t)
  /\ Release(r)
  /\ UNCHANGED <<now, rows, known, clock>>

-----------------------------------------------------------------------------
(* UPDATE ... SET revoked_at = coalesce(revoked_at, now) WHERE family_id.  *)
(* It runs twice: inside the rotation's transaction, then once more by     *)
(* itself (RevokeAPIRefreshTokenFamily).  The statement sees the rows that *)
(* are committed when it starts, locks them one by one in no promised      *)
(* order, and changes what it then finds in them.                          *)

\* A successor whose rotation has not committed is in no snapshot.
Snapshot(r) == Rows(family[tok[r]])

BeginSweep(r) ==
  /\ \/ pc[r] = "reuse" /\ Goto(r, "sweep")
     \/ pc[r] = "again" /\ Goto(r, "resweep")
  /\ rows' = [rows EXCEPT ![r] = Snapshot(r)]
  /\ UNCHANGED <<table, lock, tok, now, known, clock>>

SweepRow(r) ==
  /\ pc[r] \in Sweeps
  /\ \E t \in rows[r] :
       /\ lock[t] = NULL
       /\ lock' = [lock EXCEPT ![t] = r]
  /\ UNCHANGED <<table, request, known, clock>>

\* Mutant of CommitSweep: rows that others hold are skipped.
CommitSweep_SkipLocked(r) ==
  /\ pc[r] \in Sweeps
  /\ revoked' = [t \in Token |->
       IF t \in rows[r] /\ lock[t] = r THEN Coalesce(t, now[r]) ELSE revoked[t]]
  /\ Release(r)
  /\ Goto(r, IF pc[r] = "sweep" THEN "again" ELSE "reused")
  /\ UNCHANGED <<family, expiry, next, tok, now, rows, known, clock>>

CommitSweep(r) ==
  /\ pc[r] \in Sweeps
  /\ \A t \in rows[r] : lock[t] = r
  /\ revoked' = [t \in Token |->
                   IF t \in rows[r] THEN Coalesce(t, now[r]) ELSE revoked[t]]
  /\ Release(r)
  /\ \/ Goto(r, IF pc[r] = "sweep" THEN "again" ELSE "reused")
     \/ Faults /\ pc[r] = "sweep" /\ Goto(r, "denied")
  /\ UNCHANGED <<family, expiry, next, tok, now, rows, known, clock>>

-----------------------------------------------------------------------------
(* RevokeAPIRefreshTokenByHash: the same UPDATE on one row.                *)

\* Mutant of Logout: a row that is being rotated is skipped.
Logout_SkipLocked(r) ==
  /\ pc[r] = "logout"
  /\ revoked' = [revoked EXCEPT ![tok[r]] =
                   IF lock[tok[r]] = NULL THEN Coalesce(tok[r], now[r]) ELSE @]
  /\ Goto(r, "out")
  /\ UNCHANGED <<family, expiry, next, lock, tok, now, rows, known, clock>>

Logout(r) ==
  /\ pc[r] = "logout"
  /\ lock[tok[r]] = NULL
  /\ revoked' = [revoked EXCEPT ![tok[r]] = Coalesce(tok[r], now[r])]
  /\ Goto(r, "out")
  /\ UNCHANGED <<family, expiry, next, lock, tok, now, rows, known, clock>>

-----------------------------------------------------------------------------
(* A statement or a commit fails: PostgreSQL rolls the transaction back,   *)
(* the deferred Rollback finds nothing to do, and each handler has its     *)
(* answer.  The error of the family UPDATE is ignored, but then COMMIT     *)
(* fails; the errors of the second sweep and of logout are ignored.        *)

AnswerAfterError(r) == CASE pc[r] \in {"again", "resweep"} -> "reused"
                         [] pc[r] = "logout"               -> "out"
                         [] OTHER                          -> "denied"

Abort(r) ==
  /\ Release(r)
  /\ Goto(r, AnswerAfterError(r))
  /\ rows' = [rows EXCEPT ![r] = {}]
  /\ UNCHANGED <<table, tok, now, known, clock>>

Fail(r) == Faults /\ pc[r] \notin Answers \cup {"idle"} /\ Abort(r)

\* The rows r waits for, and the sets of requests that wait for one another.
Wants(r) == CASE pc[r] \in {"select", "logout"} -> {tok[r]} \ {NULL}
              [] pc[r] \in Sweeps -> {t \in rows[r] : lock[t] # r}
              [] OTHER -> {}
Stuck(S)    == \A r \in S : Wants(r) # {} /\ \A t \in Wants(r) : lock[t] \in S
Deadlock(S) == /\ S # {} /\ Stuck(S)
               /\ \A U \in SUBSET S : U # {} /\ Stuck(U) => U = S

\* PostgreSQL's deadlock detector fails one statement of the cycle.
DeadlockVictim(r) ==
  /\ \E S \in SUBSET Request : r \in S /\ Deadlock(S)
  /\ Abort(r)

-----------------------------------------------------------------------------
(* The answer reaches the client, or the client is gone.                   *)

Forget(r) ==
  /\ pc[r] \in Answers
  /\ Goto(r, "idle")
  /\ tok'  = [tok EXCEPT ![r] = NULL]
  /\ now'  = [now EXCEPT ![r] = 0]
  /\ rows' = [rows EXCEPT ![r] = {}]
  /\ UNCHANGED <<table, lock, clock>>

Deliver(r) == /\ Forget(r)
              /\ known' = known \cup (IF pc[r] = "granted" THEN {tok[r]} ELSE {})

Lose(r) == Forget(r) /\ UNCHANGED known

-----------------------------------------------------------------------------
Arrive(r) == StartLogin(r) \/ StartRefresh(r) \/ StartLogout(r)

\* Steps that wait for nothing, and steps that wait for a row lock.
Advance(r) == \/ Login(r) \/ SelectNoRow(r) \/ CommitRotation(r)
              \/ BeginSweep(r) \/ CommitSweep(r) \/ Deliver(r)
AwaitRow(r) == SelectForUpdate(r) \/ SweepRow(r) \/ Logout(r)

Next == \/ Tick
        \/ \E r \in Request : \/ Arrive(r) \/ Advance(r) \/ AwaitRow(r)
                              \/ Fail(r) \/ DeadlockVictim(r) \/ Lose(r)

Spec == Init /\ [][Next]_vars

\* PostgreSQL queues the waiters of a row, so a row that is freed again and
\* again is granted in the end (SF); everything else is only ever postponed.
Fairness == \A r \in Request : /\ WF_vars(Advance(r))
                               /\ SF_vars(AwaitRow(r))
                               /\ WF_vars(DeadlockVictim(r))

FairSpec == Spec /\ Fairness

-----------------------------------------------------------------------------
(* Properties *)

\* Every variable keeps its type: the columns of the table, the locks, and
\* the local state of each request.
TypeOK ==
  /\ family  \in [Token -> Family \cup {NULL}]
  /\ expiry  \in [Token -> Nat]
  /\ revoked \in [Token -> Nat \cup {NULL}]
  /\ next    \in [Token -> Token \cup {NULL}]
  /\ lock    \in [Token -> Request \cup {NULL}]
  /\ pc      \in [Request -> PC]
  /\ tok     \in [Request -> Token \cup {NULL}]
  /\ now     \in [Request -> Nat]
  /\ rows    \in [Request -> SUBSET Token]
  /\ known   \in SUBSET Token
  /\ clock   \in Nat

\* A family never has two tokens a refresh would accept: however many clients
\* race to refresh one token, one of them gets a successor
\* (RotateAPIRefreshToken reads the row it tests FOR UPDATE).
OneLiveToken ==
  \A t, u \in Token : Live(t) /\ Live(u) /\ family[t] = family[u] => t = u

\* A token that replaces none: the one its family's login was answered with.
First(t) == Exists(t) /\ \A u \in Token : next[u] # t

\* The rows of a family form one chain: a token replaces at most one other, of
\* its own family, that token is revoked, and only a login's token replaces
\* none (replaced_by_token_id is written once per rotation).
OneChain ==
  /\ \A t \in Token : next[t] # NULL =>
       revoked[t] # NULL /\ Exists(t) /\ family[next[t]] = family[t]
  /\ \A t, u \in Token : next[t] = next[u] /\ next[t] # NULL => t = u
  /\ \A t, u \in Token : First(t) /\ First(u) /\ family[t] = family[u] => t = u

\* A rotation uses a clock read before it waited for the row.  Even so no
\* token is rotated by a request that arrived after it expired, and a
\* successor never expires before the token it replaces.
RotatedInTime ==
  \A t \in Token : next[t] # NULL =>
    /\ expiry[next[t]] <= expiry[t] + RefreshTTL
    /\ expiry[next[t]] >= expiry[t]

\* A client that is told of a reuse can rely on the rows its last UPDATE saw:
\* none of them will be accepted again.
ReuseRevokesWhatItSaw ==
  \A r \in Request : pc[r] \in {"again", "reused"} =>
    \A t \in rows[r] : Exists(t) /\ revoked[t] # NULL

\* Without failures a token is dead once its logout has been answered.
LogoutRevokesToken ==
  \A r \in Request : pc[r] = "out" => revoked[tok[r]] # NULL

\* The family a reuse was reported for holds no token a refresh would accept.
ReuseMeansFamilyRevoked ==
  \A r \in Request : pc[r] = "reused" =>
    \A t \in Rows(family[tok[r]]) : ~Live(t)

\* What a row once says of the past stays: its family and expiry, the instant
\* it was revoked (coalesce keeps the first) and its successor.
HistoryIsFinal ==
  [][\A t \in Token :
       /\ Exists(t) => family'[t] = family[t] /\ expiry'[t] = expiry[t]
       /\ revoked[t] # NULL => revoked'[t] = revoked[t]
       /\ next[t] # NULL => next'[t] = next[t]]_vars

\* Every request is answered: a waiter gets its row, a deadlock among sweeps
\* of one family is broken, a sweep of a bounded snapshot ends.
EveryRequestAnswered ==
  \A r \in Request : pc[r] \notin Answers \cup {"idle"} ~> pc[r] \in Answers

-----------------------------------------------------------------------------
(* What the proofs of RefreshTokensProofs rest on: each invariant above is *)
(* part of one inductive invariant.                                        *)

\* Every token a request works with, or a client knows, has a row.
TokenInv ==
  /\ \A r \in Request :
       /\ pc[r] \in Bearers => tok[r] # NULL
       /\ tok[r] # NULL => Exists(tok[r])
       /\ \A t \in rows[r] : Exists(t)
  /\ \A t \in known : Exists(t)

\* A row that is not there says nothing, and a successor is there.
TableInv == \A t \in Token : /\ ~Exists(t) => revoked[t] = NULL /\ next[t] = NULL
                             /\ next[t] # NULL => Exists(next[t])

\* The row a rotation tested stays what it was until the rotation commits.
HolderInv ==
  \A r \in Request : pc[r] = "rotate" =>
    lock[tok[r]] = r /\ Live(tok[r]) /\ now[r] <= expiry[tok[r]]

\* The rows a family UPDATE runs over are of its token's family.
SweepInv ==
  \A r \in Request :
    /\ pc[r] \in {"idle", "login", "select", "rotate", "reuse"} => rows[r] = {}
    /\ \A t \in rows[r] : tok[r] # NULL /\ family[t] = family[tok[r]]

\* No clock reading is from the future, and no token a request or a client
\* has was drawn after the reading it is compared with.
ClockInv ==
  /\ \A r \in Request :
       /\ now[r] <= clock
       /\ tok[r] # NULL => expiry[tok[r]] <= now[r] + RefreshTTL
  /\ \A t \in known : expiry[t] <= clock + RefreshTTL

\* The inductive invariant: its parts hold together, none is inductive alone.
Inductive == /\ TypeOK /\ TokenInv /\ TableInv /\ HolderInv
             /\ SweepInv /\ ClockInv
             /\ OneLiveToken /\ OneChain /\ RotatedInTime
             /\ ReuseRevokesWhatItSaw

-----------------------------------------------------------------------------
\* The refinement: what a refresh would accept, and what was ever issued.
Promise == INSTANCE TokenFamily WITH
             live   <- [f \in Family |-> LiveIn(f)],
             issued <- [f \in Family |-> Rows(f)]

\* The table with all its requests in flight implements TokenFamily.
ImplementsTokenFamily == Promise!Spec
=============================================================================
