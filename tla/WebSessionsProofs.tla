------------------------- MODULE WebSessionsProofs -------------------------
(***************************************************************************)
(* What web sessions guarantee for any number of tabs and tokens, any      *)
(* lifetimes, and whatever fails or is lost.                               *)
(***************************************************************************)
EXTENDS WebSessions, TLAPS

\* A token that is anywhere was drawn by a login.
Drawn ==
  /\ \A t \in sessions : born[t] # NULL
  /\ jar # NULL => born[jar] # NULL
  /\ \A r \in Request : /\ cookie[r] # NULL => born[cookie[r]] # NULL
                        /\ set[r] \in Token => born[set[r]] # NULL

\* A session lasts SessionTTL, and touching it does not change that.
FixedLifetime ==
  \A t \in Token : born[t] # NULL => expires[t] = born[t] + SessionTTL

\* A request is authenticated by its own cookie, once that was checked.
Stages ==
  \A r \in Request :
    /\ pc[r] = "idle" => set[r] = "keep"
    /\ pc[r] \in {"load", "check", "touch"} => cookie[r] # NULL
    /\ pc[r] \in {"idle", "load", "check", "create"} => user[r] = NULL
    /\ pc[r] \in {"touch", "delete"} => user[r] # NULL
    /\ user[r] # NULL => user[r] = cookie[r]

\* What a request read of the session's row, and of the clock after it.
Readings ==
  \A r \in Request :
    /\ pc[r] \in {"check", "touch"} => row[r] >= born[cookie[r]]
    /\ pc[r] = "touch" => now[r] >= row[r] + TouchAfter
    /\ user[r] # NULL => now[r] <= clock /\ now[r] <= expires[user[r]]

\* A row that is gone stays so: a request that was sent without one never
\* finds one.
GoneForGood ==
  \A r \in Request :
    /\ cookie[r] # NULL /\ ~sound[r] => cookie[r] \notin sessions
    /\ pc[r] = "check" => sound[r]

\* An answer clears the cookie only where the session is over or gone, unless
\* a statement of the request failed.
ClearedIsOver ==
  \A r \in Request : set[r] = NULL /\ ~failed[r] /\ cookie[r] # NULL =>
    cookie[r] \notin sessions \/ expires[cookie[r]] < clock

Inductive == /\ Consistent /\ Drawn /\ FixedLifetime /\ Stages /\ Readings
             /\ GoneForGood /\ ClearedIsOver
             /\ NoEntryAfterLogout /\ LogoutDeletesSession

-----------------------------------------------------------------------------
\* The jar takes what an answer sets, if anything.
Takes(r) == Forget(r) /\ jar' \in {jar} \cup ({set[r]} \ {"keep"})

\* A step by its actor; and what Arrive and Lose have in common.
LEMMA StepCases ==
  ASSUME [Next]_vars
  PROVE  \/ UNCHANGED vars \/ Tick \/ DropCookie
         \/ \E r \in Request : \/ Handle(r) \/ \E p \in Pages : Send(r, p)
                               \/ Takes(r)
BY DEF Next, Arrive, Lose, Takes

\* What was once drawn is not drawn again, a session's dates do not change,
\* and a row that is gone does not come back.
LEMMA HistoryStep ==
  ASSUME TypeOK, [Next]_vars
  PROVE  /\ clock <= clock'
         /\ \A t \in Token : born[t] # NULL =>
              /\ born'[t] = born[t] /\ expires'[t] = expires[t]
              /\ t \notin sessions => t \notin sessions'
<1> USE DEF TypeOK, table
<1>1. CASE UNCHANGED vars
      BY <1>1 DEF vars
<1>2. CASE Tick \/ DropCookie
      BY <1>2 DEF Tick, DropCookie
<1>3. ASSUME NEW r \in Request, CreateSession(r)
      PROVE  /\ clock <= clock'
             /\ \A t \in Token : born[t] # NULL =>
                  /\ born'[t] = born[t] /\ expires'[t] = expires[t]
                  /\ t \notin sessions => t \notin sessions'
      BY <1>3 DEF CreateSession
<1>4. ASSUME NEW r \in Request,
             \/ Handle(r) /\ ~CreateSession(r)
             \/ \E p \in Pages : Send(r, p)
             \/ Takes(r)
      PROVE  UNCHANGED <<born, expires, clock>> /\ sessions' \subseteq sessions
      BY <1>4 DEF Handle, Send, FindSession, CheckSession, TouchSession, Touch, Route,
                  FailCreate, DeleteSession, Takes, Forget
<1> QED
    BY <1>1, <1>2, <1>3, <1>4, StepCases

\* An error leaves the failed requests of the right type.
LEMMA FailedType ==
  ASSUME TypeOK, NEW r \in Request, UNCHANGED failed \/ Error(r)
  PROVE  failed' \in [Request -> BOOLEAN]
BY DEF TypeOK, Error

\* Every step keeps the types.
LEMMA TypeStep == Inductive /\ [Next]_vars => TypeOK'
<1> SUFFICES ASSUME Inductive, [Next]_vars PROVE TypeOK'
    OBVIOUS
<1>0. TypeOK
      BY DEF Inductive, Consistent
<1> USE <1>0, NumberAssumption DEF TypeOK, Goto, PC, Pages, table, request
<1>1. CASE UNCHANGED vars \/ Tick \/ DropCookie
      BY <1>1 DEF vars, Tick, DropCookie
<1>2. ASSUME NEW r \in Request, NEW p \in Pages, Send(r, p) PROVE TypeOK'
      BY <1>2 DEF Send
<1>3. ASSUME NEW r \in Request, Takes(r) PROVE TypeOK'
      BY <1>3 DEF Takes, Forget
<1>4. ASSUME NEW r \in Request, FindSession(r) PROVE TypeOK'
      BY <1>4, FailedType DEF FindSession, Dismiss, Inductive, Stages
<1>5. ASSUME NEW r \in Request, CheckSession(r) PROVE TypeOK'
      BY <1>5 DEF CheckSession, Dismiss
<1>6. ASSUME NEW r \in Request, TouchSession(r) PROVE TypeOK'
      BY <1>6, FailedType DEF TouchSession, Touch
<1>7. ASSUME NEW r \in Request, CreateSession(r) PROVE TypeOK'
      BY <1>7, FailedType DEF CreateSession
<1>8. ASSUME NEW r \in Request, Route(r) \/ FailCreate(r) \/ DeleteSession(r)
      PROVE  TypeOK'
      BY <1>8, FailedType DEF Route, Handler, FailCreate, DeleteSession
<1> QED
    BY <1>1, <1>2, <1>3, <1>4, <1>5, <1>6, <1>7, <1>8, StepCases DEF Handle

\* Touches store readings of touches that were due.
LEMMA ConsistentStep == Inductive /\ [Next]_vars => Consistent'
<1> DEFINE WasDue == \A t \in Token : born[t] # NULL =>
                       /\ seen[t] <= clock
                       /\ seen[t] = born[t] \/ seen[t] >= born[t] + TouchAfter
<1> SUFFICES ASSUME Inductive, [Next]_vars PROVE WasDue'
    BY TypeStep DEF Consistent
<1> USE NullAssumption, NumberAssumption DEF Inductive, Consistent, TypeOK, table
<1>1. CASE UNCHANGED vars \/ Tick \/ DropCookie
      BY <1>1 DEF vars, Tick, DropCookie
<1>2. ASSUME NEW r \in Request,
             \/ Handle(r) /\ ~CreateSession(r) /\ ~TouchSession(r)
             \/ \E p \in Pages : Send(r, p)
             \/ Takes(r)
      PROVE  UNCHANGED <<born, seen, clock>>
      BY <1>2 DEF Handle, Send, FindSession, CheckSession, Route, FailCreate,
                  DeleteSession, Takes, Forget
<1>3. ASSUME NEW r \in Request, TouchSession(r) PROVE WasDue'
  <2>1. user[r] \in Token /\ now[r] <= clock /\ now[r] >= row[r] + TouchAfter
        BY <1>3 DEF TouchSession, Stages, Readings
  <2>2. row[r] >= born[user[r]] /\ born[user[r]] \in Nat
        BY <1>3, <2>1 DEF TouchSession, Stages, Readings, Drawn
  <2>3. now[r] \in Nat /\ row[r] \in Nat /\ now[r] >= born[user[r]] + TouchAfter
        BY <2>1, <2>2
  <2> QED
      BY <1>3, <2>1, <2>3 DEF TouchSession, Touch
<1>4. ASSUME NEW r \in Request, CreateSession(r) PROVE WasDue'
      BY <1>4 DEF CreateSession
<1> QED
    BY <1>1, <1>2, <1>3, <1>4, StepCases

\* No token comes from anywhere but a login.
LEMMA DrawnStep == Inductive /\ [Next]_vars => Drawn'
<1> SUFFICES ASSUME Inductive, [Next]_vars PROVE Drawn'
    OBVIOUS
<1> USE NullAssumption, NumberAssumption
        DEF Inductive, Consistent, TypeOK, Drawn, Goto, table, request
<1>1. CASE UNCHANGED vars \/ Tick \/ DropCookie
      BY <1>1 DEF vars, Tick, DropCookie
<1>2. ASSUME NEW r \in Request, NEW p \in Pages, Send(r, p) PROVE Drawn'
      BY <1>2 DEF Send
<1>3. ASSUME NEW r \in Request, Takes(r) PROVE Drawn'
      BY <1>3 DEF Takes, Forget
<1>4. ASSUME NEW r \in Request, CreateSession(r) PROVE Drawn'
      BY <1>4 DEF CreateSession
<1>5. ASSUME NEW r \in Request, Handle(r), ~CreateSession(r) PROVE Drawn'
      BY <1>5 DEF Handle, FindSession, CheckSession, Dismiss, TouchSession, Touch,
                  Route, FailCreate, DeleteSession
<1> QED
    BY <1>1, <1>2, <1>3, <1>4, <1>5, StepCases

\* Only a login writes the dates of a session.
LEMMA LifetimeStep == Inductive /\ [Next]_vars => FixedLifetime'
<1> SUFFICES ASSUME Inductive, [Next]_vars PROVE FixedLifetime'
    OBVIOUS
<1> USE NullAssumption, NumberAssumption
        DEF Inductive, Consistent, TypeOK, FixedLifetime
<1>1. ASSUME NEW r \in Request, CreateSession(r) PROVE FixedLifetime'
      BY <1>1 DEF CreateSession
<1>2. ASSUME NEW r \in Request,
             \/ Handle(r) /\ ~CreateSession(r)
             \/ \E p \in Pages : Send(r, p)
             \/ Takes(r)
      PROVE  UNCHANGED <<born, expires>>
      BY <1>2 DEF Handle, Send, FindSession, CheckSession, TouchSession, Touch, Route,
                  FailCreate, DeleteSession, Takes, Forget, table
<1> QED
    BY <1>1, <1>2, StepCases DEF vars, table, Tick, DropCookie

\* The cookie is asked for, checked and touched in this order.
LEMMA StagesStep == Inductive /\ [Next]_vars => Stages'
<1> SUFFICES ASSUME Inductive, [Next]_vars PROVE Stages'
    OBVIOUS
<1> USE NullAssumption DEF Inductive, Consistent, TypeOK, Stages, Goto, request
<1>1. CASE UNCHANGED vars \/ Tick \/ DropCookie
      BY <1>1 DEF vars, Tick, DropCookie
<1>2. ASSUME NEW r \in Request, NEW p \in Pages, Send(r, p) PROVE Stages'
      BY <1>2 DEF Send
<1>3. ASSUME NEW r \in Request, Takes(r) PROVE Stages'
      BY <1>3 DEF Takes, Forget
<1>4. ASSUME NEW r \in Request, FindSession(r) PROVE Stages'
      BY <1>4 DEF FindSession, Dismiss
<1>5. ASSUME NEW r \in Request, CheckSession(r) PROVE Stages'
      BY <1>5 DEF CheckSession, Dismiss
<1>6. ASSUME NEW r \in Request, Route(r) PROVE Stages'
      BY <1>6 DEF Route, Handler
<1>7. ASSUME NEW r \in Request,
             TouchSession(r) \/ CreateSession(r) \/ FailCreate(r) \/ DeleteSession(r)
      PROVE  Stages'
      BY <1>7 DEF TouchSession, CreateSession, FailCreate, DeleteSession
<1> QED
    BY <1>1, <1>2, <1>3, <1>4, <1>5, <1>6, <1>7, StepCases DEF Handle

\* What was read stays true of what it was read from.
LEMMA ReadingsStep == Inductive /\ [Next]_vars => Readings'
<1> SUFFICES ASSUME Inductive, [Next]_vars PROVE Readings'
    OBVIOUS
<1> USE NullAssumption, NumberAssumption
        DEF Inductive, Consistent, TypeOK, Drawn, Stages, Readings, Goto, table, request
<1>1. CASE UNCHANGED vars \/ Tick \/ DropCookie
      BY <1>1 DEF vars, Tick, DropCookie
<1>2. ASSUME NEW r \in Request, NEW p \in Pages, Send(r, p) PROVE Readings'
      BY <1>2 DEF Send
<1>3. ASSUME NEW r \in Request, Takes(r) PROVE Readings'
      BY <1>3 DEF Takes, Forget
<1>4. ASSUME NEW r \in Request, FindSession(r) PROVE Readings'
      BY <1>4 DEF FindSession, Dismiss
<1>5. ASSUME NEW r \in Request, CheckSession(r) PROVE Readings'
      BY <1>5 DEF CheckSession, Due, Over, Dismiss
<1>6. ASSUME NEW r \in Request, CreateSession(r) PROVE Readings'
      BY <1>6, HistoryStep DEF CreateSession
<1>7. ASSUME NEW r \in Request,
             TouchSession(r) \/ Route(r) \/ FailCreate(r) \/ DeleteSession(r)
      PROVE  Readings'
      BY <1>7 DEF TouchSession, Touch, Route, Handler, FailCreate, DeleteSession
<1> QED
    BY <1>1, <1>2, <1>3, <1>4, <1>5, <1>6, <1>7, StepCases DEF Handle

\* No row that was gone when a request was sent is there when it looks.
LEMMA GoneStep == Inductive /\ [Next]_vars => GoneForGood' /\ NoEntryAfterLogout'
<1> SUFFICES ASSUME Inductive, [Next]_vars PROVE GoneForGood' /\ NoEntryAfterLogout'
    OBVIOUS
<1> USE NullAssumption
        DEF Inductive, Consistent, TypeOK, Drawn, Stages, GoneForGood,
            NoEntryAfterLogout, Goto, table, request
<1>1. CASE UNCHANGED vars \/ Tick \/ DropCookie
      BY <1>1 DEF vars, Tick, DropCookie
<1>2. ASSUME NEW r \in Request, NEW p \in Pages, Send(r, p)
      PROVE  GoneForGood' /\ NoEntryAfterLogout'
      BY <1>2 DEF Send
<1>3. ASSUME NEW r \in Request, Takes(r) PROVE GoneForGood' /\ NoEntryAfterLogout'
      BY <1>3 DEF Takes, Forget
<1>4. ASSUME NEW r \in Request, Handle(r) PROVE GoneForGood' /\ NoEntryAfterLogout'
  <2>1. UNCHANGED <<cookie, sound>>
        BY <1>4 DEF Handle, FindSession, CheckSession, TouchSession, Route,
                    CreateSession, FailCreate, DeleteSession
  <2>2. \A q \in Request : cookie[q] # NULL /\ ~sound[q] => cookie[q] \notin sessions'
        BY HistoryStep
  <2>3. \A q \in Request : pc'[q] = "check" \/ user'[q] # NULL => sound[q]
        BY <1>4 DEF Handle, FindSession, CheckSession, Dismiss, TouchSession, Route,
                    Handler, CreateSession, FailCreate, DeleteSession
  <2> QED
      BY <2>1, <2>2, <2>3
<1> QED
    BY <1>1, <1>2, <1>3, <1>4, StepCases

\* An answer clears a cookie because there was no row, because its session was
\* over, or because it has deleted it; time and logouts do not undo that.
LEMMA ClearedStep == Inductive /\ [Next]_vars => ClearedIsOver'
<1> SUFFICES ASSUME Inductive, [Next]_vars, NEW q \in Request,
                    set'[q] = NULL, ~failed'[q], cookie'[q] # NULL
             PROVE  cookie'[q] \notin sessions' \/ expires'[cookie'[q]] < clock'
    BY DEF ClearedIsOver
<1> USE NullAssumption DEF Inductive, Consistent, TypeOK, Goto, table, request
<1>1. ASSUME set[q] = NULL, ~failed[q], cookie'[q] = cookie[q]
      PROVE  cookie'[q] \notin sessions' \/ expires'[cookie'[q]] < clock'
  <2>1. cookie[q] \in Token /\ born[cookie[q]] # NULL
        BY <1>1 DEF Drawn
  <2>2. cookie[q] \notin sessions \/ expires[cookie[q]] < clock
        BY <1>1 DEF ClearedIsOver
  <2>3. clock \in Nat /\ clock' \in Nat /\ expires[cookie[q]] \in Nat
        BY <2>1, TypeStep
  <2> QED
      BY <1>1, <2>1, <2>2, <2>3, HistoryStep
<1>2. CASE UNCHANGED vars \/ Tick \/ DropCookie
      BY <1>1, <1>2 DEF vars, Tick, DropCookie
<1>3. ASSUME NEW r \in Request, NEW p \in Pages, Send(r, p)
      PROVE  cookie'[q] \notin sessions' \/ expires'[cookie'[q]] < clock'
  <2>1. CASE q # r
        BY <1>1, <1>3, <2>1 DEF Send
  <2>2. CASE q = r
        BY <1>3, <2>2 DEF Send, Stages
  <2> QED
      BY <2>1, <2>2
<1>4. ASSUME NEW r \in Request, Takes(r)
      PROVE  cookie'[q] \notin sessions' \/ expires'[cookie'[q]] < clock'
      BY <1>1, <1>4 DEF Takes, Forget
<1>5. ASSUME NEW r \in Request, Handle(r)
      PROVE  cookie'[q] \notin sessions' \/ expires'[cookie'[q]] < clock'
  <2>1. CASE q # r
        BY <1>1, <1>5, <2>1
        DEF Handle, FindSession, CheckSession, Dismiss, Error, TouchSession, Route,
            CreateSession, FailCreate, DeleteSession
  <2>2. CASE q = r /\ FindSession(r)
        BY <1>1, <2>2 DEF FindSession, Dismiss, Error
  <2>3. CASE q = r /\ CheckSession(r)
        BY <1>1, <2>3 DEF CheckSession, Over, Dismiss, Stages
  <2>4. CASE q = r /\ (TouchSession(r) \/ Route(r) \/ FailCreate(r) \/ CreateSession(r))
        BY <1>1, <2>4 DEF TouchSession, Route, FailCreate, CreateSession, Error
  <2>5. CASE q = r /\ DeleteSession(r)
        BY <2>5 DEF DeleteSession, Error
  <2> QED
      BY <1>5, <2>1, <2>2, <2>3, <2>4, <2>5 DEF Handle
<1> QED
    BY <1>2, <1>3, <1>4, <1>5, StepCases

\* What a logout has deleted nobody brings back.
LEMMA LogoutStep == Inductive /\ [Next]_vars => LogoutDeletesSession'
<1> SUFFICES ASSUME Inductive, [Next]_vars PROVE LogoutDeletesSession'
    OBVIOUS
<1> USE NullAssumption
        DEF Inductive, Consistent, TypeOK, Drawn, Stages, LogoutDeletesSession, Goto,
            table, request
<1>1. CASE UNCHANGED vars \/ Tick \/ DropCookie
      BY <1>1 DEF vars, Tick, DropCookie
<1>2. ASSUME NEW r \in Request, NEW p \in Pages, Send(r, p) PROVE LogoutDeletesSession'
      BY <1>2 DEF Send
<1>3. ASSUME NEW r \in Request, Takes(r) PROVE LogoutDeletesSession'
      BY <1>3 DEF Takes, Forget
<1>4. ASSUME NEW r \in Request, FindSession(r) \/ CheckSession(r)
      PROVE  LogoutDeletesSession'
      BY <1>4 DEF FindSession, CheckSession, Dismiss, Error
<1>5. ASSUME NEW r \in Request, TouchSession(r) \/ FailCreate(r)
      PROVE  LogoutDeletesSession'
      BY <1>5 DEF TouchSession, Touch, FailCreate, Error
<1>6. ASSUME NEW r \in Request, Route(r) PROVE LogoutDeletesSession'
      BY <1>6 DEF Route, Handler
<1>7. ASSUME NEW r \in Request, CreateSession(r) PROVE LogoutDeletesSession'
      BY <1>7 DEF CreateSession, Error
<1>8. ASSUME NEW r \in Request, DeleteSession(r) PROVE LogoutDeletesSession'
      BY <1>8 DEF DeleteSession, Error
<1> QED
    BY <1>1, <1>2, <1>3, <1>4, <1>5, <1>6, <1>7, <1>8, StepCases DEF Handle

-----------------------------------------------------------------------------
(* The theorems. *)

\* Nobody has logged in.
LEMMA InductiveInit == Init => Inductive
BY NullAssumption, NumberAssumption
   DEF Init, Inductive, Consistent, TypeOK, PC, Pages, Drawn, FixedLifetime, Stages,
       Readings, GoneForGood, ClearedIsOver, NoEntryAfterLogout, LogoutDeletesSession

\* The invariant holds of every state.
THEOREM InductiveInvariant == Spec => []Inductive
<1>1. Inductive /\ [Next]_vars => Inductive'
      BY ConsistentStep, DrawnStep, LifetimeStep, StagesStep, ReadingsStep, GoneStep,
         ClearedStep, LogoutStep DEF Inductive
<1> QED
    BY <1>1, InductiveInit, PTL DEF Spec

\* last_seen_at is the reading of a login or of a touch that was due, in
\* whatever order touches reach the row.
THEOREM TouchesAreDue == Spec => []Consistent
<1>1. Inductive => Consistent
      BY DEF Inductive
<1> QED
    BY <1>1, InductiveInvariant, PTL

\* After a logout the cookie opens nothing, whatever was still in flight.
THEOREM LoggedOutIsGuest == Spec => []NoEntryAfterLogout
<1>1. Inductive => NoEntryAfterLogout
      BY DEF Inductive
<1> QED
    BY <1>1, InductiveInvariant, PTL

\* No session is accepted longer than SessionTTL after its login.
THEOREM SessionsEnd == Spec => []AbsoluteLifetime
<1>1. Inductive => AbsoluteLifetime
  <2> SUFFICES ASSUME Inductive, NEW r \in Request, user[r] # NULL
               PROVE  now[r] <= born[user[r]] + SessionTTL
      BY DEF AbsoluteLifetime
  <2>1. user[r] \in Token /\ born[user[r]] # NULL
        BY DEF Inductive, Consistent, TypeOK, Stages, Drawn
  <2> QED
      BY <2>1 DEF Inductive, Readings, FixedLifetime
<1> QED
    BY <1>1, InductiveInvariant, PTL

\* Once logout is answered without an error, its session is deleted.
THEOREM LogoutEndsSession == Spec => []LogoutDeletesSession
<1>1. Inductive => LogoutDeletesSession
      BY DEF Inductive
<1> QED
    BY <1>1, InductiveInvariant, PTL

\* A browser loses the cookie of a session that could go on only by an error or
\* by an answer to a request with another cookie.
THEOREM CookieLossHasACause == Spec => SignOutHasACause
<1> DEFINE Caused ==
      jar # NULL /\ jar' = NULL /\ jar \in sessions /\ clock < expires[jar] =>
        \E r \in Request : /\ pc[r] = "answer" /\ pc'[r] = "idle"
                           /\ failed[r] \/ cookie[r] # jar
<1>1. Inductive /\ [Next]_vars => Caused
  <2> SUFFICES ASSUME Inductive, [Next]_vars, jar # NULL, jar' = NULL,
                      jar \in sessions, clock < expires[jar]
               PROVE  \E r \in Request : /\ pc[r] = "answer" /\ pc'[r] = "idle"
                                         /\ failed[r] \/ cookie[r] # jar
      OBVIOUS
  <2> USE DEF Inductive, Consistent, TypeOK
  <2>1. clock \in Nat /\ expires[jar] \in Nat
        OBVIOUS
  <2>2. ~UNCHANGED jar /\ ~DropCookie
        BY <2>1 DEF DropCookie
  <2>3. PICK r \in Request : Takes(r)
    <3>1. ~UNCHANGED vars /\ ~Tick
          BY <2>2 DEF vars, Tick
    <3>2. ASSUME NEW r \in Request, Handle(r) \/ \E p \in Pages : Send(r, p)
          PROVE  UNCHANGED jar
          BY <3>2 DEF Handle, FindSession, CheckSession, TouchSession, Route,
                      CreateSession, FailCreate, DeleteSession, Send
    <3> QED
        BY <2>2, <3>1, <3>2, StepCases
  <2>4. pc[r] = "answer" /\ pc'[r] = "idle" /\ set[r] = NULL
        BY <2>2, <2>3 DEF Takes, Forget, Goto
  <2>5. failed[r] \/ cookie[r] # jar
        BY <2>1, <2>4 DEF ClearedIsOver
  <2> QED
      BY <2>4, <2>5
<1> QED
    BY <1>1, InductiveInvariant, PTL DEF Spec, SignOutHasACause
=============================================================================
