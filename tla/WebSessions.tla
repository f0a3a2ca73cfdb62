---------------------------- MODULE WebSessions ----------------------------
(***************************************************************************)
(* The web session of one browser with several tabs: the table             *)
(* user_sessions, the middleware LoadSession that every page passes, and   *)
(* the three handlers that depend on it or change it (a page behind        *)
(* RequireAuth, oauthCallback behind RequireGuest, logout).  A request     *)
(* carries the cookie the browser had when it was sent; its answer changes *)
(* the cookie jar when it arrives, in any order, or never arrives.         *)
(*                                                                         *)
(* Simplifications: revoked_at is left out, since nothing ever sets it; a  *)
(* session's user is the session; what the callback does before it makes   *)
(* the session is OAuthFlows and SocialUsers.                              *)
(***************************************************************************)
EXTENDS Naturals, FiniteSets

CONSTANTS
  Request,     \* requests that may be in flight together
  Token,       \* session tokens randomToken may draw
  NULL,        \* no cookie; no current user
  SessionTTL,  \* s.sessionTTL
  TouchAfter,  \* ten minutes
  MaxClock,    \* bound: the clock stops here
  Faults       \* may statements fail, and answers get lost?

ASSUME NullAssumption   == NULL \notin Token \cup Nat /\ "keep" \notin Token \cup {NULL}
ASSUME NumberAssumption == {SessionTTL, TouchAfter, MaxClock} \subseteq Nat
ASSUME FaultsAssumption == Faults \in BOOLEAN

VARIABLES
  sessions,        \* the tokens that have a row in user_sessions
  expires, seen,   \* expires_at and last_seen_at, kept when the row is gone
  born,            \* history: when the session was made; NULL: not yet
  jar,             \* the cookie the browser holds
  pc, page,        \* what a request does next, and what it asked for
  cookie,          \* the cookie it carried
  row,             \* last_seen_at as its query returned it
  now,             \* time.Now() as LoadSession read it
  user,            \* the session it is authenticated by
  set,             \* what its answer does to the jar: "keep", NULL or a token
  sound, failed,   \* history: had its cookie a row when it was sent? has a
                   \* statement of it failed?
  clock

table   == <<sessions, expires, seen, born>>
request == <<pc, page, cookie, row, now, user, set, sound, failed>>
vars    == <<table, jar, request, clock>>

Pages == {"account", "callback", "logout"}
PC    == {"idle", "load", "check", "touch", "route", "create", "delete", "answer"}

Init ==
  /\ sessions = {}
  /\ expires = [t \in Token |-> 0]
  /\ seen    = [t \in Token |-> 0]
  /\ born    = [t \in Token |-> NULL]
  /\ jar     = NULL
  /\ pc      = [r \in Request |-> "idle"]
  /\ page    = [r \in Request |-> "account"]
  /\ cookie  = [r \in Request |-> NULL]
  /\ row     = [r \in Request |-> 0]
  /\ now     = [r \in Request |-> 0]
  /\ user    = [r \in Request |-> NULL]
  /\ set     = [r \in Request |-> "keep"]
  /\ sound   = [r \in Request |-> FALSE]
  /\ failed  = [r \in Request |-> FALSE]
  /\ clock   = 0

Tick == /\ clock < MaxClock
        /\ clock' = clock + 1
        /\ UNCHANGED <<table, jar, request>>

Goto(r, where) == pc' = [pc EXCEPT ![r] = where]

\* A statement of r fails, or is reported to have failed.
Error(r) == Faults /\ failed' = [failed EXCEPT ![r] = TRUE]

\* The cookie's Max-Age is over.
DropCookie ==
  /\ jar # NULL
  /\ clock >= expires[jar]
  /\ jar' = NULL
  /\ UNCHANGED <<table, request, clock>>

\* Bound: a callback is sent only while there is a token left to draw for it.
TokensLeft ==
  Cardinality({t \in Token : born[t] = NULL}) >
    Cardinality({r \in Request : page[r] = "callback"})

\* Without a cookie LoadSession asks nothing.
Send(r, p) ==
  /\ pc[r] = "idle"
  /\ p = "callback" => TokensLeft
  /\ Goto(r, IF jar = NULL THEN "route" ELSE "load")
  /\ page'   = [page EXCEPT ![r] = p]
  /\ cookie' = [cookie EXCEPT ![r] = jar]
  /\ sound'  = [sound EXCEPT ![r] = jar \in sessions]
  /\ UNCHANGED <<table, jar, row, now, user, set, failed, clock>>

-----------------------------------------------------------------------------
(* LoadSession *)

\* A guest, told to forget the cookie: no row, or any error of the query.
Dismiss(r) == Goto(r, "route") /\ set' = [set EXCEPT ![r] = NULL]

FindSession(r) ==
  /\ pc[r] = "load"
  /\ \/ /\ cookie[r] \in sessions
        /\ Goto(r, "check")
        /\ row' = [row EXCEPT ![r] = seen[cookie[r]]]
        /\ UNCHANGED <<set, failed>>
     \/ /\ (cookie[r] \notin sessions /\ UNCHANGED failed) \/ Error(r)
        /\ Dismiss(r)
        /\ UNCHANGED row
  /\ UNCHANGED <<table, jar, page, cookie, now, user, sound, clock>>

\* Mutant of Over: a session is over when it has not been used.
Over_Idle(t, at) == at > seen[t]

Over(t, at) == at > expires[t]

\* Mutant of Due: every request touches its session.
Due_Always(r) == TRUE

\* By the row the query returned, which other requests may have touched since.
Due(r) == clock - row[r] >= TouchAfter

\* The clock is read once the query has answered.
CheckSession(r) ==
  /\ pc[r] = "check"
  /\ now' = [now EXCEPT ![r] = clock]
  /\ IF Over(cookie[r], clock)
       THEN Dismiss(r) /\ UNCHANGED user
       ELSE /\ Goto(r, IF Due(r) THEN "touch" ELSE "route")
            /\ user' = [user EXCEPT ![r] = cookie[r]]
            /\ UNCHANGED set
  /\ UNCHANGED <<table, jar, page, cookie, row, sound, failed, clock>>

\* Mutants of Touch: the row is written whole; the session is prolonged.
Touch_Upsert(t, at) == /\ sessions' = sessions \cup {t}
                       /\ seen'     = [seen EXCEPT ![t] = at]
                       /\ UNCHANGED expires
Touch_Sliding(t, at) == /\ expires' = [expires EXCEPT ![t] = at + SessionTTL]
                        /\ seen'    = [seen EXCEPT ![t] = at]
                        /\ UNCHANGED sessions

\* An UPDATE: a row that is gone stays so.
Touch(t, at) == /\ seen' = IF t \in sessions THEN [seen EXCEPT ![t] = at] ELSE seen
                /\ UNCHANGED <<sessions, expires>>

\* The error of TouchSession is ignored.
TouchSession(r) ==
  /\ pc[r] = "touch"
  /\ \/ Touch(user[r], now[r]) /\ UNCHANGED failed
     \/ Error(r) /\ UNCHANGED <<sessions, expires, seen>>
  /\ Goto(r, "route")
  /\ UNCHANGED <<born, jar, page, cookie, row, now, user, set, sound, clock>>

-----------------------------------------------------------------------------
(* The handlers, behind RequireAuth or RequireGuest. *)

Handler(r) ==
  CASE page[r] = "logout"   /\ user[r] # NULL -> "delete"
    [] page[r] = "callback" /\ user[r] = NULL -> "create"
    [] OTHER -> "answer"

Route(r) == /\ pc[r] = "route"
            /\ Goto(r, Handler(r))
            /\ UNCHANGED <<table, jar, page, cookie, row, now, user, set, sound, failed, clock>>

\* Mutant of CreateSession: LastSeenAt is left out, and is the zero time.
CreateSession_NoLastSeen(r) ==
  /\ pc[r] = "create"
  /\ \E t \in {u \in Token : born[u] = NULL} :
       /\ sessions' = sessions \cup {t}
       /\ expires'  = [expires EXCEPT ![t] = clock + SessionTTL]
       /\ born'     = [born EXCEPT ![t] = clock]
       /\ \/ set' = [set EXCEPT ![r] = t] /\ UNCHANGED failed
          \/ Error(r) /\ UNCHANGED set
  /\ Goto(r, "answer")
  /\ UNCHANGED <<seen, jar, page, cookie, row, now, user, sound, clock>>

\* The cookie set last wins over one that LoadSession cleared.  The row may
\* be there although the handler was told it is not.
CreateSession(r) ==
  /\ pc[r] = "create"
  /\ \E t \in {u \in Token : born[u] = NULL} :
       /\ sessions' = sessions \cup {t}
       /\ expires'  = [expires EXCEPT ![t] = clock + SessionTTL]
       /\ seen'     = [seen EXCEPT ![t] = clock]
       /\ born'     = [born EXCEPT ![t] = clock]
       /\ \/ set' = [set EXCEPT ![r] = t] /\ UNCHANGED failed
          \/ Error(r) /\ UNCHANGED set
  /\ Goto(r, "answer")
  /\ UNCHANGED <<jar, page, cookie, row, now, user, sound, clock>>

\* Mutant of Logout: the session is only forgotten by the browser.
DeleteSession_CookieOnly(r) ==
  /\ pc[r] = "delete"
  /\ set' = [set EXCEPT ![r] = NULL]
  /\ Goto(r, "answer")
  /\ UNCHANGED <<table, jar, page, cookie, row, now, user, sound, failed, clock>>

\* The error of DeleteSessionByTokenHash is ignored.
DeleteSession(r) ==
  /\ pc[r] = "delete"
  /\ \/ sessions' = sessions \ {cookie[r]} /\ UNCHANGED failed
     \/ Error(r) /\ UNCHANGED sessions
  /\ set' = [set EXCEPT ![r] = NULL]
  /\ Goto(r, "answer")
  /\ UNCHANGED <<expires, seen, born, jar, page, cookie, row, now, user, sound, clock>>

\* CreateSession fails: the login page is shown again.
FailCreate(r) ==
  /\ pc[r] = "create"
  /\ Error(r)
  /\ Goto(r, "answer")
  /\ UNCHANGED <<table, jar, page, cookie, row, now, user, set, sound, clock>>

-----------------------------------------------------------------------------
(* The answer arrives, or is lost. *)

Forget(r) ==
  /\ pc[r] = "answer"
  /\ Goto(r, "idle")
  /\ page'   = [page EXCEPT ![r] = "account"]
  /\ cookie' = [cookie EXCEPT ![r] = NULL]
  /\ row'    = [row EXCEPT ![r] = 0]
  /\ now'    = [now EXCEPT ![r] = 0]
  /\ user'   = [user EXCEPT ![r] = NULL]
  /\ set'    = [set EXCEPT ![r] = "keep"]
  /\ sound'  = [sound EXCEPT ![r] = FALSE]
  /\ failed' = [failed EXCEPT ![r] = FALSE]
  /\ UNCHANGED <<table, clock>>

Arrive(r) == Forget(r) /\ jar' = IF set[r] = "keep" THEN jar ELSE set[r]

Lose(r) == Faults /\ Forget(r) /\ UNCHANGED jar

Handle(r) == \/ FindSession(r) \/ CheckSession(r) \/ TouchSession(r) \/ Route(r)
             \/ CreateSession(r) \/ FailCreate(r) \/ DeleteSession(r)

Next == \/ Tick \/ DropCookie
        \/ \E r \in Request : \/ Handle(r) \/ Arrive(r) \/ Lose(r)
                              \/ \E p \in Pages : Send(r, p)

Spec == Init /\ [][Next]_vars

-----------------------------------------------------------------------------
(* Properties *)

\* Types of the table, the jar and the requests in flight.
TypeOK ==
  /\ sessions \subseteq Token
  /\ expires  \in [Token -> Nat]
  /\ seen     \in [Token -> Nat]
  /\ born     \in [Token -> Nat \cup {NULL}]
  /\ jar      \in Token \cup {NULL}
  /\ pc       \in [Request -> PC]
  /\ page     \in [Request -> Pages]
  /\ cookie   \in [Request -> Token \cup {NULL}]
  /\ row      \in [Request -> Nat]
  /\ now      \in [Request -> Nat]
  /\ user     \in [Request -> Token \cup {NULL}]
  /\ set      \in [Request -> Token \cup {NULL, "keep"}]
  /\ sound    \in [Request -> BOOLEAN]
  /\ failed   \in [Request -> BOOLEAN]
  /\ clock    \in Nat

\* Touches overtake one another, may follow one another at once and may set
\* last_seen_at back; but it is always the login's reading or at least TouchAfter
\* later, since a touch is due by some value the row has had, and never one to
\* come.
Consistent ==
  /\ TypeOK
  /\ \A t \in Token : born[t] # NULL =>
       /\ seen[t] <= clock
       /\ seen[t] = born[t] \/ seen[t] >= born[t] + TouchAfter

\* A request sent after its session was deleted is a guest's, also when
\* requests that were loaded before the logout are still touching the session.
NoEntryAfterLogout == \A r \in Request : user[r] # NULL => sound[r]

\* A session is never accepted longer than SessionTTL after its login,
\* however often it was touched and however slow the query was.
AbsoluteLifetime ==
  \A r \in Request : user[r] # NULL => now[r] <= born[user[r]] + SessionTTL

\* A browser loses the cookie of a session that could go on only by an answer
\* to a request that ran into an error, or to one that was sent with another
\* cookie, too late for the jar it now reaches (Set-Cookie has no condition).
SignOutHasACause ==
  [][jar # NULL /\ jar' = NULL /\ jar \in sessions /\ clock < expires[jar] =>
       \E r \in Request : /\ pc[r] = "answer" /\ pc'[r] = "idle"
                          /\ failed[r] \/ cookie[r] # jar]_vars

\* Once logout is answered its session is deleted, whatever the other tabs
\* were doing to it, unless a statement of that very logout failed.
LogoutDeletesSession ==
  \A r \in Request :
    pc[r] = "answer" /\ page[r] = "logout" /\ user[r] # NULL /\ ~failed[r] =>
      user[r] \notin sessions
=============================================================================
