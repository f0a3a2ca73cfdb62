---------------------------- MODULE OAuthFlows -----------------------------
(***************************************************************************)
(* The OAuth flows of the web login: the in-memory oauthFlowStore, the     *)
(* handler that opens a flow (startSocialLogin) and the one a provider     *)
(* redirects the browser back to (oauthCallback), which may be called      *)
(* again, late, or for another provider.  Handlers read the clock before   *)
(* they wait for the store's mutex, and a restart forgets every flow.      *)
(*                                                                         *)
(* Simplifications: the redirect target travels with the flow and has no   *)
(* part in the control; both providers are configured.  A handler that has *)
(* answered is forgotten at once, and a callback that brings error= or no  *)
(* code has no step: it leaves the flow alone.  What the callback          *)
(* does with the flow it has got, and with its PKCE verifier, is WebLogin, *)
(* which composes these actions with the provider and the accounts.        *)
(***************************************************************************)
EXTENDS Naturals

CONSTANTS
  Request,   \* handlers that may run together
  State,     \* the state parameters randomToken may draw
  Provider,
  NULL,      \* no flow; also a state parameter that was never issued
  TTL, MaxClock

ASSUME NullAssumption   == NULL \notin State \cup Provider
ASSUME NumberAssumption == TTL \in Nat /\ MaxClock \in Nat

VARIABLES
  flows,               \* the states in the store
  provider, expires,   \* the records, by state; kept as history afterwards
  pc, state, prov, at, \* a handler, what it was asked for, its clock reading
  hits,                \* history: how many consume calls found the flow
  clock

store   == <<flows, provider, expires, hits>>
handler == <<pc, state, prov, at>>
vars    == <<store, handler, clock>>

Init ==
  /\ flows    = {}
  /\ provider = [s \in State |-> NULL]
  /\ expires  = [s \in State |-> 0]
  /\ hits     = [s \in State |-> 0]
  /\ pc       = [r \in Request |-> "idle"]
  /\ state    = [r \in Request |-> NULL]
  /\ prov     = [r \in Request |-> NULL]
  /\ at       = [r \in Request |-> 0]
  /\ clock    = 0

Tick == /\ clock < MaxClock
        /\ clock' = clock + 1
        /\ UNCHANGED <<store, handler>>

Issued == {s \in State : provider[s] # NULL}

Begin(r, where, s, p) ==
  /\ pc[r] = "idle"
  /\ pc'    = [pc EXCEPT ![r] = where]
  /\ state' = [state EXCEPT ![r] = s]
  /\ prov'  = [prov EXCEPT ![r] = p]
  /\ at'    = [at EXCEPT ![r] = clock]
  /\ UNCHANGED <<store, clock>>

\* Bound: a login starts only while there is a state left to draw for it.
StartSocialLogin(r, p) ==
  /\ \E s \in State \ Issued : \A q \in Request : pc[q] # "create"
  /\ Begin(r, "create", NULL, p)

\* The browser comes back, for the first time or again, with the state s; to
\* the callback of any provider.
OAuthCallback(r, s, p) == Begin(r, "consume", s, p)

\* r has answered.
Over(r) ==
  /\ pc'    = [pc EXCEPT ![r] = "idle"]
  /\ state' = [state EXCEPT ![r] = NULL]
  /\ prov'  = [prov EXCEPT ![r] = NULL]
  /\ at'    = [at EXCEPT ![r] = 0]

-----------------------------------------------------------------------------
(* With the mutex held, both calls first drop what their reading says has  *)
(* expired.                                                                *)

\* Mutant of Expired: expires at the instant itself, and one early.
Expired_Early(s, now) == now + 1 > expires[s]

\* Mutant of Expired: nothing does.
Expired_Never(s, now) == FALSE

Expired(s, now) == now > expires[s]

Kept(now) == {s \in flows : ~Expired(s, now)}

Create(r) ==
  /\ pc[r] = "create"
  /\ \E s \in State \ Issued :
       /\ flows'    = Kept(at[r]) \cup {s}
       /\ provider' = [provider EXCEPT ![s] = prov[r]]
       /\ expires'  = [expires EXCEPT ![s] = at[r] + TTL]
  /\ Over(r)
  /\ UNCHANGED <<hits, clock>>

Miss(r) ==
  /\ state[r] \notin Kept(at[r])
  /\ flows' = Kept(at[r])
  /\ Over(r)
  /\ UNCHANGED hits

\* The flow's provider is not the callback's, or the flow has expired.
Mismatch(r) == provider[state[r]] # prov[r] \/ Expired(state[r], at[r])

Accept(r) == /\ pc' = [pc EXCEPT ![r] = "accepted"]
             /\ UNCHANGED <<state, prov, at>>

\* Mutant of Hit: the provider is compared before the flow is deleted.
Hit_KeepOnMismatch(r) ==
  /\ state[r] \in Kept(at[r])
  /\ hits'  = [hits EXCEPT ![state[r]] = @ + 1]
  /\ IF Mismatch(r) THEN Over(r) /\ flows' = Kept(at[r])
                    ELSE Accept(r) /\ flows' = Kept(at[r]) \ {state[r]}

\* The flow is deleted first; only then is its provider compared.
Hit(r) ==
  /\ state[r] \in Kept(at[r])
  /\ flows' = Kept(at[r]) \ {state[r]}
  /\ hits'  = [hits EXCEPT ![state[r]] = @ + 1]
  /\ IF Mismatch(r) THEN Over(r) ELSE Accept(r)

Consume(r) ==
  /\ pc[r] = "consume"
  /\ Miss(r) \/ Hit(r)
  /\ UNCHANGED <<provider, expires, clock>>

-----------------------------------------------------------------------------
\* The process is restarted: its memory is gone, the browsers are not.
Restart ==
  /\ flows' = {}
  /\ pc'    = [r \in Request |-> "idle"]
  /\ state' = [r \in Request |-> NULL]
  /\ prov'  = [r \in Request |-> NULL]
  /\ at'    = [r \in Request |-> 0]
  /\ UNCHANGED <<provider, expires, hits, clock>>

-----------------------------------------------------------------------------
(* Properties *)

\* Types of the store and of the handlers.
TypeOK ==
  /\ flows    \in SUBSET State
  /\ provider \in [State -> Provider \cup {NULL}]
  /\ expires  \in [State -> Nat]
  /\ hits     \in [State -> Nat]
  /\ pc       \in [Request -> {"idle", "create", "consume", "accepted",
                               "user", "session", "signedin"}]
  /\ state    \in [Request -> State \cup {NULL}]
  /\ prov     \in [Request -> Provider \cup {NULL}]
  /\ at       \in [Request -> Nat]
  /\ clock    \in Nat

\* Types, and: a flow is good for one callback, right or wrong.  A page reload,
\* a second tab or a redirect replayed after a restart finds nothing, and a
\* callback for another provider uses the flow up.
OneCallbackPerFlow ==
  /\ TypeOK
  /\ \A s \in State : hits[s] <= 1 /\ (hits[s] = 1 => s \notin flows)

\* No call, however old its reading, drops a flow that could still be used:
\* a flow leaves the store by its callback, by a restart, or once expired.
NothingLostEarly ==
  [][\A s \in flows \ flows' :
       hits'[s] > hits[s] \/ clock > expires[s] \/ Restart]_vars

\* The store does not grow: after a call has had the mutex, no flow is left
\* that had expired by its reading, so none outlives the next call by more.
NoLeftovers ==
  [][\A r \in Request :
       pc[r] \in {"create", "consume"} /\ pc'[r] # pc[r]
         => \A s \in flows' : at[r] <= expires'[s]]_vars
=============================================================================
