------------------------------ MODULE WebLogin ------------------------------
(***************************************************************************)
(* A web login from end to end: OAuthFlows (the store and the handlers'    *)
(* first half), the provider, OAuthVerifier (what is made of the           *)
(* provider's answers), Accounts (FindOrCreateSocialUser, which            *)
(* SocialUsers implements statement by statement) and the session.         *)
(*                                                                         *)
(* At the provider somebody agrees to a flow, once or again and perhaps as *)
(* somebody else; each time the browser gets a code.  A callback brings    *)
(* any code and any state, of one flow or of two: it is the provider that  *)
(* compares the verifier of the flow with the challenge the code was asked *)
(* for with (PKCE).  A code can be exchanged once.  A restart of the       *)
(* server loses the flows and the handlers, not the codes and not the      *)
(* tables.                                                                 *)
(***************************************************************************)
EXTENDS OAuthFlows, Sequences, Functions

CONSTANTS
  Identity, Email, User,  \* as in Accounts
  ProviderOf,             \* ProviderOf[i]: where identity i belongs
  Code,                   \* codes the providers may give out
  EMPTY, GARBLED, OURS,   \* as in OAuthVerifier
  Answers                 \* Answers[i]: what i's provider may say, see Profile

ASSUME IdentityAssumption == ProviderOf \in [Identity -> Provider]
ASSUME UserAssumption     == NULL \notin User
\* A provider names the identity that agreed, or none.
ASSUME AnswersAssumption  ==
  \A i \in Identity : \A a \in Answers[i] :
    LET said == IF ProviderOf[i] = "google" THEN a.info.body ELSE a.account.body
    IN \/ said \in {EMPTY, GARBLED}
       \/ (IF ProviderOf[i] = "google" THEN said.sub ELSE said.id) \in {i, NULL}
\* GitHub lists addresses.
ASSUME ListsAssumption ==
  \A i \in Identity : \A a \in Answers[i] :
    ProviderOf[i] # "google" =>
      /\ a.emails.body # NULL
      /\ a.emails.body \in {EMPTY, GARBLED} \cup
           Seq([email : Email \cup {NULL}, primary : BOOLEAN, verified : BOOLEAN])

VARIABLES
  owner, mail,  \* the accounts
  source,       \* history: what the provider said when an account was made
  flow, who,    \* of a code: the state it was given out for, and who agreed
  used,         \* the codes that have been exchanged
  code, heard,  \* of a handler: the code it was given, what the provider said
  user          \* the account it signs in

accounts == <<owner, mail, source>>
codes    == <<flow, who, used>>
rest     == <<code, heard, user>>
loginVars == <<vars, accounts, codes, rest>>

Table    == INSTANCE Accounts
Verifier == INSTANCE OAuthVerifier

LoginInit ==
  /\ Init
  /\ Table!Init
  /\ source = [u \in User |-> NULL]
  /\ flow = [c \in Code |-> NULL]
  /\ who  = [c \in Code |-> NULL]
  /\ used = {}
  /\ code = [r \in Request |-> NULL]
  /\ heard = [r \in Request |-> NULL]
  /\ user = [r \in Request |-> NULL]

Goto(r, where) == pc' = [pc EXCEPT ![r] = where]

\* The flow store works; accounts and codes do not change.
Flows(action) == action /\ UNCHANGED <<accounts, codes>>

\* At the provider of flow s, i agrees.
Authorize(s, i) ==
  /\ provider[s] = ProviderOf[i]
  /\ \E c \in Code : /\ flow[c] = NULL
                     /\ flow' = [flow EXCEPT ![c] = s]
                     /\ who'  = [who EXCEPT ![c] = i]
  /\ UNCHANGED <<vars, accounts, used, rest>>

Given == {c \in Code : flow[c] # NULL}

\* code and state are two parameters of the query; NULL: one that was never
\* given out, or never issued.
Return(r, c, s, p) ==
  /\ Flows(OAuthCallback(r, s, p))
  /\ code' = [code EXCEPT ![r] = c]
  /\ UNCHANGED <<heard, user>>

-----------------------------------------------------------------------------
(* oauthCallback, once it has its flow.                                    *)

\* What ExchangeAndVerify makes of the provider's answers to i's login.
Profile(i, a) ==
  IF ProviderOf[i] = "google" THEN Verifier!Google(a.token, a.info)
                              ELSE Verifier!GitHub(a.token, a.account, a.emails)

\* Mutant of Challenge: the authorization URL carries none.
Challenge_None(s) == NULL

\* Every flow draws a verifier of its own, which goes with the exchange; its
\* challenge went with the authorization URL.  Both are named by the flow's state.
Challenge(s) == s

\* The provider that is asked gave the code out, has not exchanged it, and finds
\* that the verifier of r's flow fits the challenge, if there was one.
Honoured(r) ==
  /\ code[r] \in Given \ used
  /\ ProviderOf[who[code[r]]] = prov[r]
  /\ Challenge(flow[code[r]]) \in {state[r], NULL}

\* The provider honours the code, and its answers are good.
Exchange(r) ==
  /\ pc[r] = "accepted"
  /\ Honoured(r)
  /\ used' = used \cup {code[r]}
  /\ \E a \in Answers[who[code[r]]] :
       /\ Profile(who[code[r]], a) # NULL
       /\ heard' = [heard EXCEPT ![r] = a]
  /\ Goto(r, "user")
  /\ UNCHANGED <<store, state, prov, at, clock, accounts, flow, who, code, user>>

\* Mutant of Known: an account is found by its address first.
Known_ByEmail(p) ==
  LET same == {u \in Table!Made : mail[u] = p.email /\ p.email # NULL}
  IN IF same = {} THEN owner[p.id] ELSE CHOOSE u \in same : TRUE

\* FindByIdentity.
Known(p) == owner[p.id]

FindOrCreate(r) ==
  /\ pc[r] = "user"
  /\ LET p == Profile(who[code[r]], heard[r]) IN
       \/ /\ Known(p) # NULL
          /\ user' = [user EXCEPT ![r] = Known(p)]
          /\ UNCHANGED accounts
       \/ \E u \in User :
            /\ Known(p) = NULL
            /\ Table!Create(p.id, u, p.email)
            /\ source' = [source EXCEPT ![u] = heard[r]]
            /\ user' = [user EXCEPT ![r] = u]
  /\ heard' = [heard EXCEPT ![r] = NULL]
  /\ Goto(r, "session")
  /\ UNCHANGED <<store, state, prov, at, clock, codes, code>>

CreateSession(r) ==
  /\ pc[r] = "session"
  /\ Goto(r, "signedin")
  /\ UNCHANGED <<store, state, prov, at, clock, accounts, codes, rest>>

\* What r kept of the login is gone with it.
Forget(r) ==
  /\ code' = [code EXCEPT ![r] = NULL]
  /\ heard' = [heard EXCEPT ![r] = NULL]
  /\ user' = [user EXCEPT ![r] = NULL]

\* The provider refuses, does not answer or answers with nothing to go by, and
\* may have counted the code as used; or a query fails, as of two first logins
\* that race one may.  The login page is shown again.
Fail(r) ==
  /\ pc[r] \in {"accepted", "user", "session"}
  /\ Over(r) /\ Forget(r)
  /\ used' \in {used, used \cup ({code[r]} \cap Given)}
  /\ UNCHANGED <<store, clock, accounts, flow, who>>

\* The browser has its session.
Leave(r) ==
  /\ pc[r] = "signedin"
  /\ Over(r) /\ Forget(r)
  /\ UNCHANGED <<store, clock, accounts, codes>>

Crash ==
  /\ Flows(Restart)
  /\ code' = [r \in Request |-> NULL]
  /\ heard' = [r \in Request |-> NULL]
  /\ user' = [r \in Request |-> NULL]

LoginNext ==
  \/ Crash
  \/ Flows(Tick) /\ UNCHANGED rest
  \/ \E s \in State, i \in Identity : Authorize(s, i)
  \/ \E r \in Request :
       \/ Exchange(r) \/ FindOrCreate(r) \/ CreateSession(r) \/ Fail(r) \/ Leave(r)
       \/ Flows(Create(r)) /\ UNCHANGED rest
       \/ Flows(Consume(r)) /\ IF pc'[r] = "idle" THEN Forget(r) ELSE UNCHANGED rest
       \/ \E p \in Provider : \/ Flows(StartSocialLogin(r, p)) /\ UNCHANGED rest
                              \/ \E c \in Given \cup {NULL}, s \in Issued \cup {NULL} :
                                   Return(r, c, s, p)

LoginSpec == LoginInit /\ [][LoginNext]_loginVars

-----------------------------------------------------------------------------
(* Properties *)

\* Who is signed in is the owner of the identity that agreed to the very flow
\* the callback used up, at the provider it was opened for and in its lifetime
\* by the handler's clock, whatever codes and states were brought together and
\* whatever other callbacks, agreements and restarts there were.
SignedInAsAuthorizer ==
  \A r \in Request : pc[r] = "signedin" =>
    LET i == who[code[r]] IN
      /\ flow[code[r]] = state[r]
      /\ user[r] # NULL /\ owner[i] = user[r]
      /\ prov[r] = ProviderOf[i] /\ provider[state[r]] = prov[r]
      /\ expires[state[r]] - TTL <= at[r] /\ at[r] <= expires[state[r]]

\* What GitHub said of i's addresses, when it made account u.
Listed(u) == LET list == source[u].emails IN
  IF list.status = "200" /\ list.body \notin {EMPTY, GARBLED} THEN list.body ELSE <<>>

\* Of GitHub's addresses, the public one counts, and those that are verified.
Eligible(u) == {m.email : m \in {n \in Range(Listed(u)) : n.verified}}
              \cup ({source[u].account.body.email} \ {NULL})

Primary(u) == {m.email : m \in {n \in Range(Listed(u)) : n.verified /\ n.primary}}

\* An account's address is what its provider reported when the account was made:
\* with Google whatever was said, verified or not; with GitHub the public address
\* or a verified one, the primary one if that is verified, and none only if there
\* was none to choose.
AddressIsReported ==
  \A i \in Identity : owner[i] # NULL =>
    LET u == owner[i] IN
      IF ProviderOf[i] = "google"
        THEN mail[u] = source[u].info.body.email
        ELSE /\ mail[u] \in Eligible(u) \/ (mail[u] = NULL /\ Eligible(u) = {})
             /\ Primary(u) # {} => mail[u] \in Primary(u)
=============================================================================
