--------------------------- MODULE WebLoginProofs ---------------------------
(***************************************************************************)
(* What the web login guarantees for any number of handlers, flows, codes  *)
(* and people, through callbacks that are repeated or late, and restarts.  *)
(***************************************************************************)
EXTENDS WebLogin, WellFoundedInduction, TLAPS

\* A callback, from the moment it comes.
Bound == {"consume", "accepted", "user", "session", "signedin"}

\* One that has found its flow, which is then used up.
Accepted == Bound \ {"consume"}

\* One that has exchanged its code.
Exchanged == {"user", "session", "signedin"}

\* A flow is found once, and then is gone.
UsedOnce ==
  /\ \A s \in State : hits[s] <= 1 /\ (hits[s] = 1 => s \notin flows)
  /\ \A s \in State : hits[s] = 1 \/ s \in flows => provider[s] # NULL

\* No reading of the clock is one to come, and a login reads it before its
\* flow is in the store.
Readings ==
  /\ \A r \in Request : at[r] <= clock
  /\ \A r \in Request : pc[r] = "create" => prov[r] # NULL
  /\ \A s \in State : provider[s] # NULL => expires[s] <= clock + TTL

\* A code is given out at the provider of an open flow, for who agreed.
CodesInv ==
  /\ flow \in [Code -> State \cup {NULL}]
  /\ who \in [Code -> Identity \cup {NULL}]
  /\ \A c \in Code : flow[c] # NULL =>
       who[c] \in Identity /\ provider[flow[c]] = ProviderOf[who[c]]

\* The state a callback brings was issued before, if ever.
BoundInv ==
  /\ code \in [Request -> Code \cup {NULL}]
  /\ \A r \in Request : pc[r] \in Bound /\ state[r] # NULL =>
       provider[state[r]] # NULL /\ expires[state[r]] <= at[r] + TTL

\* Whoever gets through has the flow's provider and came in its lifetime.
AcceptedInv ==
  \A r \in Request : pc[r] \in Accepted =>
    /\ state[r] \in State
    /\ provider[state[r]] = prov[r] /\ at[r] <= expires[state[r]]

\* A code is honoured only for the flow it was asked for in.
HonouredInv ==
  \A r \in Request : pc[r] \in Exchanged =>
    code[r] \in Code /\ flow[code[r]] = state[r]

\* What the provider said names who agreed, and so is the account found.
SignedInv ==
  /\ owner \in [Identity -> User \cup {NULL}]
  /\ user \in [Request -> User \cup {NULL}]
  /\ DOMAIN heard = Request
  /\ \A r \in Request :
       /\ pc[r] = "user" =>
            /\ heard[r] \in Answers[who[code[r]]]
            /\ Profile(who[code[r]], heard[r]) # NULL
       /\ pc[r] \in {"session", "signedin"} =>
            user[r] # NULL /\ owner[who[code[r]]] = user[r]

Inductive == /\ TypeOK /\ UsedOnce /\ Readings /\ CodesInv /\ BoundInv
             /\ AcceptedInv /\ HonouredInv /\ SignedInv

-----------------------------------------------------------------------------
(* What is made of a provider's answer *)

\* A profile is of the identity that agreed: nothing else the provider said
\* gets into its id.
LEMMA ProfileOfIdentity ==
  ASSUME NEW i \in Identity, NEW a \in Answers[i], Profile(i, a) # NULL
  PROVE  Profile(i, a).id = i
<1>1. CASE ProviderOf[i] = "google"
  <2> DEFINE c == Verifier!Decoded(a.info, {"200"}, [sub |-> NULL, aud |-> NULL])
  <2>1. Profile(i, a) = Verifier!Google(a.token, a.info)
        BY <1>1 DEF Profile
  <2>2. c # NULL /\ c.sub # NULL /\ Profile(i, a).id = c.sub
        BY <2>1 DEF Verifier!Google
  <2>3. \/ c \in {NULL, [sub |-> NULL, aud |-> NULL]}
        \/ c = a.info.body /\ a.info.body \notin {EMPTY, GARBLED}
        BY DEF Verifier!Decoded
  <2> QED
      BY <1>1, <2>2, <2>3, AnswersAssumption
<1>2. CASE ProviderOf[i] # "google"
  <2> DEFINE c == Verifier!Decoded(a.account, {"200"}, [id |-> NULL])
  <2>1. Profile(i, a) = Verifier!GitHub(a.token, a.account, a.emails)
        BY <1>2 DEF Profile
  <2>2. c # NULL /\ c.id # NULL /\ Profile(i, a).id = c.id
        BY <2>1 DEF Verifier!GitHub
  <2>3. \/ c \in {NULL, [id |-> NULL]}
        \/ c = a.account.body /\ a.account.body \notin {EMPTY, GARBLED}
        BY DEF Verifier!Decoded
  <2> QED
      BY <1>2, <2>2, <2>3, AnswersAssumption
<1> QED
    BY <1>1, <1>2

\* There is a first among places, and it is one of them.
LEMMA FirstIsAPlace ==
  ASSUME NEW places \in SUBSET Nat, places # {}
  PROVE  Verifier!First(places) \in places
<1> DEFINE R == {ss \in Nat \X Nat : ss[1] < ss[2]}
<1>0. IsWellFoundedOn(R, Nat)
      BY NatLessThanWellFounded DEF OpToRel
<1> HIDE DEF R
<1>1. PICK i \in places : \A j \in places : <<j, i>> \notin R
      BY <1>0, WFMin
<1>2. ASSUME NEW j \in places PROVE i <= j
  <2>1. i \in Nat /\ j \in Nat /\ <<j, i>> \in Nat \X Nat /\ <<j, i>> \notin R
        BY <1>1
  <2>2. ~(<<j, i>>[1] < <<j, i>>[2])
        BY <2>1 DEF R
  <2> QED
      BY <2>1, <2>2
<1> QED
    BY <1>2 DEF Verifier!First

\* A list of addresses, as GitHub sends it.
Lists == Seq([email : Email \cup {NULL}, primary : BOOLEAN, verified : BOOLEAN])

\* The address that is picked is the public one or a verified one, is the primary
\* one if that is verified, and is missing only if there is none to choose.
LEMMA PickedIsEligible ==
  ASSUME NEW public, NEW list \in Lists
  PROVE  LET e == Verifier!Pick(public, list).email
             sure == {m \in Range(list) : m.verified}
             main == {m \in Range(list) : m.verified /\ m.primary}
         IN /\ \/ e \in {m.email : m \in sure}
               \/ e = public /\ e # NULL
               \/ e = NULL /\ public = NULL /\ sure = {}
            /\ main # {} => e \in {m.email : m \in main}
<1> DEFINE e == Verifier!Pick(public, list).email
           V == Verifier!Verified(list)
           M == Verifier!Primary(list) \cap V
<1>1. /\ Range(list) = {list[i] : i \in 1..Len(list)} /\ Len(list) \in Nat
      BY DEF Range, Lists
<1>2. V \in SUBSET Nat /\ M \in SUBSET Nat /\ M \subseteq V
      BY <1>1 DEF Verifier!Verified, Verifier!Primary
<1>3. \A i \in V : list[i] \in Range(list) /\ list[i].verified
      BY <1>1 DEF Verifier!Verified
<1>4. \A i \in M : list[i].primary
      BY DEF Verifier!Primary
<1>5. (\E m \in Range(list) : m.verified) => V # {}
      BY <1>1 DEF Verifier!Verified
<1>6. (\E m \in Range(list) : m.verified /\ m.primary) => M # {}
      BY <1>1 DEF Verifier!Verified, Verifier!Primary
<1>7. CASE M # {}
  <2>1. e = list[Verifier!First(M)].email
        BY <1>7 DEF Verifier!Pick, Verifier!Address
  <2>2. Verifier!First(M) \in M
        BY <1>2, <1>7, FirstIsAPlace
  <2>3. \E m \in Range(list) : m.verified /\ m.primary /\ e = m.email
        BY <1>2, <1>3, <1>4, <2>1, <2>2
  <2> QED
      BY <2>3
<1>8. CASE M = {} /\ (public # NULL \/ V = {})
  <2>1. e = public
        BY <1>8 DEF Verifier!Pick, Verifier!Address
  <2> QED
      BY <1>5, <1>6, <1>8, <2>1
<1>9. CASE M = {} /\ ~(public # NULL \/ V = {})
  <2>1. e = list[Verifier!First(V)].email
        BY <1>9 DEF Verifier!Pick, Verifier!Address
  <2>2. Verifier!First(V) \in V
        BY <1>2, <1>9, FirstIsAPlace
  <2>3. \E m \in Range(list) : m.verified /\ e = m.email
        BY <1>3, <2>1, <2>2
  <2> QED
      BY <1>6, <1>9, <2>3
<1> QED
    BY <1>7, <1>8, <1>9

\* What GitHub's answer says of addresses: see Listed.
ListOf(a) ==
  IF a.emails.status = "200" /\ a.emails.body \notin {EMPTY, GARBLED}
    THEN a.emails.body ELSE <<>>

\* The address of a profile is Google's, or is picked from what GitHub sent.
LEMMA AddressOfProfile ==
  ASSUME NEW i \in Identity, NEW a \in Answers[i], Profile(i, a) # NULL
  PROVE  /\ ProviderOf[i] = "google" => Profile(i, a).email = a.info.body.email
         /\ ProviderOf[i] # "google" =>
              /\ ListOf(a) \in Lists
              /\ Profile(i, a).email = Verifier!Pick(a.account.body.email, ListOf(a)).email
<1>1. CASE ProviderOf[i] = "google"
  <2> DEFINE c == Verifier!Decoded(a.info, {"200"}, [sub |-> NULL, aud |-> NULL])
  <2>1. Profile(i, a) = Verifier!Google(a.token, a.info)
        BY <1>1 DEF Profile
  <2>2. c # NULL /\ c.sub # NULL /\ Profile(i, a).email = c.email
        BY <2>1 DEF Verifier!Google
  <2>3. c \in {NULL, [sub |-> NULL, aud |-> NULL]} \/ c = a.info.body
        BY DEF Verifier!Decoded
  <2> QED
      BY <1>1, <2>2, <2>3
<1>2. CASE ProviderOf[i] # "google"
  <2> DEFINE c == Verifier!Decoded(a.account, {"200"}, [id |-> NULL])
             l == Verifier!Decoded(a.emails, {"200"}, <<>>)
             list == IF l = NULL THEN <<>> ELSE l
  <2>1. Profile(i, a) = Verifier!GitHub(a.token, a.account, a.emails)
        BY <1>2 DEF Profile
  <2>2. c # NULL /\ c.id # NULL /\ Profile(i, a).email = Verifier!Pick(c.email, list).email
        BY <2>1 DEF Verifier!GitHub
  <2>3. c \in {NULL, [id |-> NULL]} \/ c = a.account.body
        BY DEF Verifier!Decoded
  <2>4. c = a.account.body
        BY <2>2, <2>3
  <2>5. /\ a.emails.body # NULL
        /\ a.emails.body \in {EMPTY, GARBLED} \cup Lists
        BY <1>2, ListsAssumption DEF Lists
  <2>6. list = ListOf(a)
    <3>1. CASE a.emails.status = "200" /\ a.emails.body \notin {EMPTY, GARBLED}
          BY <2>5, <3>1 DEF Verifier!Decoded, ListOf
    <3>2. CASE ~(a.emails.status = "200" /\ a.emails.body \notin {EMPTY, GARBLED})
      <4>1. l \in {NULL, <<>>}
            BY <3>2 DEF Verifier!Decoded
      <4> QED
          BY <3>2, <4>1 DEF ListOf
    <3> QED
        BY <3>1, <3>2
  <2>7. ListOf(a) \in Lists
        BY <2>5 DEF ListOf, Lists
  <2> QED
      BY <1>2, <2>2, <2>4, <2>6, <2>7
<1> QED
    BY <1>1, <1>2

-----------------------------------------------------------------------------
(* The steps. *)

\* Steps of one handler that leave the store alone.
Local(r) == \/ Exchange(r) \/ FindOrCreate(r) \/ CreateSession(r) \/ Fail(r) \/ Leave(r)
            \/ \E p \in Provider : \/ Flows(StartSocialLogin(r, p)) /\ UNCHANGED rest
                                   \/ \E c \in Given \cup {NULL}, s \in Issued \cup {NULL} :
                                        Return(r, c, s, p)

\* The store's two calls.
Call(r) == \/ Flows(Create(r)) /\ UNCHANGED rest
           \/ Flows(Consume(r)) /\ IF pc'[r] = "idle" THEN Forget(r) ELSE UNCHANGED rest

\* A step is of one of six kinds.
LEMMA StepCases ==
  ASSUME [LoginNext]_loginVars
  PROVE  \/ UNCHANGED loginVars
         \/ Crash
         \/ Flows(Tick) /\ UNCHANGED rest
         \/ \E s \in State, i \in Identity : Authorize(s, i)
         \/ \E r \in Request : Local(r) \/ Call(r)
BY DEF LoginNext, Local, Call, Flows

\* A step of a handler leaves the store alone unless it is one of its calls.
LEMMA LocalLeavesStore == \A r \in Request : Local(r) => UNCHANGED <<store, clock>>
BY DEF Local, Exchange, FindOrCreate, CreateSession, Fail, Leave,
       StartSocialLogin, Return, OAuthCallback, Begin, Flows, store

\* A flow keeps its provider and its expiry, a code its flow and its owner, an
\* identity its account; and no clock goes back.
LEMMA HistoryStep ==
  ASSUME Inductive, [LoginNext]_loginVars
  PROVE  /\ clock <= clock'
         /\ \A s \in State : provider[s] # NULL =>
              provider'[s] = provider[s] /\ expires'[s] = expires[s]
         /\ \A c \in Code : flow[c] # NULL => flow'[c] = flow[c] /\ who'[c] = who[c]
         /\ \A i \in Identity : owner[i] # NULL => owner'[i] = owner[i]
<1> USE DEF Inductive, TypeOK, CodesInv, SignedInv
<1>1. clock <= clock'
  <2>1. CASE Flows(Tick)
        BY <2>1 DEF Flows, Tick
  <2>2. UNCHANGED clock \/ Flows(Tick)
        BY StepCases, LocalLeavesStore
           DEF loginVars, vars, Crash, Restart, Authorize, Call, Create, Consume, Flows
  <2> QED
      BY <2>1, <2>2
<1>2. ASSUME NEW s \in State, provider[s] # NULL
      PROVE  provider'[s] = provider[s] /\ expires'[s] = expires[s]
  <2>1. ASSUME NEW r \in Request, Create(r)
        PROVE  provider'[s] = provider[s] /\ expires'[s] = expires[s]
        BY <1>2, <2>1 DEF Create, Issued
  <2>2. UNCHANGED <<provider, expires>> \/ \E r \in Request : Create(r)
        BY StepCases, LocalLeavesStore
           DEF loginVars, vars, store, Crash, Restart, Tick, Authorize, Call, Consume,
               Flows
  <2> QED
      BY <2>1, <2>2
<1>3. ASSUME NEW c \in Code, flow[c] # NULL PROVE flow'[c] = flow[c] /\ who'[c] = who[c]
  <2>1. ASSUME NEW s \in State, NEW i \in Identity, Authorize(s, i)
        PROVE  flow'[c] = flow[c] /\ who'[c] = who[c]
        BY <1>3, <2>1 DEF Authorize
  <2>2. ASSUME NEW r \in Request, Local(r) PROVE UNCHANGED <<flow, who>>
        BY <2>2 DEF Local, Exchange, FindOrCreate, CreateSession, Fail, Leave, Return,
                    Flows, codes
  <2> QED
      BY <2>1, <2>2, StepCases DEF loginVars, codes, Crash, Call, Flows
<1>4. ASSUME NEW i \in Identity, owner[i] # NULL PROVE owner'[i] = owner[i]
  <2>1. ASSUME NEW r \in Request, FindOrCreate(r) PROVE owner'[i] = owner[i]
        BY <1>4, <2>1 DEF FindOrCreate, Known, Table!Create, accounts
  <2>2. ASSUME NEW r \in Request, Local(r), ~FindOrCreate(r) PROVE UNCHANGED owner
        BY <2>2 DEF Local, Exchange, CreateSession, Fail, Leave, Return, Flows, accounts
  <2> QED
      BY <2>1, <2>2, StepCases DEF loginVars, accounts, Crash, Authorize, Call, Flows
<1> QED
    BY <1>1, <1>2, <1>3, <1>4

\* Types are kept.
LEMMA TypeStep == Inductive /\ [LoginNext]_loginVars => TypeOK'
<1> SUFFICES ASSUME Inductive, [LoginNext]_loginVars PROVE TypeOK'
    OBVIOUS
<1>0. TypeOK /\ CodesInv
      BY DEF Inductive
<1> USE <1>0, NumberAssumption DEF TypeOK, store
<1>1. CASE UNCHANGED loginVars
      BY <1>1 DEF loginVars, vars, handler
<1>2. CASE Crash
      BY <1>2 DEF Crash, Flows, Restart
<1>3. CASE Flows(Tick)
      BY <1>3 DEF Flows, Tick, handler
<1>4. ASSUME NEW s \in State, NEW i \in Identity, Authorize(s, i) PROVE TypeOK'
      BY <1>4 DEF Authorize, vars, handler
<1>5. ASSUME NEW r \in Request, Exchange(r) \/ FindOrCreate(r) \/ CreateSession(r)
      PROVE  TypeOK'
      BY <1>5 DEF Exchange, FindOrCreate, CreateSession, Goto
<1>6. ASSUME NEW r \in Request, Fail(r) \/ Leave(r) PROVE TypeOK'
      BY <1>6 DEF Fail, Leave, Over
<1>7. ASSUME NEW r \in Request, NEW where \in {"create", "consume"},
             NEW s \in State \cup {NULL}, NEW p \in Provider \cup {NULL},
             Begin(r, where, s, p)
      PROVE  TypeOK'
      BY <1>7 DEF Begin
<1>8. ASSUME NEW r \in Request, NEW p \in Provider, NEW c, NEW s \in Issued \cup {NULL},
             Return(r, c, s, p)
      PROVE  TypeOK'
      BY <1>7, <1>8 DEF Return, OAuthCallback, Flows, Issued
<1>9. ASSUME NEW r \in Request, NEW p \in Provider, StartSocialLogin(r, p) PROVE TypeOK'
      BY <1>7, <1>9 DEF StartSocialLogin
<1>10. ASSUME NEW r \in Request, Create(r) PROVE TypeOK'
  <2>1. at[r] + TTL \in Nat /\ Kept(at[r]) \subseteq State
        BY DEF Kept
  <2> QED
      BY <1>10, <2>1 DEF Create, Over
<1>11. ASSUME NEW r \in Request, Consume(r) PROVE TypeOK'
  <2>1. Kept(at[r]) \subseteq State
        BY DEF Kept
  <2> QED
      BY <1>11, <2>1 DEF Consume, Miss, Hit, Over, Accept
<1> QED
    BY <1>1, <1>2, <1>3, <1>4, <1>5, <1>6, <1>8, <1>9, <1>10, <1>11, StepCases
       DEF Local, Call, Flows

\* The call that finds a flow deletes it, and no state is drawn twice.
LEMMA UsedOnceStep == Inductive /\ [LoginNext]_loginVars => UsedOnce'
<1> SUFFICES ASSUME Inductive, [LoginNext]_loginVars PROVE UsedOnce'
    OBVIOUS
<1> USE NullAssumption DEF Inductive, TypeOK, UsedOnce
<1>1. CASE UNCHANGED store
      BY <1>1 DEF store
<1>2. CASE Crash
      BY <1>2 DEF Crash, Flows, Restart
<1>3. ASSUME NEW r \in Request, Create(r) PROVE UsedOnce'
      BY <1>3 DEF Create, Issued, Kept, Readings
<1>4. ASSUME NEW r \in Request, Consume(r) PROVE UsedOnce'
  <2>1. Kept(at[r]) \subseteq flows
        BY DEF Kept
  <2>2. CASE Miss(r)
        BY <1>4, <2>1, <2>2 DEF Consume, Miss
  <2>3. CASE Hit(r)
        BY <1>4, <2>1, <2>3 DEF Consume, Hit
  <2> QED
      BY <1>4, <2>2, <2>3 DEF Consume
<1> QED
    BY <1>1, <1>2, <1>3, <1>4, StepCases, LocalLeavesStore
       DEF loginVars, vars, Tick, Authorize, Call, Flows

\* Handlers read the clock before they wait for the store.
LEMMA ReadingsStep == Inductive /\ [LoginNext]_loginVars => Readings'
<1> SUFFICES ASSUME Inductive, [LoginNext]_loginVars PROVE Readings'
    OBVIOUS
<1> USE NullAssumption, NumberAssumption DEF Inductive, TypeOK, Readings
<1>1. CASE UNCHANGED vars
      BY <1>1 DEF vars, store, handler
<1>2. CASE Crash
      BY <1>2 DEF Crash, Flows, Restart
<1>3. CASE Flows(Tick)
      BY <1>3 DEF Flows, Tick, store, handler
<1>4. ASSUME NEW r \in Request, Exchange(r) \/ FindOrCreate(r) \/ CreateSession(r)
      PROVE  Readings'
      BY <1>4 DEF Exchange, FindOrCreate, CreateSession, Goto, store
<1>5. ASSUME NEW r \in Request, Fail(r) \/ Leave(r) PROVE Readings'
      BY <1>5 DEF Fail, Leave, Over, store
<1>6. ASSUME NEW r \in Request, NEW where, NEW s, NEW p,
             Begin(r, where, s, p), where = "create" => p # NULL
      PROVE  Readings'
      BY <1>6 DEF Begin, store
<1>7. ASSUME NEW r \in Request, NEW p \in Provider, StartSocialLogin(r, p) PROVE Readings'
      BY <1>6, <1>7 DEF StartSocialLogin
<1>8. ASSUME NEW r \in Request, NEW p, NEW c, NEW s, Return(r, c, s, p) PROVE Readings'
      BY <1>6, <1>8 DEF Return, OAuthCallback, Flows
<1>9. ASSUME NEW r \in Request, Create(r) PROVE Readings'
      BY <1>9 DEF Create, Issued, Over
<1>10. ASSUME NEW r \in Request, Consume(r) PROVE Readings'
       BY <1>10 DEF Consume, Miss, Hit, Over, Accept
<1> QED
    BY <1>1, <1>2, <1>3, <1>4, <1>5, <1>7, <1>8, <1>9, <1>10, StepCases
       DEF Local, Call, Flows, loginVars, Authorize

\* The provider gives codes out for its own flows only.
LEMMA CodesStep == Inductive /\ [LoginNext]_loginVars => CodesInv'
<1> SUFFICES ASSUME Inductive, [LoginNext]_loginVars PROVE CodesInv'
    OBVIOUS
<1> USE NullAssumption DEF Inductive, TypeOK, CodesInv
<1>1. CASE UNCHANGED <<flow, who>>
  <2>1. \A s \in State : provider[s] # NULL => provider'[s] = provider[s]
        BY HistoryStep
  <2>2. \A c \in Code : flow[c] # NULL => provider[flow[c]] # NULL
        BY IdentityAssumption
  <2> QED
      BY <1>1, <2>1, <2>2
<1>2. ASSUME NEW s \in State, NEW i \in Identity, Authorize(s, i) PROVE CodesInv'
      BY <1>2 DEF Authorize, vars, store
<1> QED
    BY <1>1, <1>2, StepCases
       DEF loginVars, codes, Crash, Flows, Call, Local, Exchange, FindOrCreate,
           CreateSession, Fail, Leave, Return

\* The flow of a code that was given out is open, or was.
LEMMA FlowIsIssued ==
  ASSUME Inductive, NEW c \in Code, flow[c] # NULL
  PROVE  /\ flow[c] \in State /\ provider[flow[c]] # NULL /\ who[c] \in Identity
         /\ expires[flow[c]] \in Nat /\ expires[flow[c]] <= clock + TTL
BY IdentityAssumption, NullAssumption DEF Inductive, TypeOK, CodesInv, Readings

\* What a handler keeps for itself.
Same(q) == /\ pc'[q] = pc[q] /\ state'[q] = state[q] /\ prov'[q] = prov[q]
           /\ at'[q] = at[q] /\ code'[q] = code[q] /\ heard'[q] = heard[q]
           /\ user'[q] = user[q]

\* A callback that finds its flow.
Found(q) == /\ pc[q] = "consume" /\ Hit(q) /\ ~Mismatch(q)
            /\ UNCHANGED <<provider, expires, rest>>

\* To a handler a step is its own, or does nothing.
LEMMA OwnStep ==
  ASSUME Inductive, [LoginNext]_loginVars, NEW q \in Request
  PROVE  \/ Same(q)
         \/ pc'[q] \notin Bound
         \/ Exchange(q) \/ FindOrCreate(q) \/ CreateSession(q) \/ Found(q)
         \/ \E p \in Provider, c \in Given \cup {NULL}, s \in Issued \cup {NULL} :
              Return(q, c, s, p)
<1> USE DEF Inductive, TypeOK, BoundInv, SignedInv, Bound
<1>1. ASSUME NEW r \in Request, r # q, Local(r) PROVE Same(q)
  <2>1. CASE Exchange(r) \/ FindOrCreate(r) \/ CreateSession(r)
        BY <1>1, <2>1 DEF Exchange, FindOrCreate, CreateSession, Goto, rest, Same
  <2>2. CASE Fail(r) \/ Leave(r)
        BY <1>1, <2>2 DEF Fail, Leave, Over, Forget, Same
  <2>3. ASSUME NEW p \in Provider, Flows(StartSocialLogin(r, p)), UNCHANGED rest
        PROVE  Same(q)
        BY <1>1, <2>3 DEF StartSocialLogin, Begin, Flows, rest, Same
  <2>4. ASSUME NEW p, NEW c, NEW s, Return(r, c, s, p) PROVE Same(q)
        BY <1>1, <2>4 DEF Return, OAuthCallback, Begin, Flows, Same
  <2> QED
      BY <1>1, <2>1, <2>2, <2>3, <2>4 DEF Local
<1>2. ASSUME NEW r \in Request, r # q, Call(r) PROVE Same(q)
  <2>1. CASE Create(r) /\ UNCHANGED rest
        BY <1>2, <2>1 DEF Create, Over, rest, Same
  <2>2. CASE Consume(r) /\ (Forget(r) \/ UNCHANGED rest)
    <3>1. Over(r) \/ Accept(r)
          BY <2>2 DEF Consume, Miss, Hit
    <3> QED
        BY <1>2, <2>2, <3>1 DEF Over, Accept, Forget, rest, Same
  <2> QED
      BY <1>2, <2>1, <2>2 DEF Call, Flows
<1>3. ASSUME Local(q)
      PROVE  \/ pc'[q] \notin Bound
             \/ Exchange(q) \/ FindOrCreate(q) \/ CreateSession(q)
             \/ \E p \in Provider, c \in Given \cup {NULL}, s \in Issued \cup {NULL} :
                  Return(q, c, s, p)
  <2>1. CASE Fail(q) \/ Leave(q)
        BY <2>1 DEF Fail, Leave, Over
  <2>2. ASSUME NEW p \in Provider, Flows(StartSocialLogin(q, p)) PROVE pc'[q] = "create"
        BY <2>2 DEF StartSocialLogin, Begin, Flows
  <2> QED
      BY <1>3, <2>1, <2>2 DEF Local
<1>4. ASSUME Call(q) PROVE pc'[q] \notin Bound \/ Found(q)
  <2>1. CASE Create(q)
        BY <2>1 DEF Create, Over
  <2>2. CASE Consume(q) /\ Over(q)
        BY <2>2 DEF Over
  <2>3. CASE Flows(Consume(q)) /\ Hit(q) /\ ~Mismatch(q)
    <3>1. pc'[q] = "accepted"
          BY <2>3 DEF Hit, Accept
    <3> QED
        BY <1>4, <2>3, <3>1 DEF Call, Flows, Create, Consume, Found
  <2> QED
      BY <1>4, <2>1, <2>2, <2>3 DEF Call, Flows, Consume, Miss, Hit
<1>5. ASSUME Crash PROVE pc'[q] \notin Bound
      BY <1>5 DEF Crash, Flows, Restart
<1>6. ASSUME UNCHANGED <<handler, rest>> PROVE Same(q)
      BY <1>6 DEF handler, rest, Same
<1> QED
    BY <1>1, <1>2, <1>3, <1>4, <1>5, <1>6, StepCases
       DEF loginVars, vars, Flows, Tick, Authorize

\* The record of a callback's flow stays as it was.
LEMMA RecordStays ==
  ASSUME Inductive, [LoginNext]_loginVars, NEW q \in Request,
         pc[q] \in Bound, state[q] # NULL
  PROVE  /\ state[q] \in State /\ provider[state[q]] # NULL
         /\ provider'[state[q]] = provider[state[q]]
         /\ expires'[state[q]] = expires[state[q]]
<1>1. state[q] \in State /\ provider[state[q]] # NULL
      BY DEF Inductive, TypeOK, BoundInv
<1> QED
    BY <1>1, HistoryStep

\* A callback's state stays as it came, and so does the flow's record.
LEMMA BoundStep == Inductive /\ [LoginNext]_loginVars => BoundInv'
<1> DEFINE Good(q) == pc[q] \in Bound /\ state[q] # NULL =>
             provider[state[q]] # NULL /\ expires[state[q]] <= at[q] + TTL
<1> USE NullAssumption, NumberAssumption DEF Inductive, TypeOK, BoundInv
<1>1. ASSUME Inductive, [LoginNext]_loginVars PROVE code' \in [Request -> Code \cup {NULL}]
  <2>1. ASSUME NEW r \in Request, Local(r) PROVE code' \in [Request -> Code \cup {NULL}]
        BY <1>1, <2>1 DEF Local, Exchange, FindOrCreate, CreateSession, Fail, Leave,
                          Return, Forget, Given, rest
  <2>2. ASSUME NEW r \in Request, Call(r) PROVE code' \in [Request -> Code \cup {NULL}]
        BY <1>1, <2>2 DEF Call, Forget, rest
  <2> QED
      BY <1>1, <2>1, <2>2, StepCases DEF loginVars, rest, Crash, Authorize
<1> SUFFICES ASSUME Inductive, [LoginNext]_loginVars, NEW q \in Request PROVE Good(q)'
    BY <1>1
<1>2. ASSUME state'[q] = state[q], at'[q] = at[q], pc[q] \in Bound PROVE Good(q)'
      BY <1>2, RecordStays
<1>3. CASE Same(q)
      BY <1>2, <1>3 DEF Same
<1>4. CASE Exchange(q) \/ FindOrCreate(q) \/ CreateSession(q) \/ Found(q)
      BY <1>2, <1>4
         DEF Exchange, FindOrCreate, CreateSession, Found, Hit, Accept, Bound
<1>5. ASSUME NEW p \in Provider, NEW c, NEW s \in Issued \cup {NULL}, Return(q, c, s, p)
      PROVE  Good(q)'
  <2>1. state'[q] = s /\ at'[q] = clock /\ UNCHANGED <<provider, expires>>
        BY <1>5 DEF Return, Flows, OAuthCallback, Begin, store
  <2> QED
      BY <1>5, <2>1 DEF Issued, Readings
<1> QED
    BY <1>3, <1>4, <1>5, OwnStep

\* Being accepted is the flow's doing, which was there and of this provider.
LEMMA AcceptedStep == Inductive /\ [LoginNext]_loginVars => AcceptedInv'
<1> DEFINE Good(q) == pc[q] \in Accepted =>
             /\ state[q] \in State
             /\ provider[state[q]] = prov[q] /\ at[q] <= expires[state[q]]
<1> SUFFICES ASSUME Inductive, [LoginNext]_loginVars, NEW q \in Request PROVE Good(q)'
    BY DEF AcceptedInv
<1> USE NullAssumption DEF Inductive, AcceptedInv
<1>1. ASSUME state'[q] = state[q], prov'[q] = prov[q], at'[q] = at[q],
             pc[q] \in Accepted
      PROVE  Good(q)'
      BY <1>1, RecordStays DEF Accepted
<1>2. CASE Same(q)
      BY <1>1, <1>2 DEF Same
<1>3. CASE Exchange(q) \/ FindOrCreate(q) \/ CreateSession(q)
      BY <1>1, <1>3 DEF Exchange, FindOrCreate, CreateSession, Accepted, Bound
<1>4. CASE Found(q)
  <2>1. /\ state[q] \in State /\ provider[state[q]] = prov[q]
        /\ ~(at[q] > expires[state[q]])
        BY <1>4 DEF Found, Hit, Kept, Mismatch, Expired, TypeOK
  <2>2. at[q] <= expires[state[q]]
        BY <2>1 DEF TypeOK
  <2> QED
      BY <1>4, <2>1, <2>2 DEF Found, Hit, Accept
<1>5. ASSUME NEW p \in Provider, NEW c, NEW s, Return(q, c, s, p) PROVE Good(q)'
      BY <1>5 DEF Return, Flows, OAuthCallback, Begin, TypeOK, Accepted
<1>6. CASE pc'[q] \notin Bound
      BY <1>6 DEF Accepted
<1> QED
    BY <1>2, <1>3, <1>4, <1>5, <1>6, OwnStep

\* The provider asks for the verifier of the flow the code was given out for.
LEMMA HonouredStep == Inductive /\ [LoginNext]_loginVars => HonouredInv'
<1> DEFINE Good(q) == pc[q] \in Exchanged => code[q] \in Code /\ flow[code[q]] = state[q]
<1> SUFFICES ASSUME Inductive, [LoginNext]_loginVars, NEW q \in Request PROVE Good(q)'
    BY DEF HonouredInv
<1> USE NullAssumption DEF Inductive, HonouredInv, Exchanged
<1>1. ASSUME state'[q] = state[q], code'[q] = code[q], pc[q] \in Exchanged PROVE Good(q)'
      BY <1>1, HistoryStep DEF AcceptedInv, Accepted, Bound
<1>2. CASE Same(q)
      BY <1>1, <1>2 DEF Same
<1>3. CASE FindOrCreate(q) \/ CreateSession(q)
      BY <1>1, <1>3 DEF FindOrCreate, CreateSession, rest
<1>4. CASE Exchange(q)
  <2>1. code[q] \in Code /\ flow[code[q]] # NULL /\ flow[code[q]] \in {state[q], NULL}
        BY <1>4 DEF Exchange, Honoured, Challenge, Given
  <2> QED
      BY <1>4, <2>1 DEF Exchange
<1>5. ASSUME NEW p \in Provider, NEW c, NEW s, Return(q, c, s, p) PROVE Good(q)'
      BY <1>5 DEF Return, Flows, OAuthCallback, Begin, TypeOK
<1>6. CASE Found(q)
      BY <1>6 DEF Found, Hit, Accept, TypeOK
<1>7. CASE pc'[q] \notin Bound
      BY <1>7 DEF Bound
<1> QED
    BY <1>2, <1>3, <1>4, <1>5, <1>6, <1>7, OwnStep

\* Who agreed to a handler's flow is somebody, and stays who it was.
LEMMA AuthorizerStays ==
  ASSUME Inductive, NEW q \in Request, pc[q] \in Exchanged
  PROVE  /\ code[q] \in Code /\ flow[code[q]] # NULL /\ who[code[q]] \in Identity
         /\ [LoginNext]_loginVars => who'[code[q]] = who[code[q]]
<1>1. code[q] \in Code /\ flow[code[q]] # NULL
      BY NullAssumption
         DEF Inductive, HonouredInv, AcceptedInv, Accepted, Bound, Exchanged
<1> QED
    BY <1>1, FlowIsIssued, HistoryStep

\* FindOrCreate, once it is clear whose profile it is.
LEMMA FindOrCreateCases ==
  ASSUME Inductive, NEW r \in Request, FindOrCreate(r)
  PROVE  LET i == who[code[r]] IN
         /\ i \in Identity /\ UNCHANGED <<flow, who, code>>
         /\ heard' = [heard EXCEPT ![r] = NULL] /\ pc' = [pc EXCEPT ![r] = "session"]
         /\ \/ /\ user' = [user EXCEPT ![r] = owner[i]] /\ owner[i] # NULL
               /\ UNCHANGED owner
            \/ \E u \in User : /\ user' = [user EXCEPT ![r] = u]
                               /\ owner' = [owner EXCEPT ![i] = u]
<1>1. who[code[r]] \in Identity
      BY AuthorizerStays DEF FindOrCreate, Exchanged
<1>2. Profile(who[code[r]], heard[r]).id = who[code[r]]
      BY <1>1, ProfileOfIdentity DEF FindOrCreate, Inductive, SignedInv
<1> QED
    BY <1>1, <1>2 DEF FindOrCreate, Known, Table!Create, Goto, accounts, codes

\* An account is found or made for whoever the provider named, and stays theirs.
LEMMA SignedStep == Inductive /\ [LoginNext]_loginVars => SignedInv'
<1> DEFINE Good(q) ==
      /\ pc[q] = "user" => /\ heard[q] \in Answers[who[code[q]]]
                           /\ Profile(who[code[q]], heard[q]) # NULL
      /\ pc[q] \in {"session", "signedin"} =>
           user[q] # NULL /\ owner[who[code[q]]] = user[q]
<1> USE UserAssumption DEF Inductive, SignedInv
<1>1. ASSUME Inductive, [LoginNext]_loginVars
      PROVE  /\ owner' \in [Identity -> User \cup {NULL}]
             /\ user' \in [Request -> User \cup {NULL}]
             /\ DOMAIN heard' = Request
  <2>1. ASSUME NEW r \in Request, FindOrCreate(r)
        PROVE  /\ owner' \in [Identity -> User \cup {NULL}]
               /\ user' \in [Request -> User \cup {NULL}]
               /\ DOMAIN heard' = Request
        BY <1>1, <2>1, FindOrCreateCases
  <2>2. ASSUME NEW r \in Request, Local(r), ~FindOrCreate(r)
        PROVE  /\ UNCHANGED owner /\ user' \in [Request -> User \cup {NULL}]
               /\ DOMAIN heard' = Request
        BY <1>1, <2>2 DEF Local, Exchange, CreateSession, Fail, Leave, Return, Flows,
                          Forget, accounts, rest
  <2>3. ASSUME NEW r \in Request, Call(r)
        PROVE  /\ UNCHANGED owner /\ user' \in [Request -> User \cup {NULL}]
               /\ DOMAIN heard' = Request
        BY <1>1, <2>3 DEF Call, Flows, Forget, accounts, rest
  <2> QED
      BY <1>1, <2>1, <2>2, <2>3, StepCases
         DEF loginVars, accounts, rest, Crash, Authorize, Flows
<1> SUFFICES ASSUME Inductive, [LoginNext]_loginVars, NEW q \in Request PROVE Good(q)'
    BY <1>1
<1>2. ASSUME pc'[q] = pc[q] \/ (pc[q] = "session" /\ pc'[q] = "signedin"),
             code'[q] = code[q], heard'[q] = heard[q], user'[q] = user[q]
      PROVE  Good(q)'
  <2>1. CASE pc[q] \notin Exchanged
        BY <1>2, <2>1 DEF Exchanged
  <2>2. CASE pc[q] \in Exchanged
    <3>1. /\ who[code[q]] \in Identity /\ who'[code[q]] = who[code[q]]
          /\ owner[who[code[q]]] # NULL => owner'[who[code[q]]] = owner[who[code[q]]]
          BY <2>2, AuthorizerStays, HistoryStep
    <3>2. \A i, a : Profile(i, a)' = Profile(i, a)
          BY DEF Profile
    <3> QED
        BY <1>2, <3>1, <3>2
  <2> QED
      BY <2>1, <2>2
<1>3. CASE Same(q)
      BY <1>2, <1>3 DEF Same
<1>4. CASE Exchange(q)
  <2>1. PICK a \in Answers[who[code[q]]] :
          /\ Profile(who[code[q]], a) # NULL
          /\ heard' = [heard EXCEPT ![q] = a]
        BY <1>4 DEF Exchange
  <2>2. UNCHANGED <<who, code>> /\ pc'[q] = "user"
        BY <1>4 DEF Exchange, Goto, TypeOK
  <2>3. Profile(who[code[q]], a)' = Profile(who[code[q]], a)
        BY <2>2 DEF Profile
  <2> QED
      BY <2>1, <2>2, <2>3
<1>5. CASE FindOrCreate(q)
  <2>1. pc'[q] = "session"
        BY <1>5, FindOrCreateCases DEF TypeOK
  <2>2. user'[q] # NULL /\ owner'[who'[code'[q]]] = user'[q]
        BY <1>5, FindOrCreateCases
  <2> QED
      BY <2>1, <2>2
<1>6. CASE CreateSession(q)
      BY <1>2, <1>6 DEF CreateSession, Goto, TypeOK, rest
<1>7. CASE Found(q)
      BY <1>7 DEF Found, Hit, Accept, TypeOK
<1>8. ASSUME NEW p \in Provider, NEW c, NEW s, Return(q, c, s, p) PROVE Good(q)'
      BY <1>8 DEF Return, Flows, OAuthCallback, Begin, TypeOK
<1>9. CASE pc'[q] \notin Bound
      BY <1>9 DEF Bound
<1> QED
    BY <1>3, <1>4, <1>5, <1>6, <1>7, <1>8, <1>9, OwnStep

-----------------------------------------------------------------------------
(* The results. *)

\* The system starts with nobody signed in.
LEMMA InductiveInit == LoginInit => Inductive
BY NullAssumption, NumberAssumption
   DEF LoginInit, Init, Table!Init, Inductive, TypeOK, UsedOnce, Readings, CodesInv,
       BoundInv, AcceptedInv, HonouredInv, SignedInv, Bound, Accepted, Exchanged

\* What holds at every point of every run.
THEOREM InductiveInvariant == LoginSpec => []Inductive
<1>1. Inductive /\ [LoginNext]_loginVars => Inductive'
      BY TypeStep, UsedOnceStep, ReadingsStep, CodesStep, BoundStep, AcceptedStep,
         HonouredStep, SignedStep
      DEF Inductive
<1> QED
    BY InductiveInit, <1>1, PTL DEF LoginSpec

\* A flow is good for one callback: see OneCallbackPerFlow.
THEOREM FlowsAreUsedOnce == LoginSpec => []OneCallbackPerFlow
<1>1. Inductive => OneCallbackPerFlow
      BY DEF Inductive, UsedOnce, OneCallbackPerFlow
<1> QED
    BY InductiveInvariant, <1>1, PTL

\* Whoever is signed in is who agreed, at the provider and in the lifetime of
\* the flow: see SignedInAsAuthorizer.
THEOREM SessionsBelong == LoginSpec => []SignedInAsAuthorizer
<1>1. ASSUME Inductive, NEW r \in Request, pc[r] = "signedin"
      PROVE  LET i == who[code[r]] IN
             /\ flow[code[r]] = state[r]
             /\ user[r] # NULL /\ owner[i] = user[r]
             /\ prov[r] = ProviderOf[i] /\ provider[state[r]] = prov[r]
             /\ expires[state[r]] - TTL <= at[r] /\ at[r] <= expires[state[r]]
  <2>1. /\ code[r] \in Code /\ flow[code[r]] = state[r] /\ state[r] \in State
        /\ provider[state[r]] = prov[r] /\ at[r] <= expires[state[r]]
        /\ user[r] # NULL /\ owner[who[code[r]]] = user[r]
        BY <1>1 DEF Inductive, AcceptedInv, HonouredInv, SignedInv, Bound, Accepted,
                    Exchanged
  <2>2. /\ expires[state[r]] <= at[r] + TTL
        /\ expires[state[r]] \in Nat /\ at[r] \in Nat
        BY <1>1, <2>1, NullAssumption DEF Inductive, TypeOK, BoundInv, Bound
  <2>3. expires[state[r]] - TTL <= at[r]
        BY <2>1, <2>2, NumberAssumption
  <2>4. prov[r] = ProviderOf[who[code[r]]]
        BY <1>1, <2>1, NullAssumption DEF Inductive, CodesInv
  <2> QED
      BY <2>1, <2>3, <2>4
<1>2. Inductive => SignedInAsAuthorizer
      BY <1>1 DEF SignedInAsAuthorizer
<1> QED
    BY InductiveInvariant, <1>2, PTL

\* An account has the address of the profile it was made from.
AddressInv ==
  /\ DOMAIN mail = User /\ DOMAIN source = User
  /\ \A i \in Identity : owner[i] # NULL =>
       /\ source[owner[i]] \in Answers[i]
       /\ Profile(i, source[owner[i]]) # NULL
       /\ mail[owner[i]] = Profile(i, source[owner[i]]).email

\* Nobody but the login that makes an account gives it an address.
LEMMA AddressStep == Inductive /\ AddressInv /\ [LoginNext]_loginVars => AddressInv'
<1> SUFFICES ASSUME Inductive, AddressInv, [LoginNext]_loginVars PROVE AddressInv'
    OBVIOUS
<1> USE UserAssumption DEF AddressInv
<1>1. CASE UNCHANGED accounts
  <2>1. \A i, a : Profile(i, a)' = Profile(i, a)
        BY DEF Profile
  <2> QED
      BY <1>1, <2>1 DEF accounts
<1>2. ASSUME NEW r \in Request, FindOrCreate(r) PROVE AddressInv'
  <2> DEFINE i == who[code[r]]
             p == Profile(i, heard[r])
  <2>1. i \in Identity /\ heard[r] \in Answers[i] /\ p # NULL
        BY <1>2, AuthorizerStays DEF FindOrCreate, Exchanged, Inductive, SignedInv
  <2>2. p.id = i
        BY <2>1, ProfileOfIdentity
  <2>3. CASE UNCHANGED accounts
        BY <1>1, <2>3
  <2>4. ASSUME NEW u \in User, Table!Create(p.id, u, p.email),
               source' = [source EXCEPT ![u] = heard[r]]
        PROVE  AddressInv'
    <3>1. /\ owner' = [owner EXCEPT ![i] = u] /\ mail' = [mail EXCEPT ![u] = p.email]
          /\ \A j \in Identity : owner[j] # u
          BY <2>2, <2>4 DEF Table!Create, Table!Made
    <3>2. owner \in [Identity -> User \cup {NULL}]
          BY DEF Inductive, SignedInv
    <3> SUFFICES ASSUME NEW j \in Identity, owner'[j] # NULL
                 PROVE  /\ source'[owner'[j]] \in Answers[j]
                        /\ Profile(j, source'[owner'[j]]) # NULL
                        /\ mail'[owner'[j]] = Profile(j, source'[owner'[j]]).email
        BY <2>4, <3>1
    <3>3. CASE j = i
          BY <2>1, <2>4, <3>1, <3>2, <3>3
    <3>4. CASE j # i
          BY <2>4, <3>1, <3>2, <3>4
    <3> QED
        BY <3>3, <3>4
  <2> QED
      BY <1>2, <2>3, <2>4 DEF FindOrCreate
<1>3. ASSUME NEW r \in Request, Local(r), ~FindOrCreate(r) PROVE UNCHANGED accounts
      BY <1>3 DEF Local, Exchange, CreateSession, Fail, Leave, Return, Flows
<1> QED
    BY <1>1, <1>2, <1>3, StepCases DEF loginVars, Crash, Authorize, Call, Flows

\* An account's address is the one its provider reported when it was made, and
\* GitHub's is public or verified: see AddressIsReported.
THEOREM AddressesAreReported == LoginSpec => []AddressIsReported
<1>1. LoginInit => AddressInv
      BY DEF LoginInit, Table!Init, AddressInv
<1>2. ASSUME AddressInv, NEW i \in Identity, owner[i] # NULL
      PROVE  LET u == owner[i] IN
             IF ProviderOf[i] = "google"
               THEN mail[u] = source[u].info.body.email
               ELSE /\ mail[u] \in Eligible(u) \/ (mail[u] = NULL /\ Eligible(u) = {})
                    /\ Primary(u) # {} => mail[u] \in Primary(u)
  <2> DEFINE u == owner[i]
             a == source[u]
  <2>1. a \in Answers[i] /\ Profile(i, a) # NULL /\ mail[u] = Profile(i, a).email
        BY <1>2 DEF AddressInv
  <2>2. Listed(u) = ListOf(a)
        BY DEF Listed, ListOf
  <2>3. CASE ProviderOf[i] = "google"
        BY <2>1, <2>3, AddressOfProfile
  <2>4. CASE ProviderOf[i] # "google"
    <3>1. /\ ListOf(a) \in Lists
          /\ mail[u] = Verifier!Pick(a.account.body.email, ListOf(a)).email
          BY <2>1, <2>4, AddressOfProfile
    <3> HIDE DEF u, a
    <3>2. /\ mail[u] \in Eligible(u) \/ (mail[u] = NULL /\ Eligible(u) = {})
          /\ Primary(u) # {} => mail[u] \in Primary(u)
          BY <2>2, <3>1, PickedIsEligible DEF Eligible, Primary, a
    <3> QED
        BY <2>4, <3>2 DEF u
  <2> QED
      BY <2>3, <2>4
<1>3. AddressInv => AddressIsReported
      BY <1>2 DEF AddressIsReported
<1> QED
    BY InductiveInvariant, AddressStep, <1>1, <1>3, PTL DEF LoginSpec

\* What a step of the login may take out of the store.
LEMMA FlowsStep ==
  ASSUME Inductive, [LoginNext]_loginVars, NEW s \in flows \ flows'
  PROVE  hits'[s] > hits[s] \/ clock > expires[s] \/ Restart
<1> USE DEF Inductive, TypeOK
<1>1. CASE Crash
      BY <1>1 DEF Crash, Flows
<1> SUFFICES ASSUME ~Crash PROVE hits'[s] > hits[s] \/ clock > expires[s]
    BY <1>1
<1>2. PICK r \in Request : Create(r) \/ Consume(r)
      BY StepCases, LocalLeavesStore
         DEF loginVars, vars, store, Tick, Authorize, Call, Flows
<1>3. CASE Expired(s, at[r])
      BY <1>2, <1>3 DEF Expired, Readings
<1>4. CASE ~Expired(s, at[r])
  <2>1. s \in Kept(at[r])
        BY <1>4 DEF Kept
  <2> QED
      BY <1>2, <2>1 DEF Create, Consume, Miss, Hit
<1> QED
    BY <1>3, <1>4

\* A flow that could still be used leaves the store by its callback or by a
\* restart: see NothingLostEarly.
THEOREM FlowsLast == LoginSpec => NothingLostEarly
<1>1. Inductive /\ [LoginNext]_loginVars =>
        [\A s \in flows \ flows' :
           hits'[s] > hits[s] \/ clock > expires[s] \/ Restart]_vars
      BY FlowsStep
<1> QED
    BY InductiveInvariant, <1>1, PTL DEF LoginSpec, NothingLostEarly

\* After a call, the store holds nothing that had expired by its reading: see
\* NoLeftovers.
THEOREM FlowsAreSwept == LoginSpec => NoLeftovers
<1>1. ASSUME Inductive, [LoginNext]_loginVars, NEW r \in Request,
             pc[r] \in {"create", "consume"}, pc'[r] # pc[r],
             NEW s \in flows'
      PROVE  at[r] <= expires'[s]
  <2> USE NumberAssumption DEF Inductive, TypeOK
  <2>1. Create(r) \/ Consume(r)
    <3>1. ASSUME NEW q \in Request, Local(q) PROVE pc'[r] = pc[r]
          BY <1>1, <3>1 DEF Local, Exchange, FindOrCreate, CreateSession, Fail, Leave,
             Over, StartSocialLogin, Return, OAuthCallback, Begin, Goto, Flows
    <3>2. ASSUME NEW q \in Request, Create(q) \/ Consume(q), q # r
          PROVE  pc'[r] = pc[r]
          BY <1>1, <3>2 DEF Create, Consume, Miss, Hit, Over, Accept
    <3>3. ~Crash
          BY <1>1 DEF Crash, Flows, Restart
    <3> QED
        BY <1>1, <3>1, <3>2, <3>3, StepCases
           DEF loginVars, vars, handler, Tick, Authorize, Call, Flows
  <2>2. CASE s \in Kept(at[r]) /\ expires'[s] = expires[s]
        BY <1>1, <2>2 DEF Kept, Expired
  <2>3. CASE Consume(r)
        BY <2>2, <2>3 DEF Consume, Miss, Hit
  <2>4. CASE Create(r)
    <3>1. PICK n \in State \ Issued : /\ flows' = Kept(at[r]) \cup {n}
                                     /\ expires' = [expires EXCEPT ![n] = at[r] + TTL]
          BY <2>4 DEF Create
    <3>2. CASE s = n
          BY <1>1, <3>1, <3>2
    <3>3. CASE s # n
          BY <1>1, <2>2, <3>1, <3>3 DEF Kept
    <3> QED
        BY <3>2, <3>3
  <2> QED
      BY <2>1, <2>3, <2>4
<1>2. Inductive /\ [LoginNext]_loginVars =>
        [\A r \in Request :
           pc[r] \in {"create", "consume"} /\ pc'[r] # pc[r]
             => \A s \in flows' : at[r] <= expires'[s]]_vars
      BY <1>1
<1> QED
    BY InductiveInvariant, <1>2, PTL DEF LoginSpec, NoLeftovers
=============================================================================
