------------------------- MODULE SocialUsersProofs -------------------------
(***************************************************************************)
(* What FindOrCreateSocialUser guarantees for any number of logins,        *)
(* identities and addresses, whatever the providers report and whichever   *)
(* statements fail.                                                        *)
(***************************************************************************)
EXTENDS SocialUsers, TLAPS

\* A login carries a profile until it is answered, and an address where it
\* looks for one.
CarriesProfile ==
  \A l \in Login : /\ pc[l] # "idle" => prof[l] \in Profiles
                   /\ pc[l] = "byemail" => prof[l].email # NULL

\* The user a login has found, or has made, owns its identity.
FoundIsOwner ==
  \A l \in Login : pc[l] \in {"update", "update2", "reread", "ok"} =>
    uid[l] # NULL /\ uid[l] = owner[prof[l].id]

\* users.email is unique, counting the inserts that are not committed.
EmailIndex ==
  /\ \A u, v \in users : mail[u] = mail[v] /\ mail[u] # NULL => u = v
  /\ \A l \in Login : pc[l] \in {"identity", "commit"} /\ prof[l].email # NULL =>
       ~EmailHeld(l) /\ ~EmailTaken(prof[l].email)

\* So is (provider, provider_user_id), and no two identities share a user.
IdentityIndex ==
  /\ \A i, j \in Identity : owner[i] = owner[j] /\ owner[i] # NULL => i = j
  /\ \A l \in Login : pc[l] = "commit" =>
       ~IdentityHeld(l) /\ owner[prof[l].id] = NULL

Inductive == /\ Consistent /\ CarriesProfile /\ FoundIsOwner
             /\ EmailIndex /\ IdentityIndex /\ ProfileIsOwn

-----------------------------------------------------------------------------
(* The steps: most of them write nothing. *)

\* Statements that only read, and the ways to begin and to end.
Local(l) == \/ Arrive(l) \/ FindByIdentity(l) \/ FindByID(l) \/ FindByEmail(l)
            \/ CheckEmail(l) \/ InsertUser(l) \/ InsertIdentity(l) \/ Fail(l)
            \/ Done(l)

\* A step leaves everything, leaves the tables, or is one of three statements.
LEMMA StepCases ==
  ASSUME [Next]_vars
  PROVE  \/ UNCHANGED vars
         \/ \E l \in Login : Local(l) \/ UpdateUser(l) \/ UpdateIdentity(l) \/ Commit(l)
BY DEF Next, Step, Local

\* What is not committed is nobody else's.
LEMMA LocalChangesNoTable == \A l \in Login : Local(l) => UNCHANGED tables
BY DEF Local, Arrive, FindByIdentity, FindByID, FindByEmail, CheckEmail, InsertUser,
       InsertIdentity, Fail, Done, Move, tables

\* u is a new user, made for the identity and with the profile l carries.
Makes(l, u) ==
  LET p == prof[l] IN
  /\ p \in Profiles /\ p.id \in Identity /\ u \notin users /\ u # NULL
  /\ owner[p.id] = NULL /\ \A i \in Identity : owner[i] # u
  /\ p.email # NULL => ~EmailTaken(p.email)
  /\ users' = users \cup {u}
  /\ mail'  = [mail EXCEPT ![u] = p.email]
  /\ name'  = [name EXCEPT ![u] = p.name]
  /\ owner' = [owner EXCEPT ![p.id] = u]
  /\ pmail' = [pmail EXCEPT ![p.id] = p.email]
  /\ pname' = [pname EXCEPT ![p.id] = p.name]
  /\ uid'   = [uid EXCEPT ![l] = u]
  /\ prof'  = prof
  /\ \/ pc' = [pc EXCEPT ![l] = "ok"]
     \/ pc' = [pc EXCEPT ![l] = "error"]

\* The commit makes one user, with the identity's row and the profile.
LEMMA CommitMakesOne ==
  ASSUME Inductive, NEW l \in Login, Commit(l)
  PROVE  \E u \in User : Makes(l, u)
<1> USE DEF Inductive, Consistent, TypeOK
<1>1. prof[l] \in Profiles /\ prof[l].id \in Identity
      BY ProfilesAssumption DEF Commit, CarriesProfile
<1>2. /\ owner[prof[l].id] = NULL
      /\ prof[l].email # NULL => ~EmailTaken(prof[l].email)
      BY DEF Commit, EmailIndex, IdentityIndex
<1>3. PICK u \in User \ users : Commit(l)!2!(u)
      BY DEF Commit
<1>4. u # NULL /\ \A i \in Identity : owner[i] # u
      BY <1>3, NullAssumption
<1>5. /\ prof' = prof
      /\ pc' = [pc EXCEPT ![l] = "ok"] \/ pc' = [pc EXCEPT ![l] = "error"]
      BY DEF Commit, Goto
<1> QED
    BY <1>1, <1>2, <1>3, <1>4, <1>5 DEF Makes

\* The second update finds the one identity of its user: the login's own.
LEMMA UpdateIsOwn ==
  ASSUME Inductive, NEW l \in Login, UpdateIdentity(l)
  PROVE  LET p == prof[l] IN
         /\ p \in Profiles /\ p.id \in Identity
         /\ \A i \in Identity : owner[i] = uid[l] <=> i = p.id
         /\ pmail' = [pmail EXCEPT ![p.id] = p.email]
         /\ pname' = [pname EXCEPT ![p.id] = p.name]
         /\ UNCHANGED <<users, mail, name, owner, prof, uid>>
         /\ pc' = [pc EXCEPT ![l] = "reread"]
<1> USE ProfilesAssumption
        DEF Inductive, Consistent, TypeOK, CarriesProfile, FoundIsOwner, IdentityIndex
<1>1. prof[l] \in Profiles /\ prof[l].id \in Identity
      BY DEF UpdateIdentity
<1>2. \A i \in Identity : owner[i] = uid[l] <=> i = prof[l].id
      BY <1>1 DEF UpdateIdentity
<1>3. /\ pmail' = [pmail EXCEPT ![prof[l].id] = prof[l].email]
      /\ pname' = [pname EXCEPT ![prof[l].id] = prof[l].name]
  <2>1. \A i \in Identity : i \in {j \in Identity : owner[j] = uid[l]} <=> i = prof[l].id
        BY <1>2
  <2>2. /\ pmail' = [i \in Identity |-> IF i = prof[l].id THEN prof[l].email ELSE pmail[i]]
        /\ pname' = [i \in Identity |-> IF i = prof[l].id THEN prof[l].name ELSE pname[i]]
        BY <2>1 DEF UpdateIdentity
  <2> QED
      BY <2>2, <1>1
<1> QED
    BY <1>1, <1>2, <1>3 DEF UpdateIdentity, Goto

-----------------------------------------------------------------------------
(* Each part of the invariant survives every step. *)

\* Types, and users and identities that come together.
LEMMA ConsistentStep == Inductive /\ [Next]_vars => Consistent'
<1> SUFFICES ASSUME Inductive, [Next]_vars PROVE Consistent'
    OBVIOUS
<1> USE ProfilesAssumption, NullAssumption DEF Inductive, Consistent, TypeOK
<1>1. CASE UNCHANGED vars
      BY <1>1 DEF vars, tables
<1>2. ASSUME NEW l \in Login, Local(l) PROVE Consistent'
  <2>1. UNCHANGED tables
        BY <1>2, LocalChangesNoTable
  <2>2. /\ pc' \in [Login -> PC]
        /\ prof' \in [Login -> Profiles \cup {NULL}]
        /\ uid' \in [Login -> User \cup {NULL}]
        BY <1>2 DEF Local, Arrive, FindByIdentity, FindByID, FindByEmail, CheckEmail,
                    InsertUser, InsertIdentity, Fail, Done, Move, Goto, PC, Answers,
                    CarriesProfile
  <2> QED
      BY <2>1, <2>2 DEF tables
<1>3. ASSUME NEW l \in Login, UpdateUser(l) PROVE Consistent'
      BY <1>3 DEF UpdateUser, Goto, PC, CarriesProfile, FoundIsOwner
<1>4. ASSUME NEW l \in Login, UpdateIdentity(l) PROVE Consistent'
      BY <1>4, UpdateIsOwn DEF PC
<1>5. ASSUME NEW l \in Login, Commit(l) PROVE Consistent'
  <2>1. PICK u \in User : Makes(l, u)
        BY <1>5, CommitMakesOne
  <2> QED
      BY <2>1 DEF Makes, PC, Answers
<1> QED
    BY <1>1, <1>2, <1>3, <1>4, <1>5, StepCases

\* A profile is put down only when its login is over.
LEMMA ProfileStep == Inductive /\ [Next]_vars => CarriesProfile'
<1> SUFFICES ASSUME Inductive, [Next]_vars PROVE CarriesProfile'
    OBVIOUS
<1> USE ProfilesAssumption, NullAssumption
        DEF Inductive, Consistent, TypeOK, CarriesProfile, Goto
<1>1. CASE UNCHANGED vars
      BY <1>1 DEF vars, tables
<1>2. ASSUME NEW l \in Login, Local(l) PROVE CarriesProfile'
      BY <1>2 DEF Local, Arrive, FindByIdentity, FindByID, FindByEmail, CheckEmail,
                  InsertUser, InsertIdentity, Fail, Done, Move, Answers
<1>3. ASSUME NEW l \in Login, UpdateUser(l) \/ UpdateIdentity(l) PROVE CarriesProfile'
      BY <1>3 DEF UpdateUser, UpdateIdentity
<1>4. ASSUME NEW l \in Login, Commit(l) PROVE CarriesProfile'
  <2>1. PICK u \in User : Makes(l, u)
        BY <1>4, CommitMakesOne
  <2> QED
      BY <2>1 DEF Makes
<1> QED
    BY <1>1, <1>2, <1>3, <1>4, StepCases

\* An identity keeps the user it got.
LEMMA FoundStep == Inductive /\ [Next]_vars => FoundIsOwner'
<1> SUFFICES ASSUME Inductive, [Next]_vars PROVE FoundIsOwner'
    OBVIOUS
<1> USE ProfilesAssumption, NullAssumption
        DEF Inductive, Consistent, TypeOK, CarriesProfile, FoundIsOwner, Goto
<1>1. CASE UNCHANGED vars
      BY <1>1 DEF vars, tables
<1>2. ASSUME NEW l \in Login, Local(l) PROVE FoundIsOwner'
      BY <1>2 DEF Local, Arrive, FindByIdentity, FindByID, FindByEmail, CheckEmail,
                  InsertUser, InsertIdentity, Fail, Done, Move, Answers, tables
<1>3. ASSUME NEW l \in Login, UpdateUser(l) \/ UpdateIdentity(l) PROVE FoundIsOwner'
      BY <1>3 DEF UpdateUser, UpdateIdentity
<1>4. ASSUME NEW l \in Login, Commit(l) PROVE FoundIsOwner'
  <2>1. PICK u \in User : Makes(l, u)
        BY <1>4, CommitMakesOne
  <2> QED
      BY <2>1 DEF Makes
<1> QED
    BY <1>1, <1>2, <1>3, <1>4, StepCases

\* An insert of an address waits for the transaction that holds it, and is
\* refused when the address is there.
LEMMA EmailStep == Inductive /\ [Next]_vars => EmailIndex'
<1> SUFFICES ASSUME Inductive, [Next]_vars PROVE EmailIndex'
    OBVIOUS
<1> USE ProfilesAssumption, NullAssumption
        DEF Inductive, Consistent, TypeOK, CarriesProfile, EmailIndex, EmailHeld,
            EmailTaken, Goto
<1>1. CASE UNCHANGED vars
      BY <1>1 DEF vars, tables
<1>2. ASSUME NEW l \in Login, InsertUser(l) PROVE EmailIndex'
      BY <1>2 DEF InsertUser, Move, tables
<1>3. ASSUME NEW l \in Login, Local(l), ~InsertUser(l) PROVE EmailIndex'
      BY <1>3 DEF Local, Arrive, FindByIdentity, FindByID, FindByEmail, CheckEmail,
                  InsertIdentity, Fail, Done, Move, Answers, tables
<1>4. ASSUME NEW l \in Login, UpdateUser(l) \/ UpdateIdentity(l) PROVE EmailIndex'
      BY <1>4 DEF UpdateUser, UpdateIdentity
<1>5. ASSUME NEW l \in Login, Commit(l) PROVE EmailIndex'
  <2>1. PICK u \in User : Makes(l, u)
        BY <1>5, CommitMakesOne
  <2>2. /\ users' = users \cup {u} /\ mail'[u] = prof[l].email
        /\ \A v \in users : v # u /\ mail'[v] = mail[v]
        /\ prof[l].email # NULL => \A v \in users : mail[v] # prof[l].email
        /\ prof' = prof /\ pc[l] = "commit" /\ pc'[l] \in {"ok", "error"}
        /\ \A k \in Login \ {l} : pc'[k] = pc[k]
        BY <2>1, <1>5 DEF Makes, Commit
  <2>3. \A v, w \in users' : mail'[v] = mail'[w] /\ mail'[v] # NULL => v = w
        BY <2>2
  <2>4. ASSUME NEW k \in Login, pc'[k] \in {"identity", "commit"}, prof'[k].email # NULL
        PROVE  ~EmailHeld(k)' /\ ~EmailTaken(prof[k].email)'
    <3>1. k # l /\ pc[k] \in {"identity", "commit"} /\ prof[k].email # NULL
          BY <2>2, <2>4
    <3>2. ~EmailHeld(k) /\ ~EmailTaken(prof[k].email)
          BY <3>1
    <3>3. prof[l].email # prof[k].email
          BY <3>1, <3>2, <2>2
    <3> QED
        BY <3>1, <3>2, <3>3, <2>2
  <2> QED
      BY <2>3, <2>4
<1> QED
    BY <1>1, <1>2, <1>3, <1>4, <1>5, StepCases

\* The same for identities.
LEMMA IdentityStep == Inductive /\ [Next]_vars => IdentityIndex'
<1> SUFFICES ASSUME Inductive, [Next]_vars PROVE IdentityIndex'
    OBVIOUS
<1> USE ProfilesAssumption, NullAssumption
        DEF Inductive, Consistent, TypeOK, CarriesProfile, IdentityIndex,
            IdentityHeld, Goto
<1>1. CASE UNCHANGED vars
      BY <1>1 DEF vars, tables
<1>2. ASSUME NEW l \in Login, InsertIdentity(l) PROVE IdentityIndex'
      BY <1>2 DEF InsertIdentity, Move, tables
<1>3. ASSUME NEW l \in Login, Local(l), ~InsertIdentity(l) PROVE IdentityIndex'
      BY <1>3 DEF Local, Arrive, FindByIdentity, FindByID, FindByEmail, CheckEmail,
                  InsertUser, Fail, Done, Move, Answers, tables
<1>4. ASSUME NEW l \in Login, UpdateUser(l) \/ UpdateIdentity(l) PROVE IdentityIndex'
      BY <1>4 DEF UpdateUser, UpdateIdentity
<1>5. ASSUME NEW l \in Login, Commit(l) PROVE IdentityIndex'
  <2>1. PICK u \in User : Makes(l, u)
        BY <1>5, CommitMakesOne
  <2>2. /\ prof[l].id \in Identity /\ owner'[prof[l].id] = u
        /\ \A i \in Identity : /\ owner[i] # u
                               /\ i # prof[l].id => owner'[i] = owner[i]
        /\ prof' = prof /\ pc[l] = "commit" /\ pc'[l] \in {"ok", "error"}
        /\ \A k \in Login \ {l} : pc'[k] = pc[k]
        BY <2>1, <1>5 DEF Makes, Commit
  <2>3. \A i, j \in Identity : owner'[i] = owner'[j] /\ owner'[i] # NULL => i = j
        BY <2>2
  <2>4. ASSUME NEW k \in Login, pc'[k] = "commit"
        PROVE  ~IdentityHeld(k)' /\ owner'[prof'[k].id] = NULL
    <3>1. k # l /\ pc[k] = "commit" /\ prof[k].id \in Identity
          BY <2>2, <2>4
    <3>2. ~IdentityHeld(k) /\ owner[prof[k].id] = NULL
          BY <3>1
    <3>3. prof[l].id # prof[k].id
          BY <3>1, <3>2, <2>2
    <3> QED
        BY <3>1, <3>2, <3>3, <2>2
  <2> QED
      BY <2>3, <2>4
<1> QED
    BY <1>1, <1>2, <1>3, <1>4, <1>5, StepCases

\* Updates are made for the owner of the identity that was reported.
LEMMA OwnProfileStep == Inductive /\ [Next]_vars => ProfileIsOwn'
<1> SUFFICES ASSUME Inductive, [Next]_vars PROVE ProfileIsOwn'
    OBVIOUS
<1> USE ProfilesAssumption, NullAssumption
        DEF Inductive, Consistent, TypeOK, CarriesProfile, FoundIsOwner,
            IdentityIndex, ProfileIsOwn, Goto
<1>1. CASE UNCHANGED tables
      BY <1>1 DEF tables
<1>2. ASSUME NEW l \in Login, UpdateUser(l) PROVE ProfileIsOwn'
      BY <1>2 DEF UpdateUser
<1>3. ASSUME NEW l \in Login, UpdateIdentity(l) PROVE ProfileIsOwn'
      BY <1>3, UpdateIsOwn
<1>4. ASSUME NEW l \in Login, Commit(l) PROVE ProfileIsOwn'
  <2>1. PICK u \in User : Makes(l, u)
        BY <1>4, CommitMakesOne
  <2> QED
      BY <2>1 DEF Makes
<1> QED
    BY <1>1, <1>2, <1>3, <1>4, StepCases, LocalChangesNoTable DEF vars

-----------------------------------------------------------------------------
(* The theorems. *)

\* Nobody has signed in.
LEMMA InductiveInit == Init => Inductive
BY ProfilesAssumption, NullAssumption
   DEF Init, Inductive, Consistent, TypeOK, PC, CarriesProfile, FoundIsOwner,
       EmailIndex, IdentityIndex, ProfileIsOwn, EmailHeld, IdentityHeld, EmailTaken

\* Every step keeps the invariant.
LEMMA InductiveStep == Inductive /\ [Next]_vars => Inductive'
BY ConsistentStep, ProfileStep, FoundStep, EmailStep, IdentityStep, OwnProfileStep
   DEF Inductive

\* The invariant holds of every state.
THEOREM InductiveInvariant == Spec => []Inductive
BY InductiveInit, InductiveStep, PTL DEF Spec

\* Users and identities come and stay together, whatever CreateUserWithIdentity
\* ran into.
THEOREM UsersMatchIdentities == Spec => []Consistent
<1>1. Inductive => Consistent
      BY DEF Inductive
<1> QED
    BY <1>1, InductiveInvariant, PTL

\* Whoever is told that they are signed in is signed in as the owner of the
\* identity the provider vouched for, who exists.
THEOREM AnswersAreOwners == Spec => []AnswerIsOwner
<1>1. Inductive => AnswerIsOwner
  <2> SUFFICES ASSUME Inductive, NEW l \in Login, pc[l] = "ok"
               PROVE  owner[prof[l].id] = uid[l] /\ uid[l] \in users
      BY DEF AnswerIsOwner
  <2>1. prof[l].id \in Identity
        BY ProfilesAssumption DEF Inductive, CarriesProfile
  <2>2. uid[l] # NULL /\ uid[l] = owner[prof[l].id]
        BY DEF Inductive, FoundIsOwner
  <2> QED
      BY <2>1, <2>2 DEF Inductive, Consistent
<1> QED
    BY <1>1, InductiveInvariant, PTL

\* Logins that overtake one another never mix two people's profiles up.
THEOREM ProfilesAreOwn == Spec => []ProfileIsOwn
<1>1. Inductive => ProfileIsOwn
      BY DEF Inductive
<1> QED
    BY <1>1, InductiveInvariant, PTL

\* The tables implement the accounts of Accounts: the only step they take is
\* to make one, and then its identity, its user and its address are all new.
THEOREM Refinement == Spec => ImplementsAccounts
<1>1. Init => Promise!Init
      BY DEF Init, Promise!Init
<1>2. Inductive /\ [Next]_vars => [Promise!Next]_Promise!vars
  <2> SUFFICES ASSUME Inductive, [Next]_vars
               PROVE  Promise!Next \/ UNCHANGED <<owner, mail>>
      BY DEF Promise!vars
  <2>1. ASSUME NEW l \in Login, Commit(l) PROVE Promise!Next
    <3>1. PICK u \in User : Makes(l, u)
          BY <2>1, CommitMakesOne
    <3>2. prof[l].id \in Identity /\ prof[l].email \in Email \cup {NULL}
          BY <3>1, ProfilesAssumption DEF Makes
    <3>3. Promise!Made = users
          BY DEF Promise!Made, Inductive, Consistent
    <3>4. Promise!Create(prof[l].id, u, prof[l].email)
          BY <3>1, <3>3 DEF Makes, EmailTaken, Promise!Taken, Promise!Create
    <3> QED
        BY <3>2, <3>4 DEF Promise!Next
  <2>2. ASSUME NEW l \in Login, Local(l) PROVE UNCHANGED <<owner, mail>>
        BY <2>2, LocalChangesNoTable DEF tables
  <2>3. ASSUME NEW l \in Login, UpdateUser(l) \/ UpdateIdentity(l)
        PROVE  UNCHANGED <<owner, mail>>
        BY <2>3 DEF UpdateUser, UpdateIdentity
  <2> QED
      BY <2>1, <2>2, <2>3, StepCases DEF vars, tables
<1> QED
    BY <1>1, <1>2, InductiveInvariant, PTL DEF Spec, ImplementsAccounts, Promise!Spec
=============================================================================
