---------------------------- MODULE SocialUsers ----------------------------
(***************************************************************************)
(* Sign-in through a provider: Service.FindOrCreateSocialUser over the     *)
(* tables users and user_identities, with logins of the same person, or of *)
(* people who share an address, in flight together.                        *)
(*                                                                         *)
(* Each statement is a step.  A transaction's inserts are its own until it *)
(* commits, but they already occupy the unique indexes: another insert of  *)
(* the same key waits for that transaction to end.                         *)
(*                                                                         *)
(* Simplifications: avatar_url is treated by the code as the name is and   *)
(* is left out, and so is provider_handle; validation and lower-casing of  *)
(* a profile happen before it gets here.                                   *)
(***************************************************************************)
EXTENDS Naturals, FiniteSets

CONSTANTS
  Login,     \* logins that may be in flight together
  Identity,  \* (provider, provider_user_id) pairs
  Email, Name,
  User,      \* user ids the sequence may hand out
  NULL,      \* SQL null
  Profiles,  \* what the providers may report, see ProfilesAssumption
  Faults     \* may statements fail and commits lose their answer?

ASSUME ProfilesAssumption ==
  Profiles \subseteq [id : Identity, email : Email \cup {NULL},
                      verified : BOOLEAN, name : Name \cup {NULL}]
ASSUME NullAssumption   == NULL \notin User \cup Email \cup Name \cup Identity
ASSUME FaultsAssumption == Faults \in BOOLEAN

VARIABLES
  users,        \* ids of the committed rows of users
  mail, name,   \* users.email and users.display_name (NULL: the default)
  owner,        \* user_identities.user_id, NULL where there is no row
  pmail, pname, \* provider_email and provider_name
  pc, prof,     \* what a login does next, and the profile it carries
  uid           \* the user a login has found or made

tables == <<users, mail, name, owner, pmail, pname>>
vars   == <<tables, pc, prof, uid>>

Answers == {"ok", "conflict", "error"}
PC == {"idle", "find", "update", "update2", "reread", "byemail", "check",
       "user", "identity", "commit"} \cup Answers

Init ==
  /\ users = {}
  /\ mail  = [u \in User |-> NULL]
  /\ name  = [u \in User |-> NULL]
  /\ owner = [i \in Identity |-> NULL]
  /\ pmail = [i \in Identity |-> NULL]
  /\ pname = [i \in Identity |-> NULL]
  /\ pc    = [l \in Login |-> "idle"]
  /\ prof  = [l \in Login |-> NULL]
  /\ uid   = [l \in Login |-> NULL]

Goto(l, where) == pc' = [pc EXCEPT ![l] = where]

\* l moves on; it has read, or failed, and written nothing.
Move(l, where) == Goto(l, where) /\ UNCHANGED <<tables, prof, uid>>

EmailTaken(e) == \E u \in users : mail[u] = e

\* Mutant of EmailHeld: the handler answers before it commits.
EmailHeld_UntilAnswered(l) ==
  \E k \in Login \ {l} : /\ pc[k] \in {"identity", "commit", "ok"}
                         /\ prof[k].email = prof[l].email

\* Keys a transaction in flight has put in a unique index.
EmailHeld(l) == \E k \in Login \ {l} : /\ pc[k] \in {"identity", "commit"}
                                       /\ prof[k].email = prof[l].email
IdentityHeld(l) == \E k \in Login \ {l} : /\ pc[k] = "commit"
                                          /\ prof[k].id = prof[l].id

-----------------------------------------------------------------------------
\* The provider has vouched for a profile; FindOrCreateSocialUser starts.
Arrive(l) ==
  /\ pc[l] = "idle"
  /\ \E p \in Profiles : prof' = [prof EXCEPT ![l] = p]
  /\ Goto(l, "find")
  /\ UNCHANGED <<tables, uid>>

\* Mutant of FindByIdentity: a verified address is looked up before it.
FindByIdentity_EmailFirst(l) ==
  /\ pc[l] = "find"
  /\ LET u == owner[prof[l].id] IN
       IF prof[l].verified /\ prof[l].email # NULL
         THEN Goto(l, "byemail") /\ UNCHANGED uid
         ELSE /\ Goto(l, IF u # NULL THEN "update" ELSE "check")
              /\ uid' = [uid EXCEPT ![l] = u]
  /\ UNCHANGED <<tables, prof>>

FindByIdentity(l) ==
  /\ pc[l] = "find"
  /\ LET u == owner[prof[l].id] IN
       IF u # NULL
         THEN Goto(l, "update") /\ uid' = [uid EXCEPT ![l] = u]
         ELSE /\ Goto(l, IF prof[l].verified /\ prof[l].email # NULL
                           THEN "byemail" ELSE "check")
              /\ UNCHANGED uid
  /\ UNCHANGED <<tables, prof>>

-----------------------------------------------------------------------------
(* UpdateUserFromProfile: two statements, each committed by itself; the    *)
(* caller ignores its error and reads the user again.                      *)

\* Mutant of UpdateUser: the WHERE clause is missing.
UpdateUser_NoWhere(l) ==
  /\ pc[l] = "update"
  /\ name' = [u \in User |-> IF prof[l].name = NULL THEN name[u] ELSE prof[l].name]
  /\ Goto(l, "update2")
  /\ UNCHANGED <<users, mail, owner, pmail, pname, prof, uid>>

UpdateUser(l) ==
  /\ pc[l] = "update"
  /\ name' = [name EXCEPT ![uid[l]] =
                IF prof[l].name = NULL THEN @ ELSE prof[l].name]
  /\ Goto(l, "update2")
  /\ UNCHANGED <<users, mail, owner, pmail, pname, prof, uid>>

\* Mutant of UpdateIdentity: the identity is handed to whoever signs in.
UpdateIdentity_ByEmail(l) ==
  /\ pc[l] = "update2"
  /\ owner' = [i \in Identity |->
       IF pmail[i] = prof[l].email /\ pmail[i] # NULL THEN uid[l] ELSE owner[i]]
  /\ Goto(l, "reread")
  /\ UNCHANGED <<users, mail, name, pmail, pname, prof, uid>>

\* "where user_id = $1 and provider = $2": a user's only identity.
UpdateIdentity(l) ==
  /\ pc[l] = "update2"
  /\ LET own == {i \in Identity : owner[i] = uid[l]} IN
       /\ pmail' = [i \in Identity |-> IF i \in own THEN prof[l].email ELSE pmail[i]]
       /\ pname' = [i \in Identity |-> IF i \in own THEN prof[l].name ELSE pname[i]]
  /\ Goto(l, "reread")
  /\ UNCHANGED <<users, mail, name, owner, prof, uid>>

FindByID(l) == pc[l] = "reread" /\ Move(l, "ok")

-----------------------------------------------------------------------------
(* No such identity: look for the address, then create in a transaction.   *)

\* Only a hit counts: an error of FindByEmail is taken for a miss.
FindByEmail(l) ==
  /\ pc[l] = "byemail"
  /\ IF EmailTaken(prof[l].email)
       THEN Move(l, "conflict") \/ (Faults /\ Move(l, "check"))
       ELSE Move(l, "check")

\* CreateUserWithIdentity begins and, given an address, looks for it again.
CheckEmail(l) ==
  /\ pc[l] = "check"
  /\ Move(l, IF prof[l].email # NULL /\ EmailTaken(prof[l].email)
               THEN "conflict" ELSE "user")

\* Mutant of InsertUser: users.email is not unique.
InsertUser_NoIndex(l) == pc[l] = "user" /\ Move(l, "identity")

\* Null addresses are all different to a unique index.
InsertUser(l) ==
  /\ pc[l] = "user"
  /\ \/ prof[l].email = NULL /\ Move(l, "identity")
     \/ /\ prof[l].email # NULL
        /\ ~EmailHeld(l)
        /\ Move(l, IF EmailTaken(prof[l].email) THEN "conflict" ELSE "identity")

\* Mutant of InsertIdentity: (provider, provider_user_id) is not unique.
InsertIdentity_NoIndex(l) == pc[l] = "identity" /\ Move(l, "commit")

\* Mutant of InsertIdentity: the user's insert is not undone with it.
InsertIdentity_NoRollback(l) ==
  /\ pc[l] = "identity"
  /\ ~IdentityHeld(l)
  /\ IF owner[prof[l].id] = NULL
       THEN Move(l, "commit")
       ELSE /\ \E u \in User \ users : users' = users \cup {u}
            /\ Goto(l, "error")
            /\ UNCHANGED <<mail, name, owner, pmail, pname, prof, uid>>

\* ErrIdentityConflict rolls the new user back with the transaction.
InsertIdentity(l) ==
  /\ pc[l] = "identity"
  /\ ~IdentityHeld(l)
  /\ Move(l, IF owner[prof[l].id] = NULL THEN "commit" ELSE "error")

\* The user's id, which nobody saw before, is picked here; the commit may
\* happen and its answer be lost.
Commit(l) ==
  /\ pc[l] = "commit"
  /\ \E u \in User \ users :
       /\ users' = users \cup {u}
       /\ mail'  = [mail EXCEPT ![u] = prof[l].email]
       /\ name'  = [name EXCEPT ![u] = prof[l].name]
       /\ owner' = [owner EXCEPT ![prof[l].id] = u]
       /\ pmail' = [pmail EXCEPT ![prof[l].id] = prof[l].email]
       /\ pname' = [pname EXCEPT ![prof[l].id] = prof[l].name]
       /\ uid'   = [uid EXCEPT ![l] = u]
  /\ \/ Goto(l, "ok")
     \/ Faults /\ Goto(l, "error")
  /\ UNCHANGED prof

-----------------------------------------------------------------------------
\* A statement fails.  An update's error is ignored and its successor
\* skipped; FindByEmail's is a miss (above); any other ends the login.
Fail(l) ==
  /\ Faults
  /\ \/ pc[l] \in {"update", "update2"} /\ Move(l, "reread")
     \/ /\ pc[l] \in {"find", "reread", "check", "user", "identity", "commit"}
        /\ Move(l, "error")

\* The handler has answered.
Done(l) ==
  /\ pc[l] \in Answers
  /\ Goto(l, "idle")
  /\ prof' = [prof EXCEPT ![l] = NULL]
  /\ uid'  = [uid EXCEPT ![l] = NULL]
  /\ UNCHANGED tables

Step(l) == \/ FindByIdentity(l) \/ UpdateUser(l) \/ UpdateIdentity(l)
           \/ FindByID(l) \/ FindByEmail(l) \/ CheckEmail(l)
           \/ InsertUser(l) \/ InsertIdentity(l) \/ Commit(l)

Next == \E l \in Login : Arrive(l) \/ Step(l) \/ Fail(l) \/ Done(l)

Spec == Init /\ [][Next]_vars

\* A statement that may run, runs; a key that is freed is granted to a waiter
\* in the end (PostgreSQL queues the waiters of a transaction).
FairSpec == Spec /\ \A l \in Login : SF_vars(Step(l))

-----------------------------------------------------------------------------
(* Properties *)

\* Types of the two tables and of the logins in flight.
TypeOK ==
  /\ users \subseteq User
  /\ mail  \in [User -> Email \cup {NULL}]
  /\ name  \in [User -> Name \cup {NULL}]
  /\ owner \in [Identity -> User \cup {NULL}]
  /\ pmail \in [Identity -> Email \cup {NULL}]
  /\ pname \in [Identity -> Name \cup {NULL}]
  /\ pc    \in [Login -> PC]
  /\ prof  \in [Login -> Profiles \cup {NULL}]
  /\ uid   \in [Login -> User \cup {NULL}]

\* Users and identities are created together: every user owns an identity and
\* every identity is owned by a user that exists, whatever
\* CreateUserWithIdentity ran into; the other references have their types.
Consistent ==
  /\ TypeOK
  /\ users = {owner[i] : i \in Identity} \ {NULL}

\* A successful answer is for the user who owns the identity that signed in,
\* also when two first logins of that identity raced.
AnswerIsOwner ==
  \A l \in Login : pc[l] = "ok" => owner[prof[l].id] = uid[l] /\ uid[l] \in users

\* What is kept of a profile was reported for that identity: logins that
\* overtake one another between the two updates never mix two people up.
ProfileIsOwn ==
  \A i \in Identity : owner[i] # NULL =>
    /\ \E p \in Profiles : p.id = i /\ p.name = name[owner[i]]
    /\ \E p \in Profiles : p.id = i /\ p.name = pname[i] /\ p.email = pmail[i]

\* Without failures, someone who has signed in before is never refused,
\* whoever else is signing in meanwhile.
ReturningUserSignsIn ==
  \A l \in Login :
    pc[l] = "find" /\ owner[prof[l].id] # NULL ~> pc[l] = "ok"

\* No login waits for ever on a unique index.
EveryLoginAnswered ==
  \A l \in Login : pc[l] = "find" ~> pc[l] \in Answers

\* What both handlers say of ErrEmailConflict: the address is already used
\* under another identity.
ConflictIsWithAnother ==
  \A l \in Login : pc[l] = "conflict" => owner[prof[l].id] = NULL

-----------------------------------------------------------------------------
\* The refinement: the committed rows, and nothing of the logins in flight.
Promise == INSTANCE Accounts

\* However many logins race, the tables are the accounts of Accounts: one user
\* per identity, one identity per user, one user per address, and neither an
\* identity's user nor a user's address ever changes.
ImplementsAccounts == Promise!Spec
=============================================================================
