------------------------------ MODULE Accounts ------------------------------
(***************************************************************************)
(* What signing in through a provider promises, with no transactions and   *)
(* no logins in flight: an identity gets an account of its own the first   *)
(* time it is seen, together with the address it reports unless another    *)
(* account has it, and keeps both for ever.                                *)
(***************************************************************************)
CONSTANTS Identity,  \* (provider, provider_user_id) pairs
          Email,
          User,      \* the accounts that may ever be made
          NULL       \* no account; no address

VARIABLES owner,     \* owner[i]: the account of identity i
          mail       \* mail[u]: the address of account u

vars == <<owner, mail>>

Made == {owner[i] : i \in Identity} \ {NULL}

Taken(e) == \E u \in Made : mail[u] = e

Init == /\ owner = [i \in Identity |-> NULL]
        /\ mail  = [u \in User |-> NULL]

\* A first sign-in: null addresses are all different.
Create(i, u, e) == /\ owner[i] = NULL
                   /\ u \notin Made
                   /\ e = NULL \/ ~Taken(e)
                   /\ owner' = [owner EXCEPT ![i] = u]
                   /\ mail'  = [mail EXCEPT ![u] = e]

Next == \E i \in Identity, u \in User, e \in Email \cup {NULL} : Create(i, u, e)

Spec == Init /\ [][Next]_vars
=============================================================================
