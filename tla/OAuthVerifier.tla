--------------------------- MODULE OAuthVerifier ---------------------------
(***************************************************************************)
(* socialVerifier: from the answers of a provider to a profile, or NULL    *)
(* for a login that failed.  Pure operators.                               *)
(*                                                                         *)
(* An answer is a status and a body; a body may be missing, may not decode *)
(* or is what it says.  Simplifications: values are trimmed and in lower   *)
(* case; name, handle and picture are copied and left out; the code, the   *)
(* client id and its secret are there, as the handlers see to.             *)
(***************************************************************************)
LOCAL INSTANCE Naturals
LOCAL INSTANCE Sequences

CONSTANTS NULL,            \* no value, and the zero value of a string
          EMPTY, GARBLED,  \* bodies: nothing; what does not decode
          OURS             \* aud: our client id

Success == {"200", "2xx"}  \* and "other" for the rest, and for no answer

\* doJSON and the test of the status after it: what is decoded, or NULL.
Decoded(answer, good, zero) ==
  CASE answer.status \notin good -> NULL
    [] answer.status \in good /\ answer.body = GARBLED -> NULL
    [] answer.status \in good /\ answer.body = EMPTY   -> zero
    [] OTHER -> answer.body

Tokens(answer) == Decoded(answer, Success, [id |-> NULL, access |-> NULL])

Truthy(v) == v \in {"true", "1"}

Google(token, info) ==
  LET t == Tokens(token)
      c == Decoded(info, {"200"}, [sub |-> NULL, aud |-> NULL])
  IN IF \/ t = NULL
        \/ t.id = NULL /\ t.access = NULL
        \/ c = NULL
        \/ c.sub = NULL
        \/ c.aud # OURS
        \/ c.iss # "google"
       THEN NULL
       ELSE [id |-> c.sub, email |-> c.email, verified |-> Truthy(c.verified)]

-----------------------------------------------------------------------------
Address(e) == [email |-> e, verified |-> e # NULL]

Verified(list) == {i \in 1..Len(list) : list[i].verified}
Primary(list)  == {i \in 1..Len(list) : list[i].primary}

First(places) == CHOOSE i \in places : \A j \in places : i <= j

\* Mutant of Pick: the primary address is taken as it is.
Pick_Unverified(public, list) ==
  CASE Primary(list) # {} -> Address(list[First(Primary(list))].email)
    [] Primary(list) = {} /\ (public # NULL \/ Verified(list) = {}) -> Address(public)
    [] OTHER -> Address(list[First(Verified(list))].email)

\* The primary address if it is verified, else the public one, which counts as
\* verified, else the first that is.
Pick(public, list) ==
  LET main == Primary(list) \cap Verified(list)
  IN CASE main # {} -> Address(list[First(main)].email)
       [] main = {} /\ (public # NULL \/ Verified(list) = {}) -> Address(public)
       [] OTHER -> Address(list[First(Verified(list))].email)

\* The third request may fail: then the public address has to do.
GitHub(token, account, emails) ==
  LET t == Tokens(token)
      u == Decoded(account, {"200"}, [id |-> NULL])
      l == Decoded(emails, {"200"}, <<>>)
  IN IF t = NULL \/ t.access = NULL \/ u = NULL \/ u.id = NULL
       THEN NULL
       ELSE LET a == Pick(u.email, IF l = NULL THEN <<>> ELSE l)
            IN [id |-> u.id, email |-> a.email, verified |-> a.verified]
=============================================================================
