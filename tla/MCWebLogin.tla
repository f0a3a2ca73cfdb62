---------------------------- MODULE MCWebLogin -----------------------------
(* A small instance of WebLogin for TLC. *)
EXTENDS WebLogin, TLC

CONSTANTS g, h, e1, e2  \* one person at Google, one at GitHub; two addresses

IdentityProvider == g :> "google" @@ h :> "github"

OK(body) == [status |-> "200", body |-> body]
Silence  == [status |-> "other", body |-> EMPTY]
Token    == OK([id |-> NULL, access |-> "t"])

Claims(email, truth) ==
  [sub |-> g, email |-> email, verified |-> truth, aud |-> OURS, iss |-> "google"]
Entry(e, main, sure) == [email |-> e, primary |-> main, verified |-> sure]

GoogleSays ==
  {[token |-> Token, info |-> i] :
     i \in {OK(Claims(e1, "true")), OK(Claims(NULL, "other")), OK(EMPTY),
            OK([Claims(e1, "1") EXCEPT !.aud = NULL])}}

GitHub(token, public, list) ==
  [token |-> token, account |-> OK([id |-> h, email |-> public]), emails |-> list]

GitHubSays ==
  {GitHub(t, NULL, Silence) : t \in {OK(GARBLED), [Token EXCEPT !.status = "2xx"]}} \cup
  {GitHub(Token, public, OK(list)) :
     public \in {NULL, e2},
     list \in {<<Entry(e1, TRUE, FALSE), Entry(e2, FALSE, TRUE)>>,
               <<Entry(e2, FALSE, TRUE), Entry(e1, TRUE, TRUE)>>,
               <<Entry(e1, TRUE, FALSE)>>}}

Said == g :> GoogleSays @@ h :> GitHubSays

Symmetry == Permutations(Request) \cup Permutations(State) \cup
            Permutations(Code) \cup Permutations(User)
=============================================================================
