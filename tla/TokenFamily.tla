---------------------------- MODULE TokenFamily ----------------------------
(***************************************************************************)
(* What the API refresh tokens promise, with no database, no locks and no  *)
(* requests in flight: a login opens a family with one live token, each    *)
(* refresh trades the live token of a family for one never issued before,  *)
(* and a family that has lost its live token never has one again.          *)
(***************************************************************************)
CONSTANTS Token,    \* the refresh tokens that may ever be drawn
          Family    \* the login families

VARIABLES live,     \* live[f]: the tokens a refresh of family f would accept
          issued    \* issued[f]: every token family f ever had

vars == <<live, issued>>

Issued == UNION {issued[f] : f \in Family}

Init == /\ live   = [f \in Family |-> {}]
        /\ issued = [f \in Family |-> {}]

\* A login opens a family that had no token.
Open(f, t) == /\ issued[f] = {}
              /\ t \notin Issued
              /\ live'   = [live EXCEPT ![f] = {t}]
              /\ issued' = [issued EXCEPT ![f] = {t}]

\* A refresh trades the live token for a new one.
Rotate(f, t) == /\ live[f] # {}
                /\ t \notin Issued
                /\ live'   = [live EXCEPT ![f] = {t}]
                /\ issued' = [issued EXCEPT ![f] = @ \cup {t}]

\* A logout or a detected reuse ends the family.
Close(f) == /\ live[f] # {}
            /\ live' = [live EXCEPT ![f] = {}]
            /\ UNCHANGED issued

Next == \E f \in Family : \/ \E t \in Token : Open(f, t) \/ Rotate(f, t)
                          \/ Close(f)

Spec == Init /\ [][Next]_vars
=============================================================================
