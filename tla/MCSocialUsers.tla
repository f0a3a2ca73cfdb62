--------------------------- MODULE MCSocialUsers ---------------------------
(* Small instances of SocialUsers for TLC. *)
EXTENDS SocialUsers, TLC

CONSTANTS google, github, e1, e2, n1, n2

Reported(i, e, v, n) == [id |-> i, email |-> e, verified |-> v, name |-> n]

\* Two people, one address between them; one has a second address, one may
\* hide his, and names change.
SharedAddress ==
  {Reported(google, e1, TRUE, n1), Reported(google, e2, TRUE, n2),
   Reported(github, e1, TRUE, n1), Reported(github, e1, FALSE, NULL),
   Reported(github, NULL, FALSE, n1)}

\* One person who signs in with one provider.
OnePerson == {Reported(google, e1, TRUE, n1)}

Symmetry == Permutations(Login) \cup Permutations(User)
=============================================================================
