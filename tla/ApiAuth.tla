------------------------------ MODULE ApiAuth ------------------------------
(***************************************************************************)
(* The API's access tokens beside its refresh tokens.  An access token is  *)
(* a signed statement about a family that names its own end: GET           *)
(* /api/auth/me asks no table about the family, so revoking the family     *)
(* does not end the access tokens that are out.  IssueAPITokenPair and     *)
(* RotateAPIRefreshToken make one with each refresh token, from the same   *)
(* clock reading, so it is the refresh token that identifies it here.      *)
(*                                                                         *)
(* Simplifications: signatures are ideal; me changes nothing, and finds    *)
(* the user, whom nothing deletes.                                         *)
(***************************************************************************)
EXTENDS RefreshTokens

CONSTANT AccessTTL  \* s.apiAccessTokenTTL

ASSUME AccessAssumption == AccessTTL \in Nat

VARIABLE died  \* history: when a family lost its last live token; NULL: not yet

apiVars == <<vars, died>>

ApiInit == Init /\ died = [f \in Family |-> NULL]

\* Mutant of AccessExpiry: the access token lives as long as the refresh token.
AccessExpiry_Refresh(t) == expiry[t]

\* exp of the access token made with t: now.Add(s.apiAccessTokenTTL).
AccessExpiry(t) == expiry[t] - RefreshTTL + AccessTTL

\* ParseAPIAccessToken, behind requireAPIAuth: the clock must be before exp.
Accepted(t) == clock < AccessExpiry(t)

\* A request of RefreshTokens goes on; a family may die by it.
ApiNext ==
  /\ Next
  /\ died' = [f \in Family |->
       IF LiveIn(f) # {} /\ LiveIn(f)' = {} THEN clock ELSE died[f]]

ApiSpec == ApiInit /\ [][ApiNext]_apiVars

ApiFairSpec == ApiSpec /\ Fairness

-----------------------------------------------------------------------------
(* Properties *)

\* Whatever ended a family (logout, a reuse, both while rotations were in
\* flight), requireAPIAuth lets nobody of it in once AccessTTL is over: no
\* rotation that comes late hands out an access token that outlives it.
AccessEndsWithFamily ==
  \A t \in known : LET end == died[family[t]] IN
    end # NULL /\ clock >= end + AccessTTL => ~Accepted(t)
=============================================================================
