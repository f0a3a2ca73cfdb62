-------------------------- MODULE MCRefreshTokens --------------------------
(* Small instances of RefreshTokens for TLC. *)
EXTENDS RefreshTokens, TLC

\* Tokens, requests and families are only compared for equality.
Symmetry == Permutations(Request) \cup Permutations(Token) \cup Permutations(Family)
=============================================================================
