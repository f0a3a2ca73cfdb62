--------------------------- MODULE MCRateLimiter ---------------------------
(* A small instance of RateLimiter for TLC. *)
EXTENDS RateLimiter, TLC

Symmetry == Permutations(Call) \cup Permutations(Key)
=============================================================================
