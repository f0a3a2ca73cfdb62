----------------------------- MODULE MCApiAuth -----------------------------
(* Small instances of ApiAuth for TLC. *)
EXTENDS ApiAuth, TLC
=============================================================================
