------------------------------- MODULE MCCsrf -------------------------------
(* A small instance of Csrf for TLC: no symmetry, which liveness excludes. *)
EXTENDS Csrf
=============================================================================
