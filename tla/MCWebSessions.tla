--------------------------- MODULE MCWebSessions ---------------------------
(* Small instances of WebSessions for TLC. *)
EXTENDS WebSessions, TLC

Symmetry == Permutations(Request) \cup Permutations(Token)
=============================================================================
