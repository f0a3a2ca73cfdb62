------------------------- MODULE MCServerLifecycle -------------------------
(* A small instance of ServerLifecycle for TLC: integers of 5 and of 3     *)
(* bits, and two units of time to the second.                              *)
EXTENDS ServerLifecycle

TTLDefaults == [session |-> 6, access |-> 1, refresh |-> 6]

Go(n)      == [unit |-> "go", n |-> n]
Seconds(n) == [unit |-> "none", n |-> n]

Plain == [timing     |-> [k \in Timings |-> UNSET],
          secure     |-> UNSET, url |-> "http", production |-> FALSE,
          database   |-> "set", conns |-> 1, driver |-> UNSET, r2 |-> {}]

\* One setting differs from Plain, or a few that belong together.  Half64 is
\* 16 and Half32 is 4, so 9 seconds, and 4 or 9 connections, are wrapped.
SmallEnvs ==
  {[Plain EXCEPT !.conns = n] : n \in {UNSET, BAD, -1, 0, 1, 2, 4, 7, 8, 9}} \cup
  {[Plain EXCEPT !.timing.shutdown = d] :
     d \in {BAD, Go(-1), Go(0), Go(1), Go(16), Seconds(1), Seconds(15)}} \cup
  {[Plain EXCEPT !.timing[k] = d] :
     k \in TTLs, d \in {BAD, Go(0), Seconds(1), Seconds(9), Seconds(-9)}} \cup
  {[Plain EXCEPT !.production = TRUE, !.url = u] : u \in {UNSET, BAD, "http", "https"}} \cup
  {[Plain EXCEPT !.driver = d, !.r2 = c] :
     d \in {"local", "r2", "other"}, c \in {{}, Credentials, Credentials \ {"bucket"}}} \cup
  {[Plain EXCEPT !.database = UNSET], [Plain EXCEPT !.secure = BAD]}

=============================================================================
