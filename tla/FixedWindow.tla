---------------------------- MODULE FixedWindow ----------------------------
(***************************************************************************)
(* What the rate limiter promises of one key: windows that do not overlap, *)
(* and at most Limit admissions in each.  Nothing is ever forgotten here.  *)
(***************************************************************************)
EXTENDS Integers

CONSTANTS Key, Limit, Window,
          Time  \* the instants a clock may read

VARIABLES start,  \* start[k]: when the latest window of k opened
          count   \* count[k]: the admissions in it; 0: k has had no window

vars == <<start, count>>

Init == /\ start = [k \in Key |-> 0]
        /\ count = [k \in Key |-> 0]

\* An admission opens a window, once the one before is over.
Open(k, at) == /\ count[k] = 0 \/ at >= start[k] + Window
               /\ start' = [start EXCEPT ![k] = at]
               /\ count' = [count EXCEPT ![k] = 1]

\* An admission joins the window that is open.
Join(k) == /\ 0 < count[k] /\ count[k] < Limit
           /\ count' = [count EXCEPT ![k] = @ + 1]
           /\ UNCHANGED start

Next == \E k \in Key : Join(k) \/ \E at \in Time : Open(k, at)

Spec == Init /\ [][Next]_vars
=============================================================================
