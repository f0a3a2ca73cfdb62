------------------------- MODULE RateLimiterProofs -------------------------
(***************************************************************************)
(* The rate limiter keeps its promise for any number of calls and keys,    *)
(* any limit and any window, while no call is delayed for more than half a *)
(* window between its clock reading and the mutex (StaleAssumption).       *)
(***************************************************************************)
EXTENDS RateLimiter, TLAPS

\* At the start no key has a bucket and no call has begun.
LEMMA InductiveInit == Init => Inductive
BY NullAssumption, LimitAssumption, ClockAssumption
   DEF Init, Inductive, TypeOK, Freshness, ForgottenIsOver, RetryAfterBounded

\* What a call with the mutex may assume: a key that has no bucket, or whose
\* bucket it drops, has had its last window.
LEMMA DroppedIsOver ==
  ASSUME Inductive, NEW c \in Call, pc[c] = "waiting",
         NEW k \in Key, k \notin keys \ Stale(at[c]), count[k] > 0
  PROVE  /\ clock >= start[k] + Window
         /\ \A d \in Call : pc[d] = "waiting" => at[d] >= start[k] + Window
BY LimitAssumption, StaleAssumption
   DEF Inductive, TypeOK, Freshness, ForgottenIsOver, Stale

\* The types and the bounds of the clock readings survive every step, and no
\* key is forgotten in mid-window.
LEMMA InductiveStep == Inductive /\ [Next]_vars => Inductive'
<1> SUFFICES ASSUME Inductive, [Next]_vars PROVE Inductive'
    OBVIOUS
<1> USE LimitAssumption, StaleAssumption, NullAssumption, ClockAssumption
<1>1. CASE UNCHANGED vars
      BY <1>1 DEF vars, buckets, Inductive, TypeOK, Freshness, ForgottenIsOver,
                  RetryAfterBounded
<1>2. CASE Tick
      BY <1>2 DEF Tick, buckets, Inductive, TypeOK, Freshness, ForgottenIsOver,
                  RetryAfterBounded
<1>3. ASSUME NEW c \in Call, NEW k \in Key, Enter(c, k) PROVE Inductive'
      BY <1>3 DEF Enter, buckets, Inductive, TypeOK, Freshness, ForgottenIsOver,
                  RetryAfterBounded
<1>4. ASSUME NEW c \in Call, Leave(c) PROVE Inductive'
      BY <1>4 DEF Leave, buckets, Inductive, TypeOK, Freshness, ForgottenIsOver,
                  RetryAfterBounded
<1>5. ASSUME NEW c \in Call, Allow(c) PROVE Inductive'
  <2>1. /\ pc[c] = "waiting" /\ UNCHANGED <<key, at, clock>>
        /\ key[c] \in Key /\ at[c] \in Nat /\ clock \in Nat
        /\ at[c] <= clock /\ clock <= at[c] + MaxStale
        BY <1>5 DEF Allow, Inductive, TypeOK, Freshness
  <2>2. \A k \in Key : k \notin keys \ Stale(at[c]) /\ count[k] > 0 =>
          /\ clock >= start[k] + Window
          /\ \A d \in Call : pc[d] = "waiting" => at[d] >= start[k] + Window
        BY <2>1, DroppedIsOver
  <2>3. CASE OpenWindow(c)
    <3>1. TypeOK'
          BY <2>1, <2>3 DEF OpenWindow, Inductive, TypeOK
    <3>2. Freshness'
          BY <2>1, <2>3 DEF OpenWindow, Inductive, TypeOK, Freshness
    <3>3. ForgottenIsOver'
          BY <2>1, <2>2, <2>3 DEF OpenWindow, Inductive, TypeOK, ForgottenIsOver
    <3>4. RetryAfterBounded'
          BY <2>1, <2>2, <2>3 DEF OpenWindow, Lapsed, Inductive, TypeOK,
                                  Freshness, RetryAfterBounded
    <3> QED
        BY <3>1, <3>2, <3>3, <3>4 DEF Inductive
  <2>4. CASE Count(c)
    <3>1. TypeOK' /\ Freshness'
          BY <2>1, <2>4 DEF Count, Full, Lapsed, Inductive, TypeOK, Freshness
    <3>2. ForgottenIsOver'
          BY <2>1, <2>2, <2>4 DEF Count, Lapsed, Inductive, TypeOK, ForgottenIsOver
    <3>3. RetryAfterBounded'
          BY <2>1, <2>4 DEF Count, Inductive, TypeOK, RetryAfterBounded
    <3> QED
        BY <3>1, <3>2, <3>3 DEF Inductive
  <2>5. CASE Refuse(c)
    <3>1. TypeOK' /\ Freshness'
          BY <2>1, <2>5 DEF Refuse, RetryAfter, Inductive, TypeOK, Freshness
    <3>2. ForgottenIsOver'
          BY <2>1, <2>2, <2>5 DEF Refuse, Inductive, TypeOK, ForgottenIsOver
    <3>3. RetryAfterBounded'
          BY <2>1, <2>5 DEF Refuse, RetryAfter, Lapsed, Inductive, TypeOK,
                            Freshness, RetryAfterBounded
    <3> QED
        BY <3>1, <3>2, <3>3 DEF Inductive
  <2> QED
      BY <1>5, <2>3, <2>4, <2>5 DEF Allow
<1> QED
    BY <1>1, <1>2, <1>3, <1>4, <1>5 DEF Next

\* The inductive invariant of the buckets and the calls.
THEOREM InductiveInvariant == Spec => []Inductive
BY InductiveInit, InductiveStep, PTL DEF Spec

\* cleanupLocked never drops a bucket whose window some call could still be
\* counted in.
THEOREM CleanupGoesUnnoticed == Spec => []ForgottenIsOver
BY InductiveInvariant, PTL DEF Inductive

\* Retry-After never exceeds what is left of a window.
THEOREM RetryAfterIsBounded == Spec => []RetryAfterBounded
BY InductiveInvariant, PTL DEF Inductive

-----------------------------------------------------------------------------
\* Every step of the limiter is one of FixedWindow, or invisible to it: an
\* admission opens a window that does not overlap the last, or joins it.
LEMMA RefinementStep ==
  Inductive /\ [Next]_vars => [Promise!Next]_(Promise!vars)
<1> SUFFICES ASSUME Inductive, [Next]_vars
             PROVE  Promise!Next \/ UNCHANGED <<start, count>>
    BY DEF Promise!vars
<1> USE LimitAssumption DEF Inductive, TypeOK, Freshness
<1>1. CASE UNCHANGED vars
      BY <1>1 DEF vars, buckets
<1>2. CASE Tick
      BY <1>2 DEF Tick, buckets
<1>3. ASSUME NEW c \in Call, Leave(c) \/ \E k \in Key : Enter(c, k)
      PROVE  UNCHANGED <<start, count>>
      BY <1>3 DEF Leave, Enter, buckets
<1>4. ASSUME NEW c \in Call, Allow(c)
      PROVE  Promise!Next \/ UNCHANGED <<start, count>>
  <2>1. /\ pc[c] = "waiting" /\ key[c] \in Key
        /\ at[c] \in 0..MaxClock /\ start[key[c]] \in Nat
        BY <1>4, ClockAssumption DEF Allow
  <2>2. CASE OpenWindow(c)
    <3>1. count[key[c]] = 0 \/ at[c] >= start[key[c]] + Window
          BY <2>1, <2>2, DroppedIsOver DEF OpenWindow, Lapsed
    <3>2. Promise!Open(key[c], at[c])
          BY <2>2, <3>1 DEF OpenWindow, Promise!Open
    <3> QED
        BY <2>1, <3>2 DEF Promise!Next
  <2>3. CASE Count(c)
    <3>1. key[c] \in keys /\ ~Full(key[c])
          BY <2>1, <2>3 DEF Count, Lapsed
    <3>2. Promise!Join(key[c])
          BY <2>1, <2>3, <3>1 DEF Count, Full, Promise!Join
    <3> QED
        BY <2>1, <3>2 DEF Promise!Next
  <2>4. CASE Refuse(c)
        BY <2>4 DEF Refuse
  <2> QED
      BY <1>4, <2>2, <2>3, <2>4 DEF Allow
<1> QED
    BY <1>1, <1>2, <1>3, <1>4 DEF Next

\* The limiter, with stale readings and with its clean-up, implements
\* disjoint windows of at most Limit admissions.
THEOREM Refinement == Spec => ImplementsFixedWindow
<1>1. Init => Promise!Init
      BY DEF Init, Promise!Init
<1> QED
    BY <1>1, RefinementStep, InductiveInvariant, PTL
       DEF Spec, ImplementsFixedWindow, Promise!Spec
=============================================================================
