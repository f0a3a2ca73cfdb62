---------------------------- MODULE RateLimiter ----------------------------
(***************************************************************************)
(* RateLimiter.allow, called by the handlers of many requests at once.  A  *)
(* call reads the clock, waits for the mutex, and only then looks at the   *)
(* buckets, with a reading that is by now in the past.  Every call also    *)
(* drops the buckets that have not been used for two windows.              *)
(*                                                                         *)
(* Scheduling is assumed to delay no call for more than half a window      *)
(* (MaxStale) between its clock reading and the mutex.  The default window *)
(* is a minute.  Without a bound the promise is false: a bucket whose      *)
(* lastSeenAt was set from an old reading is dropped in mid-window.        *)
(***************************************************************************)
EXTENDS Integers

CONSTANTS
  Call,      \* calls of allow that may be in flight together
  Key,       \* scope and client address
  NULL,      \* no key: the call has not begun
  Limit, Window,
  MaxStale,  \* the oldest reading a call may hold when it gets the mutex
  MaxClock   \* bound: the clock stops here

\* NewRateLimiter replaces what is not positive.
ASSUME LimitAssumption == Limit \in Nat \ {0} /\ Window \in Nat \ {0}
ASSUME NullAssumption  == NULL \notin Key
ASSUME StaleAssumption == MaxStale \in Nat /\ 2 * MaxStale <= Window
ASSUME ClockAssumption == MaxClock \in Nat

VARIABLES
  keys,         \* the keys of the map buckets
  start, count, seen,  \* windowStart, count and lastSeenAt, by key; those of
                       \* a key that was dropped stay as history
  pc, key, at,  \* a call: where it is, its key, its clock reading
  retry,        \* the Retry-After a refused call was given
  clock

buckets == <<keys, start, count, seen>>
vars    == <<buckets, pc, key, at, retry, clock>>

Init ==
  /\ keys  = {}
  /\ start = [k \in Key |-> 0]
  /\ count = [k \in Key |-> 0]
  /\ seen  = [k \in Key |-> 0]
  /\ pc    = [c \in Call |-> "idle"]
  /\ key   = [c \in Call |-> NULL]
  /\ at    = [c \in Call |-> 0]
  /\ retry = [c \in Call |-> 0]
  /\ clock = 0

Tick == /\ clock < MaxClock
        /\ \A c \in Call : pc[c] = "waiting" => clock < at[c] + MaxStale
        /\ clock' = clock + 1
        /\ UNCHANGED <<buckets, pc, key, at, retry>>

\* A request of key k calls allow, which reads the clock.
Enter(c, k) ==
  /\ pc[c] = "idle"
  /\ pc'  = [pc EXCEPT ![c] = "waiting"]
  /\ key' = [key EXCEPT ![c] = k]
  /\ at'  = [at EXCEPT ![c] = clock]
  /\ UNCHANGED <<buckets, retry, clock>>

-----------------------------------------------------------------------------
(* With the mutex: cleanupLocked, then one of three outcomes.              *)

\* Mutant of Stale: one window of rest is enough.
Stale_OneWindow(now) == {k \in keys : now - seen[k] >= Window}

Stale(now) == {k \in keys : now - seen[k] >= 2 * Window}

\* Is the bucket found the zero value, or its window over?
Lapsed(k, now) == k \notin keys \ Stale(now) \/ now - start[k] >= Window

OpenWindow(c) ==
  /\ Lapsed(key[c], at[c])
  /\ keys'  = (keys \ Stale(at[c])) \cup {key[c]}
  /\ start' = [start EXCEPT ![key[c]] = at[c]]
  /\ count' = [count EXCEPT ![key[c]] = 1]
  /\ seen'  = [seen EXCEPT ![key[c]] = at[c]]
  /\ pc'    = [pc EXCEPT ![c] = "admitted"]
  /\ UNCHANGED retry

\* Mutant of Full: one too many.
Full_OffByOne(k) == count[k] > Limit

Full(k) == count[k] >= Limit

Count(c) ==
  /\ ~Lapsed(key[c], at[c])
  /\ ~Full(key[c])
  /\ keys'  = keys \ Stale(at[c])
  /\ count' = [count EXCEPT ![key[c]] = @ + 1]
  /\ seen'  = [seen EXCEPT ![key[c]] = at[c]]
  /\ pc'    = [pc EXCEPT ![c] = "admitted"]
  /\ UNCHANGED <<start, retry>>

\* Mutant of RetryAfter: always a whole window.
RetryAfter_Whole(k, now) == Window

RetryAfter(k, now) == Window - (now - start[k])

Refuse(c) ==
  /\ ~Lapsed(key[c], at[c])
  /\ Full(key[c])
  /\ keys'  = keys \ Stale(at[c])
  /\ seen'  = [seen EXCEPT ![key[c]] = at[c]]
  /\ pc'    = [pc EXCEPT ![c] = "refused"]
  /\ retry' = [retry EXCEPT ![c] = RetryAfter(key[c], at[c])]
  /\ UNCHANGED <<start, count>>

Allow(c) ==
  /\ pc[c] = "waiting"
  /\ OpenWindow(c) \/ Count(c) \/ Refuse(c)
  /\ UNCHANGED <<key, at, clock>>

\* The middleware has passed the request on, or has answered 429.
Leave(c) ==
  /\ pc[c] \in {"admitted", "refused"}
  /\ pc'    = [pc EXCEPT ![c] = "idle"]
  /\ key'   = [key EXCEPT ![c] = NULL]
  /\ at'    = [at EXCEPT ![c] = 0]
  /\ retry' = [retry EXCEPT ![c] = 0]
  /\ UNCHANGED <<buckets, clock>>

Next == \/ Tick
        \/ \E c \in Call : Allow(c) \/ Leave(c) \/ \E k \in Key : Enter(c, k)

Spec == Init /\ [][Next]_vars

-----------------------------------------------------------------------------
(* Properties *)

\* Types of the buckets and the calls; a count never passes the limit.
TypeOK ==
  /\ keys  \in SUBSET Key
  /\ start \in [Key -> Nat]
  /\ count \in [Key -> 0..Limit]
  /\ seen  \in [Key -> Nat]
  /\ pc    \in [Call -> {"idle", "waiting", "admitted", "refused"}]
  /\ key   \in [Call -> Key \cup {NULL}]
  /\ at    \in [Call -> Nat]
  /\ retry \in [Call -> Int]
  /\ clock \in 0..MaxClock

\* A refused client is never told to wait past the end of a window, counted
\* from the clock reading that refused it, and always to wait.
RetryAfterBounded ==
  \A c \in Call : pc[c] = "refused" =>
    /\ 0 < retry[c] /\ retry[c] <= Window + MaxStale
    /\ at[c] + retry[c] <= start[key[c]] + Window

\* A key is dropped from the map only when its window is over for every call
\* that waits or may yet come: forgetting it cannot be noticed.
ForgottenIsOver ==
  \A k \in Key \ keys : count[k] > 0 =>
    /\ clock >= start[k] + Window
    /\ \A c \in Call : pc[c] = "waiting" => at[c] >= start[k] + Window

\* What keeps ForgottenIsOver: readings are at most MaxStale old, and so is
\* lastSeenAt behind the window's start.
Freshness ==
  /\ \A c \in Call : pc[c] # "idle" => key[c] \in Key
  /\ \A c \in Call : pc[c] = "waiting" => at[c] <= clock /\ clock <= at[c] + MaxStale
  /\ \A k \in Key : start[k] <= clock
  /\ \A k \in keys : count[k] > 0 /\ start[k] <= seen[k] + MaxStale
  /\ \A k \in Key \ keys : count[k] = 0 => start[k] = 0

\* The inductive invariant of RateLimiterProofs.
Inductive == TypeOK /\ Freshness /\ ForgottenIsOver /\ RetryAfterBounded

Promise == INSTANCE FixedWindow WITH Time <- 0..MaxClock

\* With its clean-up and its stale readings the limiter still admits at most
\* Limit requests of a key in each of a succession of disjoint windows.
ImplementsFixedWindow == Promise!Spec
=============================================================================
