------------------------------- MODULE Config -------------------------------
(***************************************************************************)
(* config.Load: from the environment to a configuration or an error, and   *)
(* what Connect makes of the pool's size.  Pure operators, with the widths *)
(* of Go's integers: numbers are parsed as int (64 bits); seconds are      *)
(* multiplied as int64 and connections converted to int32, both silently.  *)
(*                                                                         *)
(* Simplifications: a value is trimmed and, if empty, unset; names, client *)
(* ids and paths are copied and have no part here.  LOCAL_STORAGE_DIR is   *)
(* never empty, because an empty value leaves its default.                 *)
(***************************************************************************)
EXTENDS Integers

CONSTANTS
  UNSET, BAD,       \* no value; a value that does not parse
  Second,           \* time.Second, in nanoseconds
  Half64, Half32,   \* 2^63 and 2^31
  DefaultTTL,       \* of sessions, access tokens and refresh tokens
  DefaultShutdown, DefaultConns,
  DriverConns       \* the pool size of pgxpool when none is given

ASSUME WidthAssumption ==
  {Second, Half64, Half32} \subseteq Nat \ {0} /\ Half32 <= Half64
ASSUME DefaultsAssumption ==
  /\ DefaultTTL \in [{"session", "access", "refresh"} -> Nat \ {0}]
  /\ {DefaultShutdown, DefaultConns, DriverConns} \subseteq Nat \ {0}

ASSUME BadAssumption == BAD \notin Int

TTLs        == {"session", "access", "refresh"}
Timings     == TTLs \cup {"shutdown", "lifetime", "idle"}
Credentials == {"endpoint", "key", "secret", "bucket", "base"}

\* What the process may find in its environment: a duration is a number with
\* or without a unit.
WellFormed(e) ==
  /\ \A k \in Timings :
       e.timing[k] \in {UNSET, BAD} \cup [unit : {"go", "none"}, n : Int]
  /\ e.conns \in {UNSET, BAD} \cup Int

\* The values of a signed integer type, and what the others are wrapped to.
Signed(half)  == -half .. half - 1
Wrap(n, half) == ((n + half) % (2 * half)) - half

-----------------------------------------------------------------------------
\* A duration with a unit, or a bare number of seconds.
ParseDuration(v) ==
  IF v = BAD \/ v.n \notin Signed(Half64)
    THEN BAD
    ELSE IF v.unit = "go" THEN v.n ELSE Wrap(v.n * Second, Half64)

Timing(e, k, default) ==
  IF e.timing[k] = UNSET THEN default ELSE ParseDuration(e.timing[k])

\* Mutant of TTL: whatever was parsed is taken.
TTL_Unchecked(e, k) == Timing(e, k, DefaultTTL[k])

\* A lifetime that is not positive is replaced by its default.
TTL(e, k) == LET d == Timing(e, k, DefaultTTL[k]) IN
               IF d <= 0 THEN DefaultTTL[k] ELSE d

\* Load returns no error.  (The default address is http.)
Valid(e) ==
  /\ \A k \in Timings : e.timing[k] # UNSET => ParseDuration(e.timing[k]) # BAD
  /\ e.secure # BAD
  /\ e.url # BAD
  /\ e.production => e.url = "https"
  /\ e.database # UNSET
  /\ e.conns = UNSET \/ (e.conns # BAD /\ e.conns \in 1 .. Half64 - 1)
  /\ \/ e.driver \in {UNSET, "local"}
     \/ e.driver = "r2" /\ e.r2 = Credentials

\* The configuration Load returns.
Load(e) ==
  [ttl        |-> [k \in TTLs |-> TTL(e, k)],
   shutdown   |-> Timing(e, "shutdown", DefaultShutdown),
   conns      |-> IF e.conns = UNSET THEN DefaultConns ELSE Wrap(e.conns, Half32),
   production |-> e.production,
   https      |-> e.url = "https",
   driver     |-> IF e.driver = UNSET THEN "local" ELSE e.driver,
   r2         |-> e.r2]

-----------------------------------------------------------------------------
\* Mutant of PoolSize: the configured size is taken as it is.
PoolSize_Unchecked(c) == c.conns

\* Connect: a size that is not positive is left to the driver.
PoolSize(c) == IF c.conns > 0 THEN c.conns ELSE DriverConns
=============================================================================
