----------------------- MODULE ServerLifecycleProofs -----------------------
(***************************************************************************)
(* What the life of the process guarantees for any environment, any widths *)
(* of the integers, and any number of requests: the configuration that is  *)
(* accepted can be used, and a request is cut off only where it has to be. *)
(***************************************************************************)
EXTENDS ServerLifecycle, TLAPS

\* main runs with what Load returned.
Configured == {"connect", "storage", "select", "drain", "close"}

Loaded ==
  /\ env \in Envs
  /\ main \in Configured \/ pool # "none" => Valid(env) /\ cfg = Load(env)

\* How far main is tells what it has opened, and how the process ended.
Progress ==
  /\ main = "exited" <=> status # "running"
  /\ main \in {"config", "connect", "storage"} <=> listener = "none" /\ main # "exited"
  /\ main \in {"drain", "close"} \/ status = "ok" => signalled
  /\ pool = "open" \/ main \in {"config", "connect", "exited"}
  /\ pool = "closed" <=> status = "ok"

\* Nobody is served before the listener is open, and nobody is left when it is
\* time to close the pool or when the process has ended.
Serving ==
  /\ clock \in Nat
  /\ \A r \in Request : since[r] <= clock
  /\ main = "close" \/ main = "exited" \/ listener \in {"none", "starting"} => Busy = {}
  /\ listener \in {"starting", "open"} => main = "select"

\* The limit of the shutdown, counted from a moment no request came after.
Limit ==
  /\ deadline # NULL =>
       /\ deadline \in Int /\ cfg.shutdown \in Int
       /\ listener \in {"closed", "failed"}
       /\ main \in {"drain", "close", "exited"}
       /\ \A r \in Request : deadline >= since[r] + cfg.shutdown
  /\ main = "drain" => deadline # NULL

Inductive == TypeOK /\ Loaded /\ Progress /\ Serving /\ Limit /\ CutOffOnlyAtTheLimit

-----------------------------------------------------------------------------
(* What Load returns *)

\* A duration that parses is a number, also where the seconds were wrapped.
LEMMA ParsedIsNumber ==
  ASSUME NEW v \in {BAD} \cup [unit : {"go", "none"}, n : Int]
  PROVE  ParseDuration(v) \in Int \cup {BAD}
<1>1. CASE v = BAD \/ v.n \notin Signed(Half64) \/ v.unit = "go"
      BY <1>1 DEF ParseDuration
<1>2. CASE v # BAD /\ v.n \in Signed(Half64) /\ v.unit = "none"
  <2>1. ParseDuration(v) = Wrap(v.n * Second, Half64)
        BY <1>2 DEF ParseDuration
  <2>2. v.n * Second + Half64 \in Int /\ 2 * Half64 \in Nat \ {0} /\ Half64 \in Int
        BY <1>2, WidthAssumption
  <2>3. (v.n * Second + Half64) % (2 * Half64) \in Int
        BY <2>2
  <2> QED
      BY <2>1, <2>2, <2>3 DEF Wrap
<1> QED
    BY <1>1, <1>2

\* A configuration that is accepted can be used, whatever was wrapped on the way.
LEMMA LoadedIsUsable ==
  ASSUME NEW e \in Envs, Valid(e)
  PROVE  /\ \A k \in TTLs : Load(e).ttl[k] > 0
         /\ Load(e).shutdown \in Int
         /\ PoolSize(Load(e)) > 0
         /\ Load(e).production => Load(e).https
         /\ Load(e).driver = "r2" => Load(e).r2 = Credentials
<1>1. WellFormed(e)
      BY EnvAssumption
<1>2. ASSUME NEW k \in Timings, NEW d \in Int PROVE Timing(e, k, d) \in Int
      BY <1>1, <1>2, ParsedIsNumber DEF WellFormed, Timing, Valid
<1>3. ASSUME NEW k \in TTLs PROVE Load(e).ttl[k] > 0
  <2>1. DefaultTTL[k] \in Nat \ {0} /\ k \in Timings
        BY <1>3, DefaultsAssumption DEF TTLs, Timings
  <2>2. Timing(e, k, DefaultTTL[k]) \in Int
        BY <1>2, <2>1
  <2>3. Load(e).ttl[k] = TTL(e, k)
        BY <1>3 DEF Load
  <2> QED
      BY <2>1, <2>2, <2>3 DEF TTL
<1>4. Load(e).shutdown \in Int
  <2>1. "shutdown" \in Timings /\ DefaultShutdown \in Int
        BY DefaultsAssumption DEF Timings
  <2>2. Timing(e, "shutdown", DefaultShutdown) \in Int
        BY <1>2, <2>1
  <2> QED
      BY <2>2 DEF Load
<1>5. PoolSize(Load(e)) > 0
  <2>1. DefaultConns \in Int /\ DriverConns \in Nat \ {0}
        BY DefaultsAssumption
  <2>2. Load(e).conns \in Int
    <3>1. CASE e.conns = UNSET
          BY <2>1, <3>1 DEF Load
    <3>2. CASE e.conns # UNSET
      <4>1. Load(e).conns = Wrap(e.conns, Half32) /\ e.conns \in Int
            BY <1>1, <3>2 DEF Load, WellFormed, Valid
      <4>2. e.conns + Half32 \in Int /\ 2 * Half32 \in Nat \ {0} /\ Half32 \in Int
            BY <4>1, WidthAssumption
      <4>3. (e.conns + Half32) % (2 * Half32) \in Int
            BY <4>2
      <4> QED
          BY <4>1, <4>2, <4>3 DEF Wrap
    <3> QED
        BY <3>1, <3>2
  <2> QED
      BY <2>1, <2>2 DEF PoolSize
<1> QED
    BY <1>3, <1>4, <1>5 DEF Load, Valid

-----------------------------------------------------------------------------
(* The steps *)

\* The server starts with nobody to serve.
LEMMA InductiveInit == Init => Inductive
<1> SUFFICES ASSUME Init PROVE Inductive
    OBVIOUS
<1>1. Busy = {}
      BY DEF Init, Busy, Active, Working
<1>2. TypeOK
      BY DEF Init, TypeOK
<1>3. Loaded /\ Progress /\ Serving
      BY <1>1 DEF Init, Loaded, Configured, Progress, Serving
<1>4. Limit /\ CutOffOnlyAtTheLimit
      BY DEF Init, Limit, CutOffOnlyAtTheLimit
<1> QED
    BY <1>2, <1>3, <1>4 DEF Inductive

\* A step of a request.
Serve(r) == Accept(r) \/ Acquire(r) \/ Finish(r) \/ GiveUp(r) \/ Answer(r)

\* A request is served within the pool that was opened for it.
LEMMA ServeStep ==
  ASSUME Inductive, NEW r \in Request, Serve(r) PROVE Inductive'
<1> USE DEF Inductive
<1>1. /\ UNCHANGED <<process, clock>>
      /\ \E what \in {"none"} \cup Active : pc' = [pc EXCEPT ![r] = what]
      /\ listener = "open" \/ pc[r] \in Active
      BY DEF Serve, Accept, Acquire, Finish, GiveUp, Answer, Goto, Active, Working
<1>2. \/ UNCHANGED since
      \/ since' = [since EXCEPT ![r] = clock] /\ listener = "open"
      BY DEF Serve, Accept, Acquire, Finish, GiveUp, Answer, Goto
<1>3. main \notin {"close", "exited"} /\ listener \notin {"none", "starting"}
      BY <1>1 DEF Serving, Busy
<1>4. TypeOK'
      BY <1>1, <1>2 DEF TypeOK, process, Serving
<1>5. Loaded' /\ Progress'
      BY <1>1 DEF Loaded, Progress, process
<1>6. Serving'
      BY <1>1, <1>2, <1>3 DEF Serving, TypeOK, process
<1>7. Limit'
      BY <1>1, <1>2 DEF Limit, TypeOK, process
<1>8. CutOffOnlyAtTheLimit'
  <2>1. ASSUME NEW q \in Request, pc'[q] = "cut"
        PROVE  pc[q] = "cut" /\ since'[q] = since[q]
    <3>1. q # r
          BY <1>1, <2>1 DEF TypeOK, Active, Working
    <3> QED
        BY <1>1, <1>2, <2>1, <3>1 DEF TypeOK
  <2> QED
      BY <1>1, <2>1 DEF CutOffOnlyAtTheLimit, process
<1> QED
    BY <1>4, <1>5, <1>6, <1>7, <1>8

\* Time passes.
LEMMA TickStep == ASSUME Inductive, Tick PROVE Inductive'
<1> USE DEF Inductive
<1>1. UNCHANGED <<process, pc, since>> /\ clock' = clock + 1
      BY DEF Tick
<1>2. TypeOK' /\ Loaded' /\ Progress' /\ Limit'
      BY <1>1 DEF TypeOK, Loaded, Progress, Limit, process
<1>3. Serving'
      BY <1>1 DEF Serving, TypeOK, Busy, process
<1>4. CutOffOnlyAtTheLimit'
      BY <1>1 DEF CutOffOnlyAtTheLimit, Limit, Serving, process
<1> QED
    BY <1>2, <1>3, <1>4

\* Whatever main does, no request begins or goes on by it.
LEMMA MainStep ==
  ASSUME Inductive, UNCHANGED <<env, pc, since, clock>>,
         TypeOK', Loaded', Progress', Limit',
         main' = "close" => Busy = {},
         main' # "exited",
         listener' \in {"none", "starting"} => listener \in {"none", "starting"},
         listener' \in {"starting", "open"} => main' = "select",
         status' = status,
         deadline # NULL => deadline' = deadline /\ cfg' = cfg,
         listener = "failed" => listener' = "failed"
  PROVE  Inductive'
<1>1. Busy' = Busy
      BY DEF Busy
<1>2. Serving'
      BY <1>1 DEF Inductive, Serving
<1>3. CutOffOnlyAtTheLimit'
      BY DEF Inductive, CutOffOnlyAtTheLimit
<1> QED
    BY <1>2, <1>3 DEF Inductive

\* The process ends where nobody is served, the listener failed or the limit is
\* over.
LEMMA ExitStep ==
  ASSUME Inductive, NEW how \in {"killed", "fatal", "ok"}, Exit(how), UNCHANGED cfg,
         main # "exited",
         IF how = "ok" THEN main = "close" /\ pool' = "closed" ELSE UNCHANGED pool,
         main = "select" => listener = "failed" /\ how = "fatal",
         main = "drain" => clock >= deadline /\ how = "fatal"
  PROVE  Inductive'
<1> USE DEF Inductive
<1>1. /\ main' = "exited" /\ status' = how
      /\ UNCHANGED <<env, signalled, listener, deadline, since, clock>>
      /\ pc' = [r \in Request |-> IF r \in Busy THEN "cut" ELSE pc[r]]
      BY DEF Exit
<1>2. TypeOK'
      BY <1>1 DEF TypeOK
<1>3. Loaded'
      BY <1>1 DEF Loaded, Progress, Configured, TypeOK
<1>4. Progress'
      BY <1>1 DEF Progress, TypeOK
<1>5. Serving'
  <2>1. Busy' = {}
        BY <1>1 DEF Busy, Active, Working
  <2>2. listener \notin {"starting", "open"}
        BY DEF Serving, Progress
  <2> QED
      BY <1>1, <2>1, <2>2 DEF Serving
<1>6. Limit'
      BY <1>1 DEF Limit, TypeOK
<1>7. CutOffOnlyAtTheLimit'
  <2> SUFFICES ASSUME NEW r \in Request, pc'[r] = "cut"
               PROVE  /\ status' = "fatal"
                      /\ listener' # "failed" =>
                           /\ deadline' # NULL /\ clock' >= deadline'
                           /\ deadline' >= since'[r] + cfg'.shutdown
      BY DEF CutOffOnlyAtTheLimit
  <2>1. CASE pc[r] = "cut"
        BY <1>1, <2>1 DEF CutOffOnlyAtTheLimit, Progress
  <2>2. CASE r \in Busy
    <3>1. main \in {"select", "drain"}
          BY <2>2 DEF Serving, Progress, TypeOK
    <3> QED
        BY <1>1, <3>1 DEF Limit
  <2> QED
      BY <1>1, <2>1, <2>2
<1> QED
    BY <1>2, <1>3, <1>4, <1>5, <1>6, <1>7

\* The steps of main that do not end the process.
LEMMA StartStep ==
  ASSUME Inductive, Start \/ BeginShutdown \/ Drained \/ AcceptFails, main' # "exited"
  PROVE  Inductive'
<1> USE DEF Inductive
<1>1. ASSUME LoadConfig PROVE Inductive'
  <2>1. /\ Valid(env) /\ cfg' = Load(env) /\ main = "config" /\ main' = "connect"
        /\ UNCHANGED <<env, status, signalled, listener, pool, deadline, pc, since, clock>>
        BY <1>1 DEF LoadConfig, Exit
  <2>2. TypeOK' /\ Loaded' /\ Progress' /\ Limit'
        BY <2>1 DEF TypeOK, Loaded, Configured, Progress, Limit
  <2> QED
      BY <2>1, <2>2, MainStep DEF Limit, Progress
<1>2. ASSUME Connect PROVE Inductive'
  <2>1. /\ main = "connect" /\ main' = "storage" /\ pool' = "open"
        /\ UNCHANGED <<env, cfg, status, signalled, listener, deadline, pc, since, clock>>
        BY <1>2 DEF Connect, Exit
  <2>2. TypeOK' /\ Loaded' /\ Progress' /\ Limit'
        BY <2>1 DEF TypeOK, Loaded, Configured, Progress, Limit
  <2> QED
      BY <2>1, <2>2, MainStep DEF Limit, Progress
<1>3. ASSUME NewStorage PROVE Inductive'
  <2>1. /\ main = "storage" /\ main' = "select" /\ listener' = "starting"
        /\ UNCHANGED <<env, cfg, status, signalled, pool, deadline, pc, since, clock>>
        BY <1>3 DEF NewStorage, Exit
  <2>2. TypeOK' /\ Loaded' /\ Progress' /\ Limit'
        BY <2>1 DEF TypeOK, Loaded, Configured, Progress, Limit
  <2> QED
      BY <2>1, <2>2, MainStep DEF Limit, Progress
<1>4. ASSUME Listen \/ AcceptFails PROVE Inductive'
  <2>1. /\ main = "select" /\ listener \in {"starting", "open"}
        /\ listener' \in {"open", "failed"}
        /\ UNCHANGED <<env, cfg, main, status, signalled, pool, deadline, pc, since, clock>>
        BY <1>4 DEF Listen, AcceptFails, Serving, Progress, Limit, TypeOK
  <2>2. TypeOK' /\ Loaded' /\ Progress' /\ Limit'
        BY <2>1 DEF TypeOK, Loaded, Configured, Progress, Limit
  <2> QED
      BY <2>1, <2>2, MainStep DEF Limit, Progress
<1>5. ASSUME BeginShutdown PROVE Inductive'
  <2>1. /\ main = "select" /\ signalled /\ main' \in {"close", "drain"}
        /\ listener' \in {"failed", "closed"}
        /\ listener = "failed" => listener' = "failed"
        /\ deadline' = clock + cfg.shutdown
        /\ main' = "close" => Busy = {}
        /\ UNCHANGED <<env, cfg, status, signalled, pool, pc, since, clock>>
        BY <1>5 DEF BeginShutdown, ShutdownDeadline, Idle
  <2>2. TypeOK' /\ Loaded' /\ Progress'
        BY <2>1 DEF TypeOK, Loaded, Configured, Progress
  <2>3. cfg.shutdown \in Int
        BY <2>1, LoadedIsUsable DEF Loaded, Configured
  <2>4. Limit'
        BY <2>1, <2>3, NullAssumption DEF Limit, Serving, TypeOK
  <2>5. deadline = NULL
        BY <2>1 DEF Limit
  <2> QED
      BY <2>1, <2>2, <2>4, <2>5, MainStep
<1>6. ASSUME Drained PROVE Inductive'
  <2>1. /\ main = "drain" /\ main' = "close" /\ Busy = {}
        /\ UNCHANGED <<env, cfg, status, signalled, listener, pool, deadline, pc, since, clock>>
        BY <1>6 DEF Drained, Idle
  <2>2. TypeOK' /\ Loaded' /\ Progress' /\ Limit'
        BY <2>1 DEF TypeOK, Loaded, Configured, Progress, Limit
  <2> QED
      BY <2>1, <2>2, MainStep DEF Serving
<1> QED
    BY <1>1, <1>2, <1>3, <1>4, <1>5, <1>6 DEF Start

\* The steps that end the process.
LEMMA EndStep ==
  ASSUME Inductive, Start \/ Stop \/ Signal, main' = "exited", main # "exited"
  PROVE  Inductive'
<1> USE DEF Inductive
<1>1. ASSUME LoadConfig \/ Connect \/ NewStorage PROVE Inductive'
  <2>1. /\ Exit("fatal") /\ UNCHANGED <<cfg, pool>>
        /\ main \in {"config", "connect", "storage"}
        BY <1>1 DEF LoadConfig, Connect, NewStorage
  <2> QED
      BY <2>1, ExitStep
<1>2. ASSUME Signal PROVE Inductive'
  <2>1. Exit("killed") /\ UNCHANGED <<cfg, pool>> /\ main = "config"
        BY <1>2 DEF Signal
  <2> QED
      BY <2>1, ExitStep
<1>3. ASSUME ListenerFailed PROVE Inductive'
      BY <1>3, ExitStep DEF ListenerFailed
<1>4. ASSUME ShutdownExpires PROVE Inductive'
      BY <1>4, ExitStep DEF ShutdownExpires
<1>5. ASSUME CloseAndReturn PROVE Inductive'
  <2>1. Exit("ok") /\ UNCHANGED cfg /\ pool' = "closed" /\ main = "close"
        BY <1>5 DEF CloseAndReturn
  <2> QED
      BY <2>1, ExitStep
<1> QED
    BY <1>1, <1>2, <1>3, <1>4, <1>5
       DEF Start, Stop, Listen, BeginShutdown, Drained

\* Every step keeps the invariant.
LEMMA InductiveStep == Inductive /\ [Next]_vars => Inductive'
<1> SUFFICES ASSUME Inductive, [Next]_vars PROVE Inductive'
    OBVIOUS
<1>1. CASE UNCHANGED vars
  <2>1. Busy' = Busy
        BY <1>1 DEF vars, Busy
  <2> QED
      BY <1>1, <2>1 DEF vars, process, Inductive, TypeOK, Loaded, Progress, Serving,
                        Limit, CutOffOnlyAtTheLimit
<1>2. CASE Tick
      BY <1>2, TickStep
<1>3. CASE \E r \in Request : Serve(r)
      BY <1>3, ServeStep
<1>4. CASE Signal /\ main' # "exited"
  <2>1. /\ signalled' = TRUE
        /\ UNCHANGED <<env, cfg, main, status, listener, pool, deadline, pc, since, clock>>
        BY <1>4 DEF Signal, Exit
  <2>2. Busy' = Busy
        BY <2>1 DEF Busy
  <2> QED
      BY <2>1, <2>2 DEF Inductive, TypeOK, Loaded, Progress, Serving, Limit,
                        CutOffOnlyAtTheLimit
<1>5. CASE (Start \/ Stop \/ AcceptFails) /\ main' # "exited"
  <2>1. ~(ListenerFailed \/ ShutdownExpires \/ CloseAndReturn)
        BY <1>5 DEF ListenerFailed, ShutdownExpires, CloseAndReturn, Exit
  <2> QED
      BY <1>5, <2>1, StartStep DEF Stop
<1>6. CASE (Start \/ Stop \/ Signal \/ AcceptFails) /\ main' = "exited"
  <2>1. main # "exited" /\ ~AcceptFails
        BY <1>6 DEF Start, Stop, Signal, AcceptFails, LoadConfig, Connect, NewStorage,
                    Listen, ListenerFailed, BeginShutdown, Drained, ShutdownExpires,
                    CloseAndReturn, Inductive, Progress, Serving
  <2> QED
      BY <1>6, <2>1, EndStep
<1> QED
    BY <1>1, <1>2, <1>3, <1>4, <1>5, <1>6 DEF Next, Serve

-----------------------------------------------------------------------------
(* The results *)

\* What holds at every point of the process's life.
THEOREM InductiveInvariant == Spec => []Inductive
BY InductiveInit, InductiveStep, PTL DEF Spec

\* The configuration the server runs with can be used, whatever was in the
\* environment: see AcceptedConfigIsUsable.
THEOREM ConfigIsUsable == Spec => []AcceptedConfigIsUsable
<1>1. Inductive => AcceptedConfigIsUsable
      BY LoadedIsUsable DEF Inductive, Loaded, AcceptedConfigIsUsable
<1> QED
    BY InductiveInvariant, <1>1, PTL

\* A request is cut off at the limit of the shutdown only, or when the listener
\* failed: see CutOffOnlyAtTheLimit.
THEOREM CutOffs == Spec => []CutOffOnlyAtTheLimit
BY InductiveInvariant, PTL DEF Inductive

\* A process that reports success has answered everybody: see
\* CleanExitMeansAnswered.
THEOREM CleanExits == Spec => []CleanExitMeansAnswered
<1>1. Inductive => CleanExitMeansAnswered
      BY DEF Inductive, Progress, Serving, CutOffOnlyAtTheLimit, CleanExitMeansAnswered
<1> QED
    BY InductiveInvariant, <1>1, PTL
=============================================================================
