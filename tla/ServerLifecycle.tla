-------------------------- MODULE ServerLifecycle --------------------------
(***************************************************************************)
(* The life of the server process: main reads the configuration, connects, *)
(* listens, waits for a signal or for the listener to fail, shuts down     *)
(* within a time limit and closes the pool; and the requests that are      *)
(* served meanwhile on the pool's connections.                             *)
(*                                                                         *)
(* A request asks for one connection at a time and its context ends after  *)
(* RequestTimeout; what it writes to its client has no limit.  When the    *)
(* process exits, whatever was running is cut off.                         *)
(*                                                                         *)
(* Simplifications: a connection that was accepted has sent its request;   *)
(* only the first signal counts (later ones are caught and ignored).       *)
(***************************************************************************)
EXTENDS Config, FiniteSets

CONSTANTS
  Envs,            \* environments the process may be started in
  Request,         \* requests that may be served together
  NULL,
  RequestTimeout,  \* middleware.Timeout
  MaxClock         \* bound: the clock stops here, see Tick

ASSUME TimeAssumption == {RequestTimeout, MaxClock} \subseteq Nat
ASSUME NullAssumption == NULL \notin Int
ASSUME EnvAssumption  == \A e \in Envs : WellFormed(e)

VARIABLES
  env, cfg,      \* the environment; what Load made of it
  main,          \* what main does next
  status,        \* "running", or how the process ended
  signalled,     \* has NotifyContext's ctx been cancelled?
  listener,      \* of the goroutine in Start
  pool,
  deadline,      \* of shutdownCtx
  pc, since,     \* a request, and when it began
  clock

process == <<env, cfg, main, status, signalled, listener, pool, deadline>>
vars    == <<process, pc, since, clock>>

Working == {"wait", "query"}          \* needs the database
Active  == Working \cup {"write"}
Busy    == {r \in Request : pc[r] \in Active}
Querying == {r \in Request : pc[r] = "query"}

Init ==
  /\ env \in Envs
  /\ cfg = NULL
  /\ main = "config"
  /\ status = "running"
  /\ signalled = FALSE
  /\ listener = "none"
  /\ pool = "none"
  /\ deadline = NULL
  /\ pc = [r \in Request |-> "none"]
  /\ since = [r \in Request |-> 0]
  /\ clock = 0

TimedOut(r) == clock >= since[r] + RequestTimeout

\* Bound: past MaxClock the clock goes on only until the limits are over that
\* run already.
LimitRuns == \/ deadline # NULL /\ status = "running" /\ clock < deadline
             \/ \E r \in Request : pc[r] \in Working /\ ~TimedOut(r)

Tick == /\ clock < MaxClock \/ LimitRuns
        /\ clock' = clock + 1
        /\ UNCHANGED <<process, pc, since>>

\* The process ends: log.Fatalf runs no deferred call.
Exit(how) ==
  /\ main' = "exited"
  /\ status' = how
  /\ pc' = [r \in Request |-> IF r \in Busy THEN "cut" ELSE pc[r]]
  /\ UNCHANGED <<env, signalled, listener, deadline, since, clock>>

\* SIGTERM or an interrupt, anywhere; before NotifyContext it kills.
Signal ==
  /\ status = "running" /\ ~signalled
  /\ IF main = "config"
       THEN Exit("killed") /\ UNCHANGED <<cfg, pool>>
       ELSE signalled' = TRUE
            /\ UNCHANGED <<env, cfg, main, status, listener, pool, deadline, pc, since, clock>>

-----------------------------------------------------------------------------
(* main, up to Start *)

LoadConfig ==
  /\ main = "config"
  /\ IF Valid(env)
       THEN /\ cfg' = Load(env)
            /\ main' = "connect"
            /\ UNCHANGED <<env, status, signalled, listener, pool, deadline, pc, since, clock>>
       ELSE Exit("fatal") /\ UNCHANGED <<cfg, pool>>

\* The ping fails when the database does, and once ctx is cancelled.
Connect ==
  /\ main = "connect"
  /\ \/ /\ ~signalled
        /\ pool' = "open"
        /\ main' = "storage"
        /\ UNCHANGED <<env, cfg, status, signalled, listener, deadline, pc, since, clock>>
     \/ Exit("fatal") /\ UNCHANGED <<cfg, pool>>

\* newStorage, NewRouter and New; then Start forks the listener.
NewStorage ==
  /\ main = "storage"
  /\ \/ /\ main' = "select"
        /\ listener' = "starting"
        /\ UNCHANGED <<env, cfg, status, signalled, pool, deadline, pc, since, clock>>
     \/ Exit("fatal") /\ UNCHANGED <<cfg, pool>>

-----------------------------------------------------------------------------
(* Server.Start *)

\* ListenAndServe: it may find its address taken, or fail later; not both.
Listen ==
  /\ listener = "starting"
  /\ listener' \in {"open", "failed"}
  /\ UNCHANGED <<env, cfg, main, status, signalled, pool, deadline, pc, since, clock>>

AcceptFails ==
  /\ listener = "open"
  /\ listener' = "failed"
  /\ UNCHANGED <<env, cfg, main, status, signalled, pool, deadline, pc, since, clock>>

\* case err := <-errCh: also when the signal is there too.
ListenerFailed ==
  /\ main = "select"
  /\ listener = "failed"
  /\ Exit("fatal")
  /\ UNCHANGED <<cfg, pool>>

\* Mutant of ShutdownDeadline: the limit is derived from ctx, which is
\* already cancelled.
ShutdownDeadline_FromCtx == clock

ShutdownDeadline == clock + cfg.shutdown

\* Mutant of Idle: Close instead of Shutdown.
Idle_Close == TRUE

\* closeIdleConns: nothing is being served.
Idle == Busy = {}

\* case <-ctx.Done(): Shutdown closes the listener and looks for the first
\* time whether anything is being served.
BeginShutdown ==
  /\ main = "select"
  /\ signalled
  /\ listener' = IF listener = "failed" THEN "failed" ELSE "closed"
  /\ deadline' = ShutdownDeadline
  /\ main' = IF Idle THEN "close" ELSE "drain"
  /\ UNCHANGED <<env, cfg, status, signalled, pool, pc, since, clock>>

Drained ==
  /\ main = "drain"
  /\ Idle
  /\ main' = "close"
  /\ UNCHANGED <<env, cfg, status, signalled, listener, pool, deadline, pc, since, clock>>

\* Mutant of ShutdownExpires: Shutdown is given a context without a limit.
ShutdownExpires_Never == FALSE /\ UNCHANGED vars

\* The limit is over, perhaps just after the last request: an error.
ShutdownExpires ==
  /\ main = "drain"
  /\ clock >= deadline
  /\ Exit("fatal")
  /\ UNCHANGED <<cfg, pool>>

\* The deferred db.Close waits until every connection is back.
CloseAndReturn ==
  /\ main = "close"
  /\ Querying = {}
  /\ pool' = "closed"
  /\ Exit("ok")
  /\ UNCHANGED cfg

-----------------------------------------------------------------------------
(* Requests *)

\* Bound: no request comes after MaxClock.
Accept(r) ==
  /\ listener = "open"
  /\ pc[r] = "none"
  /\ clock <= MaxClock
  /\ \E what \in {"wait", "write"} : pc' = [pc EXCEPT ![r] = what]
  /\ since' = [since EXCEPT ![r] = clock]
  /\ UNCHANGED <<process, clock>>

Goto(r, where) == /\ pc' = [pc EXCEPT ![r] = where]
                  /\ UNCHANGED <<process, since, clock>>

Acquire(r) == /\ pc[r] = "wait"
              /\ Cardinality(Querying) < PoolSize(cfg)
              /\ Goto(r, "query")

\* A statement, or the last one, is done.
Finish(r) == pc[r] = "query" /\ (Goto(r, "wait") \/ Goto(r, "write"))

\* Mutant of GiveUp: only the wait for a connection heeds the context.
GiveUp_OnlyWaiting(r) == pc[r] = "wait" /\ TimedOut(r) /\ Goto(r, "write")

\* The context is over: the wait, or the statement, ends with an error.
GiveUp(r) == pc[r] \in Working /\ TimedOut(r) /\ Goto(r, "write")

\* The client has read the answer.
Answer(r) == pc[r] = "write" /\ Goto(r, "none")

-----------------------------------------------------------------------------
Start == \/ LoadConfig \/ Connect \/ NewStorage \/ Listen
Stop  == \/ ListenerFailed \/ BeginShutdown \/ Drained \/ ShutdownExpires
         \/ CloseAndReturn

Next == \/ Tick \/ Signal \/ Start \/ Stop \/ AcceptFails
        \/ \E r \in Request : \/ Accept(r) \/ Acquire(r) \/ Finish(r)
                              \/ GiveUp(r) \/ Answer(r)

\* The process runs and time passes.  No client is bound to read its answer,
\* and no statement to end.
Fairness == /\ WF_vars(Tick) /\ WF_vars(Start) /\ WF_vars(Stop)
            /\ \A r \in Request : WF_vars(GiveUp(r))

Spec == Init /\ [][Next]_vars /\ Fairness

-----------------------------------------------------------------------------
(* Properties *)

\* Types of the process and of its requests.
TypeOK ==
  /\ main \in {"config", "connect", "storage", "select", "drain", "close", "exited"}
  /\ status \in {"running", "killed", "fatal", "ok"}
  /\ signalled \in BOOLEAN
  /\ listener \in {"none", "starting", "open", "failed", "closed"}
  /\ pool \in {"none", "open", "closed"}
  /\ pc \in [Request -> {"none", "cut"} \cup Active]
  /\ since \in [Request -> Nat]

\* Types, and: whatever was in the environment, the server that runs has lifetimes that
\* are positive and a pool that has a connection (although both numbers may
\* have been wrapped), https in production, and all it needs for r2.
AcceptedConfigIsUsable ==
  /\ TypeOK
  /\ pool # "none" =>
       /\ \A k \in TTLs : cfg.ttl[k] > 0
       /\ PoolSize(cfg) > 0
       /\ cfg.production => cfg.https
       /\ cfg.driver = "r2" => cfg.r2 = Credentials

\* A request is cut off only when a signal came and the whole of
\* SHUTDOWN_TIMEOUT is over, or when the listener failed under it.
CutOffOnlyAtTheLimit ==
  \A r \in Request : pc[r] = "cut" =>
    /\ status = "fatal"
    /\ listener # "failed" => /\ deadline # NULL
                              /\ clock >= deadline
                              /\ deadline >= since[r] + cfg.shutdown

\* No request finds the pool closed, and a process that reports success was
\* told to stop, has answered everybody and has closed its pool.
CleanExitMeansAnswered ==
  /\ pool = "closed" => Busy = {}
  /\ status = "ok" => /\ signalled /\ pool = "closed"
                      /\ \A r \in Request : pc[r] # "cut"

\* Once signalled the process ends, however slow clients and database are.
StopsOnSignal == signalled ~> status # "running"

\* A request neither waits for a connection nor keeps one for ever, though
\* the pool is too small or the database does not answer.
ConnectionIsGivenBack ==
  \A r \in Request : pc[r] \in Working ~> pc[r] \notin Working
=============================================================================
