------------------------------ MODULE Process ------------------------------
(***************************************************************************)
(* The life of one process: the startup sequence of Run with its early     *)
(* returns, the HTTP server and its handlers, the finalizer and the        *)
(* maintenance loop, and the shutdown on a signal or on a failure of the   *)
(* server, down to the deferred calls in their order.                      *)
(***************************************************************************)
EXTENDS Naturals

CONSTANTS
  Handlers,      \* HTTP requests that may be in progress
  S3Timeout,     \* s3OperationTimeout (10 seconds)
  DefaultLease,  \* defaultFinalizeClaimLease (30 seconds)
  Leases         \* what FINALIZE_CLAIM_LEASE may be set to

ASSUME ProcessAssumption ==
  S3Timeout \in Nat /\ DefaultLease \in Nat /\ Leases \subseteq Nat

Workers == {"finalizer", "maintenance"}

VARIABLES
  main,       \* where Run is, its deferred calls included
  result,     \* what Run returns: "nil" or "error"; "" while undecided
  lease,      \* the configured claim lease
  signalled,  \* SIGINT or SIGTERM arrived: ctx is done
  stopped,    \* stopWorkers was called
  stopping,   \* application.stopping
  pool,       \* connection pool: "none", "open", "closing" or "closed"
  worker,     \* each loop: "none", "check", "work", "sweep", "wait" or "done"
  server,     \* "new", "serving", "shut" (by Shutdown or Close) or "failed"
  serve,      \* what Serve sent to serveResult: "", "closed" or "failed"
  handler,    \* "none", "running", "query" (holds a connection) or "done"
  cut         \* the handlers whose client connection Close has closed

vars == <<main, result, lease, signalled, stopped, stopping, pool, worker,
          server, serve, handler, cut>>

Init ==
  /\ main = "config" /\ result = "" /\ lease = 0
  /\ signalled = FALSE /\ stopped = FALSE /\ stopping = FALSE
  /\ pool = "none"
  /\ worker = [w \in Workers |-> "none"]
  /\ server = "new" /\ serve = ""
  /\ handler = [h \in Handlers |-> "none"]
  /\ cut = {}

\* Run returns this; the deferred calls from "next" on are still to come.
Return(value, next) == result' = value /\ main' = next

-----------------------------------------------------------------------------
(* Startup.                                                                *)

\* The lease must exceed the deadline of an S3 call (by a microsecond).
LeaseTooShort(value) == value < S3Timeout + 1

\* A required variable is missing, an address or the lease malformed: an error.
loadConfig ==
  /\ main = "config"
  /\ \/ \E value \in Leases \cup {DefaultLease} :
          IF LeaseTooShort(value)
          THEN Return("error", "returned") /\ UNCHANGED lease
          ELSE lease' = value /\ main' = "postgres" /\ UNCHANGED result
     \/ Return("error", "returned") /\ UNCHANGED lease
  /\ UNCHANGED <<signalled, stopped, stopping, pool, worker, server, serve, handler, cut>>

\* The pool is pinged and the schema version checked; when that fails the pool
\* is closed before Run defers anything.
openPostgres ==
  /\ main = "postgres"
  /\ \/ main' = "s3" /\ pool' = "open" /\ UNCHANGED result
     \/ Return("error", "returned") /\ pool' \in {"none", "closed"}
  /\ UNCHANGED <<lease, signalled, stopped, stopping, worker, server, serve, handler, cut>>

\* From openPostgres on every return closes the pool.
EarlyReturn == "deferPool"

newS3Client ==
  /\ main = "s3"
  /\ \/ main' = "listen" /\ UNCHANGED result
     \/ Return("error", EarlyReturn)
  /\ UNCHANGED <<lease, signalled, stopped, stopping, pool, worker, server, serve,
                 handler, cut>>

\* With a listener the loops and the server are started.
listen ==
  /\ main = "listen"
  /\ \/ /\ main' = "select"
        /\ worker' = [w \in Workers |-> "check"]
        /\ UNCHANGED result
     \/ Return("error", EarlyReturn) /\ UNCHANGED worker
  /\ UNCHANGED <<lease, signalled, stopped, stopping, pool, server, serve, handler, cut>>

-----------------------------------------------------------------------------
(* Shutdown.                                                               *)

\* Faulty variant: workers are not told to stop when the server has failed.
AfterServeFailureNoStop == "deferWait"

\* Faulty variant: nor are they waited for.
AfterServeFailureNoWait == "deferPool"

\* From here on every return stops the workers and waits for them.
AfterServeFailure == "deferStop"

\* select: the server has stopped by itself, or ctx is done.
selectCase ==
  /\ main = "select"
  /\ \/ /\ serve # ""
        /\ Return(IF serve = "closed" THEN "nil" ELSE "error", AfterServeFailure)
     \/ signalled /\ main' = "announce" /\ UNCHANGED result
  /\ UNCHANGED <<lease, signalled, stopped, stopping, pool, worker, server, serve,
                 handler, cut>>

announce ==
  /\ main = "announce"
  /\ main' = "stop" /\ stopping' = TRUE
  /\ UNCHANGED <<result, lease, signalled, stopped, pool, worker, server, serve,
                 handler, cut>>

\* stopWorkers, in the body of Run and in its deferred call.
stopWorkers ==
  /\ \/ main = "stop" /\ main' = "shutdown"
     \/ main = "deferStop" /\ main' = "deferWait"
  /\ stopped' = TRUE
  /\ UNCHANGED <<result, lease, signalled, stopping, pool, worker, server, serve,
                 handler, cut>>

\* Shutdown closes the listener and then waits for the handlers.
Shutdown ==
  /\ main = "shutdown"
  /\ main' = "drain"
  /\ server' = IF server = "failed" THEN server ELSE "shut"
  /\ UNCHANGED <<result, lease, signalled, stopped, stopping, pool, worker, serve,
                 handler, cut>>

Active == {h \in Handlers : handler[h] \in {"running", "query"}}

\* Every handler has answered; or shutdownTimeout has run out or closing the
\* listener has failed.
Drained ==
  /\ main = "drain"
  /\ \/ Active = {} /\ main' = "collect" /\ UNCHANGED result
     \/ Return("error", "close")
  /\ UNCHANGED <<lease, signalled, stopped, stopping, pool, worker, server, serve,
                 handler, cut>>

\* Close cuts the connections; the handlers' goroutines go on.
Close ==
  /\ main = "close"
  /\ main' = "collect" /\ cut' = Active
  /\ UNCHANGED <<result, lease, signalled, stopped, stopping, pool, worker, server,
                 serve, handler>>

collect ==
  /\ main = "collect" /\ serve # ""
  /\ main' = "wait"
  /\ UNCHANGED <<result, lease, signalled, stopped, stopping, pool, worker, server,
                 serve, handler, cut>>

WorkersDone == \A w \in Workers : worker[w] = "done"

\* Faulty variant: a shutdown that ran out of time counts as a success.
ExitResultLenient == IF serve = "failed" THEN "error" ELSE "nil"

\* What Run returns after a signal.
ExitResult == IF result = "error" \/ serve = "failed" THEN "error" ELSE "nil"

\* workers.Wait, in the body of Run and in its deferred call.
workersWait ==
  /\ WorkersDone
  /\ \/ main = "wait" /\ Return(ExitResult, "deferStop")
     \/ main = "deferWait" /\ main' = "deferPool" /\ UNCHANGED result
  /\ UNCHANGED <<lease, signalled, stopped, stopping, pool, worker, server, serve,
                 handler, cut>>

\* pool.Close waits for the connections that are in use.
poolClose ==
  /\ \/ main = "deferPool" /\ main' = "deferClosed" /\ pool' = "closing"
     \/ /\ main = "deferClosed"
        /\ \A h \in Handlers : handler[h] # "query"
        /\ main' = "returned" /\ pool' = "closed"
  /\ UNCHANGED <<result, lease, signalled, stopped, stopping, worker, server, serve,
                 handler, cut>>

MainStep ==
  \/ loadConfig \/ openPostgres \/ newS3Client \/ listen \/ selectCase \/ announce
  \/ stopWorkers \/ Shutdown \/ Drained \/ Close \/ collect \/ workersWait \/ poolClose

-----------------------------------------------------------------------------
(* The server, its handlers, the loops and the signal.                     *)

\* The goroutine of Serve: it accepts until Shutdown or a failure.
Serve ==
  /\ worker["finalizer"] # "none"
  /\ serve = ""
  /\ \/ server = "new" /\ server' = "serving" /\ UNCHANGED serve
     \/ server = "serving" /\ server' = "failed" /\ serve' = "failed"
     \/ server = "shut" /\ serve' = "closed" /\ UNCHANGED server
  /\ UNCHANGED <<main, result, lease, signalled, stopped, stopping, pool, worker,
                 handler, cut>>

Accept(h) ==
  /\ server = "serving" /\ handler[h] = "none"
  /\ handler' = [handler EXCEPT ![h] = "running"]
  /\ UNCHANGED <<main, result, lease, signalled, stopped, stopping, pool, worker,
                 server, serve, cut>>

\* A handler takes a connection while the pool is open and gives it back, once
\* for each of its transactions and reads, and answers.
ServeHTTP(h) ==
  /\ \/ handler[h] = "running" /\ pool = "open" /\ handler' = [handler EXCEPT ![h] = "query"]
     \/ handler[h] = "query" /\ handler' = [handler EXCEPT ![h] = "running"]
     \/ handler[h] = "running" /\ handler' = [handler EXCEPT ![h] = "done"]
  /\ UNCHANGED <<main, result, lease, signalled, stopped, stopping, pool, worker,
                 server, serve, cut>>

\* workerContext is done.
Cancelled == signalled \/ stopped

Become(w, at) ==
  /\ worker' = [worker EXCEPT ![w] = at]
  /\ UNCHANGED <<main, result, lease, signalled, stopped, stopping, pool, server,
                 serve, handler, cut>>

\* The context is looked at before and after each call of processNext.
runFinalizerLoop ==
  LET w == "finalizer" IN
  \/ worker[w] = "check" /\ Become(w, IF Cancelled THEN "done" ELSE "work")
  \/ worker[w] = "work" /\ IF Cancelled THEN Become(w, "done")
                           ELSE \E next \in {"check", "wait"} : Become(w, next)
  \/ worker[w] = "wait" /\ Become(w, IF Cancelled THEN "done" ELSE "check")

\* ... and between the two sweeps.
runMaintenanceLoop ==
  LET w == "maintenance" IN
  \/ worker[w] = "check" /\ Become(w, IF Cancelled THEN "done" ELSE "work")
  \/ worker[w] = "work" /\ Become(w, IF Cancelled THEN "done" ELSE "sweep")
  \/ worker[w] = "sweep" /\ Become(w, IF Cancelled THEN "done" ELSE "wait")
  \/ worker[w] = "wait" /\ Become(w, IF Cancelled THEN "done" ELSE "check")

Signal ==
  /\ ~signalled /\ main # "returned"
  /\ signalled' = TRUE
  /\ UNCHANGED <<main, result, lease, stopped, stopping, pool, worker, server, serve,
                 handler, cut>>

\* The process has exited.
Exited == main = "returned" /\ UNCHANGED vars

Next ==
  \/ MainStep
  \/ Serve
  \/ main # "returned" /\ \E h \in Handlers : Accept(h) \/ ServeHTTP(h)
  \/ runFinalizerLoop
  \/ runMaintenanceLoop
  \/ Signal
  \/ Exited

\* The goroutines run; every query ends at its deadline; Serve notices that the
\* listener is closed.  Nothing is assumed of signals, of handlers that hold
\* no connection, or of the choice select makes.
Fairness ==
  /\ WF_vars(MainStep)
  /\ WF_vars(runFinalizerLoop) /\ WF_vars(runMaintenanceLoop)
  /\ WF_vars(server \in {"new", "shut"} /\ Serve)
  /\ \A h \in Handlers : WF_vars(handler[h] = "query" /\ ServeHTTP(h))

Spec == Init /\ [][Next]_vars /\ Fairness

-----------------------------------------------------------------------------
(* Properties.                                                             *)

\* The deferred calls run in an order that keeps the pool usable for as long
\* as a loop may use it, on every path out of Run; after Run has returned
\* nothing is left open.
PoolOutlivesWorkers ==
  /\ pool \in {"closing", "closed"} => \A w \in Workers : worker[w] \in {"none", "done"}
  /\ main = "returned" => pool \in {"none", "closed"}

\* Exit code 0 means a graceful end: every request that was accepted has been
\* answered, none was cut off, and /livez said so before the listener closed.
CleanExitAnswersAll ==
  main = "returned" /\ result = "nil" => Active = {} /\ cut = {} /\ stopping

\* A signal or a failure of the server ends the process: no wait of the
\* shutdown is for something that nobody will do.
ShutdownCompletes == signalled \/ serve = "failed" ~> main = "returned"
=============================================================================
