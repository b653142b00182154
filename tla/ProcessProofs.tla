--------------------------- MODULE ProcessProofs ---------------------------
(***************************************************************************)
(* Proofs about Process, for any set of handlers and any setting of the    *)
(* lease: the pool outlives the loops on every path out of Run, and exit   *)
(* code 0 means that every accepted request was answered.                  *)
(***************************************************************************)
EXTENDS Process, TLAPS

-----------------------------------------------------------------------------
(* The inductive invariant.  It ties where Run is to what the other        *)
(* goroutines may still do.                                                *)

\* Run before it has a listener; before it has told the server to stop; from
\* there to its last wait; and in its deferred calls that stop the loops.
Startup == {"config", "postgres", "s3", "listen"}
Running == {"select", "announce", "stop", "shutdown"}
Draining == {"drain", "close", "collect", "wait"}
Leaving == {"deferStop", "deferWait"}
Closing == {"deferPool", "deferClosed", "returned"}

ProcessTypeOK ==
  /\ main \in Startup \cup Running \cup Draining \cup Leaving \cup Closing
  /\ result \in {"", "nil", "error"}
  /\ worker \in [Workers -> {"none", "check", "work", "sweep", "wait", "done"}]
  /\ server \in {"new", "serving", "shut", "failed"}
  /\ serve \in {"", "closed", "failed"}
  /\ handler \in [Handlers -> {"none", "running", "query", "done"}]

\* The pool is open from openPostgres to the last deferred call.
PoolPhase ==
  /\ main \in {"config", "postgres"} => pool = "none"
  /\ main \in {"s3", "listen", "deferPool"} \cup Running \cup Draining \cup Leaving =>
       pool = "open"
  /\ main = "deferClosed" => pool = "closing"
  /\ main = "returned" => pool \in {"none", "closed"}

\* The loops run from the listener on, and Run has waited for them when it
\* closes the pool.
WorkerPhase ==
  /\ main \in Startup => \A w \in Workers : worker[w] = "none"
  /\ main \in Running \cup Draining \cup Leaving => worker["finalizer"] # "none"
  /\ main \in Closing => \A w \in Workers : worker[w] \in {"none", "done"}

\* The listener is closed by a Run that has announced it, and by nobody else.
ServerPhase ==
  /\ worker["finalizer"] = "none" => server = "new" /\ serve = ""
  /\ serve = "failed" <=> server = "failed"
  /\ serve = "closed" => server = "shut"
  /\ main \in {"stop", "shutdown"} => stopping
  /\ server = "shut" => main \in Draining \cup Leaving \cup Closing /\ stopping
  /\ main \in Draining => server \in {"shut", "failed"}
  /\ main = "wait" => serve # ""

Answered == \A h \in Handlers : handler[h] \notin {"running", "query"}

\* Connections are cut only on the way to an error; without one the server has
\* been drained, and nobody accepts any more.
ResultPhase ==
  /\ main \in Startup \cup Running \cup {"drain"} => result = ""
  /\ main = "close" => result = "error"
  /\ main \in {"collect", "wait"} => result = "error" \/ Answered
  /\ cut # {} => result = "error"
  /\ result = "nil" => Answered /\ server = "shut"

ProcessInv == ProcessTypeOK /\ PoolPhase /\ WorkerPhase /\ ServerPhase /\ ResultPhase

-----------------------------------------------------------------------------
(* Every step keeps it.                                                    *)

\* A process that has done nothing satisfies the invariant.
LEMMA InitProcess == Init => ProcessInv
BY DEF Init, ProcessInv, ProcessTypeOK, PoolPhase, WorkerPhase, ServerPhase, ResultPhase,
       Answered, Workers, Startup, Running, Draining, Leaving, Closing

\* loadConfig, openPostgres, newS3Client and listen, with their early returns:
\* nothing runs yet, or what was opened is closed.
LEMMA StartupKeeps ==
  ASSUME ProcessInv, loadConfig \/ openPostgres \/ newS3Client \/ listen
  PROVE  ProcessInv'
<1> USE DEF Startup, Running, Draining, Leaving, Closing, Workers
<1>1. /\ ProcessTypeOK /\ PoolPhase /\ WorkerPhase /\ ServerPhase /\ ResultPhase
      BY DEF ProcessInv
<1>2. /\ server' = server /\ serve' = serve /\ handler' = handler /\ cut' = cut
      /\ stopping' = stopping
      BY DEF loadConfig, openPostgres, newS3Client, listen
<1>3. /\ main \in Startup
      /\ main' \in Startup \cup {"select"} => result' = result
      /\ main' \notin Startup \cup {"select"} => result' = "error"
      /\ main' \in {"postgres", "s3", "listen", "select", "deferPool", "returned"}
      BY DEF loadConfig, openPostgres, newS3Client, listen, Return, EarlyReturn
<1>4. CASE main' = "select"
  <2>1. main = "listen" /\ worker' = [w \in Workers |-> "check"] /\ pool' = pool
        BY <1>4 DEF loadConfig, openPostgres, newS3Client, listen, Return, EarlyReturn
  <2>2. QED
        BY <1>1, <1>2, <1>3, <1>4, <2>1
        DEF ProcessInv, ProcessTypeOK, PoolPhase, WorkerPhase, ServerPhase, ResultPhase,
            Answered
<1>5. CASE main' # "select"
  <2>1. worker' = worker
        BY <1>5 DEF loadConfig, openPostgres, newS3Client, listen
  <2>2. PoolPhase'
        BY <1>1 DEF loadConfig, openPostgres, newS3Client, listen, Return, EarlyReturn,
                    PoolPhase
  <2>3. QED
        BY <1>1, <1>2, <1>3, <1>5, <2>1, <2>2
        DEF ProcessInv, ProcessTypeOK, WorkerPhase, ServerPhase, ResultPhase, Answered
<1>6. QED BY <1>4, <1>5

\* The steps of Run from select to the end of the drain: only a server that
\* has been drained goes on without an error.
LEMMA ShutdownKeeps ==
  ASSUME ProcessInv,
         selectCase \/ announce \/ stopWorkers \/ Shutdown \/ Drained \/ Close \/ collect
  PROVE  ProcessInv'
<1> USE DEF Startup, Running, Draining, Leaving, Closing, Workers
<1>1. /\ ProcessTypeOK /\ PoolPhase /\ WorkerPhase /\ ServerPhase /\ ResultPhase
      BY DEF ProcessInv
<1>2. pool' = pool /\ worker' = worker /\ serve' = serve /\ handler' = handler
      BY DEF selectCase, announce, stopWorkers, Shutdown, Drained, Close, collect
<1>3. CASE selectCase
  <2>1. serve # "closed"
        BY <1>1, <1>3 DEF selectCase, ServerPhase
  <2>2. QED
        BY <1>1, <1>2, <1>3, <2>1
        DEF selectCase, Return, AfterServeFailure, ProcessInv, ProcessTypeOK, PoolPhase,
            WorkerPhase, ServerPhase, ResultPhase, Answered
<1>4. CASE announce
  BY <1>1, <1>2, <1>4
  DEF announce, ProcessInv, ProcessTypeOK, PoolPhase, WorkerPhase, ServerPhase, ResultPhase,
      Answered
<1>5. CASE stopWorkers
  BY <1>1, <1>2, <1>5
  DEF stopWorkers, ProcessInv, ProcessTypeOK, PoolPhase, WorkerPhase, ServerPhase,
      ResultPhase, Answered
<1>6. CASE Shutdown
  BY <1>1, <1>2, <1>6
  DEF Shutdown, ProcessInv, ProcessTypeOK, PoolPhase, WorkerPhase, ServerPhase, ResultPhase,
      Answered
<1>7. CASE Drained
  <2>1. Active = {} => Answered
        BY DEF Active, Answered
  <2>2. QED
        BY <1>1, <1>2, <1>7, <2>1
        DEF Drained, Return, ProcessInv, ProcessTypeOK, PoolPhase, WorkerPhase, ServerPhase,
            ResultPhase, Answered
<1>8. CASE Close
  BY <1>1, <1>2, <1>8
  DEF Close, ProcessInv, ProcessTypeOK, PoolPhase, WorkerPhase, ServerPhase, ResultPhase,
      Answered
<1>9. CASE collect
  BY <1>1, <1>2, <1>9
  DEF collect, ProcessInv, ProcessTypeOK, PoolPhase, WorkerPhase, ServerPhase, ResultPhase,
      Answered
<1>10. QED BY <1>3, <1>4, <1>5, <1>6, <1>7, <1>8, <1>9

\* The last steps of Run: it waits for the loops before it closes the pool.
LEMMA ExitKeeps ==
  ASSUME ProcessInv, workersWait \/ poolClose
  PROVE  ProcessInv'
<1> USE DEF Startup, Running, Draining, Leaving, Closing, Workers
<1>1. /\ ProcessTypeOK /\ PoolPhase /\ WorkerPhase /\ ServerPhase /\ ResultPhase
      BY DEF ProcessInv
<1>2. /\ worker' = worker /\ serve' = serve /\ server' = server /\ handler' = handler
      /\ cut' = cut /\ stopping' = stopping
      BY DEF workersWait, poolClose
<1>3. CASE workersWait
  <2>1. ExitResult = "nil" => result # "error" /\ serve # "failed"
        BY DEF ExitResult
  <2>2. ExitResult \in {"nil", "error"} /\ (result = "error" => ExitResult = "error")
        BY DEF ExitResult
  <2>3. \A w \in Workers : worker[w] = "done"
        BY <1>3 DEF workersWait, WorkersDone
  <2>4. ProcessTypeOK' /\ PoolPhase' /\ WorkerPhase' /\ ServerPhase'
    <3>1. /\ pool' = pool /\ result' \in {"", "nil", "error"}
          /\ \/ main = "wait" /\ main' = "deferStop"
             \/ main = "deferWait" /\ main' = "deferPool"
          BY <1>1, <1>3, <2>2 DEF workersWait, Return, ProcessTypeOK
    <3>2. ProcessTypeOK' /\ PoolPhase'
          BY <1>1, <1>2, <3>1 DEF ProcessTypeOK, PoolPhase
    <3>3. WorkerPhase'
          BY <1>1, <1>2, <2>3, <3>1 DEF WorkerPhase
    <3>4. ServerPhase'
          BY <1>1, <1>2, <3>1 DEF ServerPhase
    <3>5. QED BY <3>2, <3>3, <3>4
  <2>5. ResultPhase'
    <3>1. Answered' <=> Answered
          BY <1>2 DEF Answered
    <3>2. QED
          BY <1>1, <1>2, <1>3, <2>1, <2>2, <3>1
          DEF workersWait, Return, ProcessTypeOK, ServerPhase, ResultPhase
  <2>6. QED BY <2>4, <2>5 DEF ProcessInv
<1>4. CASE poolClose
  <2>1. result' = result /\ main \in {"deferPool", "deferClosed"} /\ main' \in Closing
        BY <1>4 DEF poolClose
  <2>2. PoolPhase'
        BY <1>4 DEF poolClose, PoolPhase
  <2>3. ProcessTypeOK' /\ WorkerPhase' /\ ServerPhase'
        BY <1>1, <1>2, <2>1 DEF ProcessTypeOK, WorkerPhase, ServerPhase
  <2>4. ResultPhase'
        BY <1>1, <1>2, <2>1 DEF ResultPhase, Answered
  <2>5. QED BY <2>2, <2>3, <2>4 DEF ProcessInv
<1>5. QED BY <1>3, <1>4

\* The goroutine of Serve: what it finds is what Run or a failure has made of
\* the listener.
LEMMA ServeKeeps ==
  ASSUME ProcessInv, Serve
  PROVE  ProcessInv'
<1> USE DEF Startup, Running, Draining, Leaving, Closing, Workers
<1>1. /\ ProcessTypeOK /\ PoolPhase /\ WorkerPhase /\ ServerPhase /\ ResultPhase
      BY DEF ProcessInv
<1>2. QED
      BY <1>1
      DEF Serve, ProcessInv, ProcessTypeOK, PoolPhase, WorkerPhase, ServerPhase, ResultPhase,
          Answered

\* A handler begins only while the server accepts, so never behind a drain
\* that has found nobody.
LEMMA HandlerKeeps ==
  ASSUME ProcessInv, NEW h \in Handlers, Accept(h) \/ ServeHTTP(h)
  PROVE  ProcessInv'
<1> USE DEF Startup, Running, Draining, Leaving, Closing, Workers
<1>1. /\ ProcessTypeOK /\ PoolPhase /\ WorkerPhase /\ ServerPhase /\ ResultPhase
      BY DEF ProcessInv
<1>2. /\ main' = main /\ result' = result /\ stopping' = stopping /\ pool' = pool
      /\ worker' = worker /\ server' = server /\ serve' = serve /\ cut' = cut
      BY DEF Accept, ServeHTTP
<1>3. handler' \in [Handlers -> {"none", "running", "query", "done"}]
      BY <1>1 DEF Accept, ServeHTTP, ProcessTypeOK
<1>4. Answered => server = "serving" \/ Answered'
      BY <1>1 DEF Accept, ServeHTTP, Answered, ProcessTypeOK
<1>5. ResultPhase'
      BY <1>1, <1>2, <1>4 DEF ResultPhase, ServerPhase
<1>6. QED
      BY <1>1, <1>2, <1>3, <1>5
      DEF ProcessInv, ProcessTypeOK, PoolPhase, WorkerPhase, ServerPhase

\* A loop that is done stays done, and one that was not started stays so.
LEMMA LoopKeeps ==
  ASSUME ProcessInv, runFinalizerLoop \/ runMaintenanceLoop
  PROVE  ProcessInv'
<1> USE DEF Startup, Running, Draining, Leaving, Closing, Workers
<1>1. /\ ProcessTypeOK /\ PoolPhase /\ WorkerPhase /\ ServerPhase /\ ResultPhase
      BY DEF ProcessInv
<1>2. PICK w \in Workers, at \in {"check", "work", "sweep", "wait", "done"} :
        worker[w] \notin {"none", "done"} /\ Become(w, at)
      BY <1>1 DEF runFinalizerLoop, runMaintenanceLoop, ProcessTypeOK
<1>3. /\ main' = main /\ result' = result /\ stopping' = stopping /\ pool' = pool
      /\ server' = server /\ serve' = serve /\ handler' = handler /\ cut' = cut
      /\ worker' = [worker EXCEPT ![w] = at]
      BY <1>2 DEF Become
<1>4. ProcessTypeOK'
      BY <1>1, <1>2, <1>3 DEF ProcessTypeOK
<1>5. worker'["finalizer"] = "none" <=> worker["finalizer"] = "none"
      BY <1>1, <1>2, <1>3 DEF ProcessTypeOK
<1>6. main \notin Startup \cup Closing
      BY <1>1, <1>2 DEF WorkerPhase
<1>7. QED
      BY <1>1, <1>3, <1>4, <1>5, <1>6
      DEF ProcessInv, PoolPhase, WorkerPhase, ServerPhase, ResultPhase, Answered

\* Run, the loops and the pool stay in step over the whole life of the process:
\* whatever the order in which signals, failures of the server, requests and
\* the loops' own turns arrive.
THEOREM ProcessInvariant == Spec => []ProcessInv
<1>1. ProcessInv /\ [Next]_vars => ProcessInv'
  <2> SUFFICES ASSUME ProcessInv, [Next]_vars PROVE ProcessInv'
      OBVIOUS
  <2>1. CASE MainStep
        BY <2>1, StartupKeeps, ShutdownKeeps, ExitKeeps DEF MainStep
  <2>2. CASE Serve
        BY <2>2, ServeKeeps
  <2>3. CASE \E h \in Handlers : Accept(h) \/ ServeHTTP(h)
        BY <2>3, HandlerKeeps
  <2>4. CASE runFinalizerLoop \/ runMaintenanceLoop
        BY <2>4, LoopKeeps
  <2>5. CASE Signal \/ UNCHANGED vars
    <3>1. /\ main' = main /\ result' = result /\ stopping' = stopping /\ pool' = pool
          /\ worker' = worker /\ server' = server /\ serve' = serve
          /\ handler' = handler /\ cut' = cut
          BY <2>5 DEF Signal, vars
    <3>2. ProcessTypeOK' /\ PoolPhase' /\ WorkerPhase'
          BY <3>1 DEF ProcessInv, ProcessTypeOK, PoolPhase, WorkerPhase
    <3>3. ServerPhase' /\ ResultPhase'
          BY <3>1 DEF ProcessInv, ServerPhase, ResultPhase, Answered
    <3>4. QED BY <3>2, <3>3 DEF ProcessInv
  <2>6. QED BY <2>1, <2>2, <2>3, <2>4, <2>5 DEF Next, Exited
<1>2. QED BY <1>1, InitProcess, PTL DEF Spec

-----------------------------------------------------------------------------
(* What it is for.                                                         *)

\* On every path out of Run, early returns included, the pool is closed only
\* when no loop can use it any more, and nothing is left open at the end.
THEOREM PoolIsClosedLast == Spec => []PoolOutlivesWorkers
<1>1. ProcessInv => PoolOutlivesWorkers
  <2> SUFFICES ASSUME ProcessInv PROVE PoolOutlivesWorkers
      OBVIOUS
  <2>1. ProcessTypeOK /\ PoolPhase /\ WorkerPhase
        BY DEF ProcessInv
  <2>2. pool \in {"closing", "closed"} => main \in Closing
        BY <2>1 DEF ProcessTypeOK, PoolPhase, Startup, Running, Draining, Leaving, Closing
  <2>3. QED BY <2>1, <2>2 DEF PoolPhase, WorkerPhase, PoolOutlivesWorkers
<1>2. QED BY <1>1, ProcessInvariant, PTL

\* Exit code 0 means that nobody was cut off: Run returns nil only after a
\* drain that found every accepted request answered and a listener that no
\* longer accepts, with /livez saying so.
THEOREM CleanExitIsGraceful == Spec => []CleanExitAnswersAll
<1>1. ProcessInv => CleanExitAnswersAll
  <2> SUFFICES ASSUME ProcessInv PROVE CleanExitAnswersAll
      OBVIOUS
  <2>1. ServerPhase /\ ResultPhase
        BY DEF ProcessInv
  <2>2. Answered => Active = {}
        BY DEF Answered, Active
  <2>3. QED BY <2>1, <2>2 DEF ServerPhase, ResultPhase, CleanExitAnswersAll
<1>2. QED BY <1>1, ProcessInvariant, PTL
=============================================================================
