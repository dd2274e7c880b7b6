------------------------------ MODULE Endpoint ------------------------------
(***************************************************************************)
(* The life cycle of spinet::Server (src/server.cpp) and spinet::Client    *)
(* (src/client.cpp), whose with_settings, run and stop are the same code,  *)
(* with the runtimes they own (src/core/runtime.cpp): one thread each,     *)
(* started by run and joined by stop.                                      *)
(*                                                                         *)
(* mtx_ serialises the operations of the endpoint, so nobody contends for  *)
(* a runtime's thread_mtx_; running_ of the endpoint and running_ and      *)
(* stopped_ of a runtime are atomics that are read and written outside it. *)
(* An operation that holds mtx_ from end to end and waits for nobody is    *)
(* one step.                                                               *)
(***************************************************************************)
EXTENDS Naturals

CONSTANTS Callers,       \* application threads: any of them may run and stop it
          N,             \* Settings::workers
          None,          \* no caller
          CallbacksCall, \* callbacks call operations that lock mtx_
          MaxHandles     \* bound: listen calls, and connections of a worker

Workers == 1 .. N

ASSUME EndpointConstantsOK ==
  /\ None \notin Callers
  /\ N \in Nat \ {0}
  /\ CallbacksCall \in BOOLEAN
  /\ MaxHandles \in Nat

VARIABLES
  kind,       \* "server" or "client", once and for all
  running,    \* running_ of the endpoint
  settings,   \* settings_ is set, and workers_ holds N runtimes
  mtx,        \* who holds mtx_
  pc,         \* where each caller is
  at,         \* the worker that a caller's loop in run() or stop() has reached
  wrunning,   \* running_ of each runtime
  wstopped,   \* stopped_ of each runtime
  thread,     \* runtime_thread_: "none", "started", "looping", "inCallback",
              \* "leaving", "finished", "joined"
  sockets,    \* how many TcpSockets are registered with each runtime
  acceptors,  \* how many TcpAcceptors are
  listening,  \* how many listening sockets are open for each runtime
  chosen      \* choosen_index_, modulo N

callerVars == <<pc, at>>
workerVars == <<wrunning, wstopped, thread>>
handleVars == <<kind, sockets, acceptors, listening, chosen>>
vars == <<kind, running, settings, mtx, pc, at, wrunning, wstopped, thread,
          sockets, acceptors, listening, chosen>>

Init ==
  /\ kind \in {"server", "client"}
  /\ running = FALSE
  /\ settings = FALSE
  /\ mtx = None
  /\ pc = [c \in Callers |-> "idle"]
  /\ at = [c \in Callers |-> 1]
  /\ wrunning = [w \in Workers |-> FALSE]
  /\ wstopped = [w \in Workers |-> TRUE]
  /\ thread = [w \in Workers |-> "none"]
  /\ sockets = [w \in Workers |-> 0]
  /\ acceptors = [w \in Workers |-> 0]
  /\ listening = [w \in Workers |-> 0]
  /\ chosen = 0

Goto(c, label) == pc' = [pc EXCEPT ![c] = label]

-----------------------------------------------------------------------------
(* Operations that hold mtx_ throughout and wait for nobody.  Those that   *)
(* return an error change nothing and are not steps: with_settings when    *)
(* running_ or set before, listen when running_ or not set, or when        *)
(* socket, bind or listen fails (it closes what it opened), tcp_connect    *)
(* when not running_ or not set, or when connect fails.                    *)

Idle(c) == pc[c] = "idle" /\ mtx = None

WithSettings(c) ==
  /\ Idle(c)
  /\ ~running /\ ~settings
  /\ settings' = TRUE
  /\ UNCHANGED <<running, mtx, callerVars, workerVars, handleVars>>

\* listen_tcp_endpoint: one listening socket and one acceptor per worker.
Listen(c) ==
  /\ kind = "server"
  /\ Idle(c)
  /\ ~running /\ settings
  /\ \A w \in Workers : listening[w] < MaxHandles
  /\ listening' = [w \in Workers |-> listening[w] + 1]
  /\ acceptors' = [w \in Workers |-> acceptors[w] + 1]
  /\ UNCHANGED <<kind, running, settings, mtx, callerVars, workerVars, sockets,
                 chosen>>

\* tcp_connect, and select_runtime: the workers in turn.
MayConnectAnyTime == settings
MayConnect == running /\ settings

NotWrapped == chosen + 1
Following == (chosen + 1) % N

ConnectNext ==
  LET w == chosen + 1 IN
  /\ kind = "client"
  /\ MayConnect
  /\ sockets[w] < MaxHandles
  /\ sockets' = [sockets EXCEPT ![w] = @ + 1]
  /\ chosen' = Following

Connect(c) ==
  /\ Idle(c)
  /\ ConnectNext
  /\ UNCHANGED <<kind, running, settings, mtx, callerVars, workerVars, acceptors,
                 listening>>

-----------------------------------------------------------------------------
(* run(): running_ is exchanged before mtx_ is locked.                     *)

RunBegin(c) ==
  /\ pc[c] = "idle"
  /\ ~running
  /\ running' = TRUE
  /\ Goto(c, "run")
  /\ UNCHANGED <<settings, mtx, at, workerVars, handleVars>>

RunLock(c) ==
  /\ pc[c] = "run" /\ mtx = None
  /\ settings
  /\ mtx' = c
  /\ at' = [at EXCEPT ![c] = 1]
  /\ Goto(c, "runWorker")
  /\ UNCHANGED <<running, settings, workerVars, handleVars>>

\* "settings has been not set": running_ keeps the value it was given.
RunUnset(c) ==
  /\ pc[c] = "run" /\ mtx = None
  /\ ~settings
  /\ Goto(c, "idle")
  /\ UNCHANGED <<running, settings, mtx, at, workerVars, handleVars>>

\* Runtime::run: exchange the runtime's running_, or fail if it is set.
RunWorker(c) ==
  LET w == at[c] IN
  /\ pc[c] = "runWorker"
  /\ ~wrunning[w]
  /\ wrunning' = [wrunning EXCEPT ![w] = TRUE]
  /\ Goto(c, "spawn")
  /\ UNCHANGED <<running, settings, mtx, at, wstopped, thread, handleVars>>

RunWorkerFails(c) ==
  /\ pc[c] = "runWorker"
  /\ wrunning[at[c]]
  /\ Goto(c, "partial")
  /\ UNCHANGED <<running, settings, mtx, at, workerVars, handleVars>>

\* run() returns the error of the worker; those before it stay started.
RunPartial(c) ==
  /\ pc[c] = "partial"
  /\ mtx' = None
  /\ Goto(c, "idle")
  /\ UNCHANGED <<running, settings, at, workerVars, handleVars>>

\* Join the thread of an earlier run, if it has not been joined; start the new
\* one; go on to the next worker, or unlock and return.
Joined(w) == thread[w] \in {"none", "joined"}
Ended(w) == thread[w] = "finished" \/ Joined(w)

Spawn(c) ==
  LET w == at[c] IN
  /\ pc[c] = "spawn"
  /\ Ended(w)
  /\ thread' = [thread EXCEPT ![w] = "started"]
  /\ IF w = N
     THEN mtx' = None /\ Goto(c, "idle") /\ UNCHANGED at
     ELSE at' = [at EXCEPT ![c] = w + 1] /\ Goto(c, "runWorker") /\ UNCHANGED mtx
  /\ UNCHANGED <<running, settings, wrunning, wstopped, handleVars>>

-----------------------------------------------------------------------------
(* stop().                                                                 *)

\* Lock mtx_.  (When running_ is FALSE the call returns with no effect.)
StopBegin(c) ==
  /\ Idle(c)
  /\ running
  /\ mtx' = c
  /\ at' = [at EXCEPT ![c] = 1]
  /\ Goto(c, IF settings THEN "stopWorker" ELSE "stopped")
  /\ UNCHANGED <<running, settings, workerVars, handleVars>>

\* After the last worker: running_ becomes FALSE and mtx_ is unlocked.
NextToStop(c) ==
  IF at[c] = N
  THEN Goto(c, "stopped") /\ UNCHANGED at
  ELSE at' = [at EXCEPT ![c] = @ + 1] /\ Goto(c, "stopWorker")

\* Runtime::stop of a runtime that runs: stopped_ becomes TRUE.
Forgets(w) == UNCHANGED wstopped
AsksToStop(w) == wstopped' = [wstopped EXCEPT ![w] = TRUE]

StopWorker(c) ==
  /\ pc[c] = "stopWorker"
  /\ wrunning[at[c]]
  /\ AsksToStop(at[c])
  /\ Goto(c, "join")
  /\ UNCHANGED <<running, settings, mtx, at, wrunning, thread, handleVars>>

\* Runtime::stop of one that does not run has no effect.
StopSkip(c) ==
  /\ pc[c] = "stopWorker"
  /\ ~wrunning[at[c]]
  /\ NextToStop(c)
  /\ UNCHANGED <<running, settings, mtx, workerVars, handleVars>>

\* runtime_thread_.join(), if it is joinable.
NoWait(w) == UNCHANGED thread
Join(w) ==
  /\ Ended(w)
  /\ thread' = [thread EXCEPT ![w] = IF @ = "finished" THEN "joined" ELSE @]

StopJoin(c) ==
  /\ pc[c] = "join"
  /\ Join(at[c])
  /\ NextToStop(c)
  /\ UNCHANGED <<running, settings, mtx, wrunning, wstopped, handleVars>>

StopEnd(c) ==
  /\ pc[c] = "stopped"
  /\ running' = FALSE
  /\ mtx' = None
  /\ Goto(c, "idle")
  /\ UNCHANGED <<settings, at, workerVars, handleVars>>

-----------------------------------------------------------------------------
(* Runtime::exec, on the runtime's thread.                                 *)

\* Its first statement clears stopped_.
ExecStart(w) ==
  /\ thread[w] = "started"
  /\ wstopped' = [wstopped EXCEPT ![w] = FALSE]
  /\ thread' = [thread EXCEPT ![w] = "looping"]
  /\ UNCHANGED <<running, settings, mtx, callerVars, wrunning, handleVars>>

\* A turn of the loop: do_accept registers a socket with this runtime, ...
Accept(w) ==
  /\ thread[w] = "looping"
  /\ acceptors[w] > 0 /\ sockets[w] < MaxHandles
  /\ sockets' = [sockets EXCEPT ![w] = @ + 1]
  /\ UNCHANGED <<kind, running, settings, mtx, callerVars, workerVars, acceptors,
                 listening, chosen>>

\* ... a listening socket has failed and its acceptor is closed, ...
CloseAcceptor(w) ==
  /\ thread[w] = "looping"
  /\ acceptors[w] > 0
  /\ acceptors' = [acceptors EXCEPT ![w] = @ - 1]
  /\ listening' = [listening EXCEPT ![w] = @ - 1]
  /\ UNCHANGED <<kind, running, settings, mtx, callerVars, workerVars, sockets,
                 chosen>>

\* ... or a callback calls tcp_connect or has_settings, and waits for mtx_.
ExecCallback(w) ==
  /\ CallbacksCall
  /\ thread[w] = "looping"
  /\ thread' = [thread EXCEPT ![w] = "inCallback"]
  /\ UNCHANGED <<running, settings, mtx, callerVars, wrunning, wstopped, handleVars>>

\* The operation was tcp_connect, or has_settings, which changes nothing.
ExecReturn(w) ==
  /\ thread[w] = "inCallback"
  /\ mtx = None
  /\ thread' = [thread EXCEPT ![w] = "looping"]
  /\ ConnectNext \/ UNCHANGED <<sockets, chosen>>
  /\ UNCHANGED <<kind, running, settings, mtx, callerVars, wrunning, wstopped,
                 acceptors, listening>>

\* A socket is closed, by whatever thread: its handle is deregistered.
Deregister(w) ==
  /\ sockets[w] > 0
  /\ sockets' = [sockets EXCEPT ![w] = @ - 1]
  /\ UNCHANGED <<kind, running, settings, mtx, callerVars, workerVars, acceptors,
                 listening, chosen>>

\* The loop finds stopped_ TRUE: release_all_handles empties the tables.  A
\* TcpAcceptor's destructor does not close its listening socket.
ExecLeave(w) ==
  /\ thread[w] = "looping"
  /\ wstopped[w]
  /\ sockets' = [sockets EXCEPT ![w] = 0]
  /\ acceptors' = [acceptors EXCEPT ![w] = 0]
  /\ thread' = [thread EXCEPT ![w] = "leaving"]
  /\ UNCHANGED <<kind, running, settings, mtx, callerVars, wrunning, wstopped,
                 listening, chosen>>

\* Its last statement clears running_.
ExecEnd(w) ==
  /\ thread[w] = "leaving"
  /\ wrunning' = [wrunning EXCEPT ![w] = FALSE]
  /\ thread' = [thread EXCEPT ![w] = "finished"]
  /\ UNCHANGED <<running, settings, mtx, callerVars, wstopped, handleVars>>

-----------------------------------------------------------------------------
\* Steps of a caller inside run() or stop().
CallerSteps(c) ==
  \/ RunLock(c) \/ RunUnset(c) \/ RunWorker(c) \/ RunWorkerFails(c)
  \/ RunPartial(c) \/ Spawn(c)
  \/ StopWorker(c) \/ StopSkip(c) \/ StopJoin(c) \/ StopEnd(c)

ExecSteps(w) ==
  \/ ExecStart(w) \/ Accept(w) \/ CloseAcceptor(w) \/ ExecCallback(w)
  \/ ExecReturn(w) \/ ExecLeave(w) \/ ExecEnd(w)

Next ==
  \/ \E c \in Callers :
       \/ WithSettings(c) \/ Listen(c) \/ Connect(c)
       \/ RunBegin(c) \/ StopBegin(c)
       \/ CallerSteps(c)
  \/ \E w \in Workers : ExecSteps(w) \/ Deregister(w)

Spec == Init /\ [][Next]_vars

\* A caller inside run() or stop() goes on when it can, and so do the loops of
\* the runtimes.  Nobody has to call anything.
Fairness ==
  /\ \A c \in Callers : WF_vars(CallerSteps(c))
  /\ \A w \in Workers : WF_vars(ExecStart(w) \/ ExecReturn(w) \/ ExecEnd(w))
                        /\ SF_vars(ExecLeave(w))

FairSpec == Spec /\ Fairness

-----------------------------------------------------------------------------
TypeOK ==
  /\ kind \in {"server", "client"}
  /\ running \in BOOLEAN /\ settings \in BOOLEAN
  /\ mtx \in Callers \cup {None}
  /\ pc \in [Callers -> {"idle", "run", "runWorker", "spawn", "partial",
                         "stopWorker", "join", "stopped"}]
  /\ at \in [Callers -> Workers]
  /\ wrunning \in [Workers -> BOOLEAN]
  /\ wstopped \in [Workers -> BOOLEAN]
  /\ thread \in [Workers -> {"none", "started", "looping", "inCallback",
                             "leaving", "finished", "joined"}]
  /\ sockets \in [Workers -> Nat]
  /\ acceptors \in [Workers -> Nat]
  /\ listening \in [Workers -> Nat]
  /\ chosen \in 0 .. N - 1

\* Nobody is inside run() or stop().
Settled == \A c \in Callers : pc[c] = "idle"

\* An endpoint that says it is not running has no runtime that runs, and no
\* thread that has not been joined: false when one thread calls run() and another
\* stop(), since run() sets running_ before it has mtx_.
NotRunningIsTrue == (Settled /\ ~running) => \A w \in Workers : ~wrunning[w] /\ Joined(w)

\* A stop() that is about to return leaves no runtime that runs and no thread that
\* has not been joined, whatever other threads' run() and stop() came in between.
StopLeavesNothing ==
  \A c \in Callers : pc[c] = "stopped" => \A w \in Workers : ~wrunning[w] /\ Joined(w)

\* run() never stops halfway, some runtimes started and others not: one that fails
\* on a runtime which is still running does so on the first, and finds all running.
RunAllOrNothing ==
  \A c \in Callers : pc[c] = "partial" => at[c] = 1 /\ \A w \in Workers : wrunning[w]

\* A connected socket is registered with a runtime that runs, or is about to:
\* no connection is handed to a runtime that will never look at it.
ConnectedIsServed ==
  \A w \in Workers : sockets[w] > 0 =>
    \/ wrunning[w]
    \/ \E c \in Callers : pc[c] \in {"run", "runWorker", "spawn"}

\* A listening socket that is open has an acceptor registered with a runtime.
ListenersServed == \A w \in Workers : listening[w] = acceptors[w]

\* A stop() that finds every runtime in its loop returns, unless a callback calls
\* into the endpoint and waits for the mtx_ that stop() holds.
StopReturnsFromLoops ==
  \A c \in Callers :
    (pc[c] = "stopWorker" /\ at[c] = 1 /\ \A w \in Workers : thread[w] = "looping")
      ~> (pc[c] = "idle" \/ \E w \in Workers : thread[w] = "inCallback")

\* Every stop() that has begun returns.
StopReturns == \A c \in Callers : pc[c] = "stopWorker" ~> pc[c] = "idle"
=============================================================================
