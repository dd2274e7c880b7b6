----------------------------- MODULE TcpSocket -----------------------------
(***************************************************************************)
(* One spinet::TcpSocket (src/core/tcp_socket.cpp) shared by the runtime   *)
(* thread that serves it and by the application's threads.                 *)
(*                                                                         *)
(* Each of the two task queues is guarded by its own mutex; closed_ is an  *)
(* atomic flag that no mutex guards, and the file descriptor is closed     *)
(* while neither mutex is held.  A step below is what a thread does        *)
(* between two points where another thread can be observed: taking or      *)
(* releasing a mutex, changing closed_, a system call, a callback.         *)
(*                                                                         *)
(* Callbacks are application code.  They run with no mutex held and may    *)
(* call every operation of the socket again.                               *)
(***************************************************************************)
EXTENDS Integers, Sequences

CONSTANTS Ops,      \* the operations the application starts on the socket
          Dir,      \* Dir[op]: "read" (async_read*) or "write" (async_write*)
          Size,     \* Size[op]: bytes asked for
          Until,    \* Until[op]: UNTIL_FINISHED (async_read) or TRY (..._some)
          Loop,     \* the runtime thread
          Users,    \* the application's own threads
          Closers,  \* the threads on which close() is called
          None,     \* no thread, no operation
          MaxBytes  \* bound: bytes the peer sends, bytes an operation moves

Threads == Users \cup {Loop}
Dirs == {"read", "write"}

ASSUME ConstantsOK ==
  /\ Dir \in [Ops -> Dirs]
  /\ Size \in [Ops -> Nat]
  /\ Until \in [Ops -> BOOLEAN]
  /\ Loop \notin Users
  /\ Closers \subseteq Threads
  /\ None \notin Threads /\ None \notin Ops
  /\ MaxBytes \in Nat

VARIABLES
  closed,      \* closed_
  registered,  \* the runtime's tables and epoll set hold the socket
  linked,      \* runtime_ leads to the runtime
  fd,          \* what the number fd_ names: the socket's own file ("own"),
               \* nothing ("closed"), a file opened since ("reused")
  foreign,     \* recv, send or close was applied to a reused fd_
  holder,      \* holder[d]: the thread that holds read_mtx_ or write_mtx_
  queue,       \* queue[d]: read_task_queue_ or write_task_queue_
  status,      \* "new", "queued", "taken", "cancelled" or "refused"
  outcome,     \* the Result a taken operation's callback is called with
  given,       \* the size it is called with
  moved,       \* bytes recv or send moved for the operation
  calls,       \* how often the operation's callback was called
  pc,          \* where each thread is
  cur,         \* the operation a thread has in hand
  draining,    \* the queue that a thread inside close() is draining
  inCallback,  \* the thread runs a callback that do_read or do_write called
  arrived,     \* bytes the peer has sent so far
  inbox,       \* those of them that recv has not taken yet
  peer         \* "open", "fin" (shut down) or "reset"

fdVars == <<closed, registered, linked, fd>>
opVars == <<queue, status, outcome, given>>
ioVars == <<moved, foreign>>
threadVars == <<pc, cur, draining, inCallback>>
peerVars == <<arrived, inbox, peer>>
vars == <<closed, registered, linked, fd, foreign, holder, queue, status, outcome,
          given, moved, calls, pc, cur, draining, inCallback, arrived, inbox,
          peer>>

Init ==
  /\ closed = FALSE
  /\ registered = TRUE
  /\ linked = TRUE
  /\ fd = "own"
  /\ foreign = FALSE
  /\ holder = [d \in Dirs |-> None]
  /\ queue = [d \in Dirs |-> <<>>]
  /\ status = [op \in Ops |-> "new"]
  /\ outcome = [op \in Ops |-> "none"]
  /\ given = [op \in Ops |-> 0]
  /\ moved = [op \in Ops |-> 0]
  /\ calls = [op \in Ops |-> 0]
  /\ pc = [t \in Threads |-> "ready"]
  /\ cur = [t \in Threads |-> None]
  /\ draining = [t \in Threads |-> "read"]
  /\ inCallback = [t \in Threads |-> FALSE]
  /\ arrived = 0
  /\ inbox = 0
  /\ peer = "open"
-----------------------------------------------------------------------------
(* The tests and updates that several operations share, each with the      *)
(* slips ("Not so") that the properties at the end of the module rule out. *)

\* Locking and unlocking a queue's mutex.
NotLocked(t, d) == UNCHANGED holder
Acquire(t, d) == holder' = [holder EXCEPT ![d] = t]
Release(d) == holder' = [holder EXCEPT ![d] = None]

\* What async_read and its siblings test under the mutex.
AdmitsAll == TRUE
Admits == ~closed

\* close(): compare_exchange(closed_, false, true) succeeds.
StoreOnly == closed' = TRUE
ExchangeClosed == ~closed /\ closed' = TRUE

\* do_read and do_write run exec on a copy of the front task ("auto [task,
\* callback] = ...front()") and store nothing back: in the queue a task's
\* pos_ keeps the 0 of its constructor.
QueuedPos == 0

\* finished_size() after exec has moved n bytes.
RawResult(n) == IF n = 0 THEN -1 ELSE n
FinishedSize(n) == QueuedPos + n

-----------------------------------------------------------------------------
(* The operations the application calls: from its own threads, and on the  *)
(* runtime thread from inside a callback.                                  *)

RunsAppCode(t) == pc[t] = "ready" /\ (t \in Users \/ inCallback[t])

\* async_read and its siblings, first half: lock the queue's mutex, find
\* closed_ false.  close() may set closed_ before the second half.
Submit(t, op) ==
  /\ RunsAppCode(t)
  /\ status[op] = "new"
  /\ holder[Dir[op]] = None
  /\ Admits
  /\ Acquire(t, Dir[op])
  /\ pc' = [pc EXCEPT ![t] = "push"]
  /\ cur' = [cur EXCEPT ![t] = op]
  /\ UNCHANGED <<fdVars, opVars, ioVars, calls, draining, inCallback, peerVars>>

\* Second half: push the task and its callback, unlock, return true.
Push(t) ==
  LET op == cur[t] IN
  /\ pc[t] = "push"
  /\ queue' = [queue EXCEPT ![Dir[op]] = Append(@, op)]
  /\ status' = [status EXCEPT ![op] = "queued"]
  /\ Release(Dir[op])
  /\ pc' = [pc EXCEPT ![t] = "ready"]
  /\ cur' = [cur EXCEPT ![t] = None]
  /\ UNCHANGED <<fdVars, outcome, given, ioVars, calls, draining, inCallback,
                 peerVars>>

\* The early return: closed_ was true, the call returns false.  A callback
\* that close() makes can still call, and always gets this answer.
Refuse(t, op) ==
  /\ RunsAppCode(t) \/ pc[t] = "drainCallback"
  /\ status[op] = "new"
  /\ holder[Dir[op]] = None
  /\ ~Admits
  /\ status' = [status EXCEPT ![op] = "refused"]
  /\ UNCHANGED <<fdVars, holder, queue, outcome, given, ioVars, calls,
                 threadVars, peerVars>>

Queued(op) == \E i \in 1 .. Len(queue[Dir[op]]) : queue[Dir[op]][i] = op

\* cancel(): both mutexes at once, both queues emptied, no callback called.
\* (With both queues empty it has no effect.)
Cancel(t) ==
  /\ RunsAppCode(t) \/ pc[t] = "drainCallback"
  /\ \A d \in Dirs : holder[d] = None
  /\ \E d \in Dirs : queue[d] # <<>>
  /\ queue' = [d \in Dirs |-> <<>>]
  /\ status' = [op \in Ops |-> IF Queued(op) THEN "cancelled" ELSE status[op]]
  /\ UNCHANGED <<fdVars, holder, outcome, given, ioVars, calls, threadVars,
                 peerVars>>

-----------------------------------------------------------------------------
(* Taking a task off its queue: pop_front and unlock, then the callback.   *)

\* What pop_front leaves of the queue.
NotPopped(q) == q
PopFront(q) == Tail(q)

Take(t, op, result, size) ==
  /\ queue' = [queue EXCEPT ![Dir[op]] = PopFront(@)]
  /\ status' = [status EXCEPT ![op] = "taken"]
  /\ outcome' = [outcome EXCEPT ![op] = result]
  /\ given' = [given EXCEPT ![op] = size]
  /\ cur' = [cur EXCEPT ![t] = op]

-----------------------------------------------------------------------------
(* close(): by application code, on the runtime thread also for a hang-up  *)
(* event and from the destructor.                                          *)

\* The compare-and-exchange on closed_; a call that finds it set returns.
CloseBegin(t) ==
  /\ t \in Closers
  /\ pc[t] = "ready"
  /\ ExchangeClosed
  /\ pc' = [pc EXCEPT ![t] = "readRuntime"]
  /\ UNCHANGED <<registered, linked, fd, holder, opVars, ioVars, calls, cur, draining,
                 inCallback, peerVars>>

\* Handle::close looks at runtime_ without a mutex: if release_all_handles has
\* reset it, the socket is not deregistered here.
ReadRuntime(t) ==
  /\ pc[t] = "readRuntime"
  /\ pc' = [pc EXCEPT ![t] = IF linked THEN "deregister" ELSE "closeFd"]
  /\ UNCHANGED <<fdVars, holder, opVars, ioVars, calls, cur, draining,
                 inCallback, peerVars>>

\* release_all_handles holds handles_mtx_.
Releasing == pc[Loop] = "release"

\* deregister_handle: lock handles_mtx_, and take the socket out of the tables
\* if it is still there.
StaysRegistered(t) ==
  /\ pc[t] = "deregister"
  /\ ~Releasing
  /\ linked' = FALSE
  /\ pc' = [pc EXCEPT ![t] = "closeFd"]
  /\ UNCHANGED <<closed, registered, fd, holder, opVars, ioVars, calls, cur,
                 draining, inCallback, peerVars>>

Deregister(t) ==
  /\ pc[t] = "deregister"
  /\ ~Releasing
  /\ registered' = FALSE
  /\ linked' = FALSE
  /\ pc' = [pc EXCEPT ![t] = "closeFd"]
  /\ UNCHANGED <<closed, fd, holder, opVars, ioVars, calls, cur, draining,
                 inCallback, peerVars>>

\* Handle::close, last: ::close(fd_).
CloseFd(t) ==
  /\ pc[t] = "closeFd"
  /\ fd' = "closed"
  /\ foreign' = (foreign \/ fd = "reused")
  /\ pc' = [pc EXCEPT ![t] = "drain"]
  /\ draining' = [draining EXCEPT ![t] = "read"]
  /\ UNCHANGED <<closed, registered, linked, holder, opVars, moved, calls, cur,
                 inCallback, peerVars>>

\* A turn of a drain loop begins with the mutex.
DrainUnlocked(t) == pc[t] = "drain"
DrainTurn(t) == pc[t] = "drain" /\ holder[draining[t]] = None

\* It takes the front task and unlocks.
DrainTake(t) ==
  LET d == draining[t] IN
  /\ DrainTurn(t)
  /\ queue[d] # <<>>
  /\ Take(t, Head(queue[d]), "error", FinishedSize(0))
  /\ pc' = [pc EXCEPT ![t] = "drainCall"]
  /\ UNCHANGED <<fdVars, holder, ioVars, calls, draining, inCallback, peerVars>>

\* Its callback is called with EBADF.
DrainCall(t) ==
  /\ pc[t] = "drainCall"
  /\ calls' = [calls EXCEPT ![cur[t]] = @ + 1]
  /\ pc' = [pc EXCEPT ![t] = "drainCallback"]
  /\ cur' = [cur EXCEPT ![t] = None]
  /\ UNCHANGED <<fdVars, holder, opVars, ioVars, draining, inCallback, peerVars>>

DrainReturn(t) ==
  /\ pc[t] = "drainCallback"
  /\ pc' = [pc EXCEPT ![t] = "drain"]
  /\ UNCHANGED <<fdVars, holder, opVars, ioVars, calls, cur, draining,
                 inCallback, peerVars>>

\* The loop finds its queue empty: on to the write queue, or close() returns.
SkipsWrites(d) == "ready"
AfterDrain(d) == IF d = "read" THEN "drain" ELSE "ready"

DrainNext(t) ==
  LET d == draining[t] IN
  /\ DrainTurn(t)
  /\ queue[d] = <<>>
  /\ draining' = [draining EXCEPT ![t] = "write"]
  /\ pc' = [pc EXCEPT ![t] = AfterDrain(d)]
  /\ UNCHANGED <<fdVars, holder, opVars, ioVars, calls, cur, inCallback,
                 peerVars>>

CloseSteps(t) ==
  \/ ReadRuntime(t)
  \/ Deregister(t)
  \/ CloseFd(t)
  \/ DrainTake(t)
  \/ DrainCall(t)
  \/ DrainReturn(t)
  \/ DrainNext(t)
-----------------------------------------------------------------------------
(* do_read and do_write, on the runtime thread.                            *)

\* Lock the mutex, find closed_ false and a task in the queue, copy it.
\* (With closed_ true or an empty queue the call returns with no effect.)
DoBegin(d) ==
  /\ pc[Loop] = "ready" /\ ~inCallback[Loop]
  /\ holder[d] = None
  /\ ~closed
  /\ queue[d] # <<>>
  /\ Acquire(Loop, d)
  /\ pc' = [pc EXCEPT ![Loop] = "exec"]
  /\ cur' = [cur EXCEPT ![Loop] = Head(queue[d])]
  /\ UNCHANGED <<fdVars, opVars, ioVars, calls, draining, inCallback, peerVars>>

\* What recv and send can answer.  Another thread may have closed fd_ after
\* closed_ was tested, and the number may since have been given to a file
\* that answers anything.  recv and send of 0 bytes return 0.
MayMove(op, n) ==
  \/ fd = "own" /\ Dir[op] = "read" /\ n <= inbox
  \/ fd = "own" /\ Dir[op] = "write" /\ peer # "reset" /\ moved[op] + n <= MaxBytes
  \/ fd = "reused" /\ moved[op] + n <= MaxBytes

Answers(op) ==
  (IF \/ fd = "own" /\ Dir[op] = "read" /\ inbox = 0 /\ peer = "open"
      \/ fd = "own" /\ Dir[op] = "write" /\ Size[op] > 0 /\ peer # "reset"
      \/ fd = "reused"
   THEN {"again"} ELSE {})
  \cup
  (IF fd # "own" \/ peer = "reset" THEN {"error"} ELSE {})
  \cup
  (IF \/ Dir[op] = "read" /\ inbox = 0 /\ peer = "fin"
      \/ Size[op] = 0 /\ (Dir[op] = "read" => inbox > 0)
   THEN {"zero"} ELSE {})

\* exec turns the 0 into EBADF, and every error but EAGAIN ends the task.
EndsAlways(answer) == TRUE
EndsOnError(answer) == answer = "error"
Ends(answer) == answer # "again"

\* exec moved n bytes.  A finished task leaves the queue; an unfinished one
\* (UNTIL_FINISHED, pos_ < size_) stays in it as it was.
ExecMove ==
  LET op == cur[Loop] IN
  /\ pc[Loop] = "exec"
  /\ \E n \in 1 .. Size[op] - QueuedPos :
       /\ MayMove(op, n)
       /\ moved' = [moved EXCEPT ![op] = @ + n]
       /\ inbox' = IF Dir[op] = "read" /\ fd = "own" THEN inbox - n ELSE inbox
       /\ IF Until[op] => QueuedPos + n = Size[op]
          THEN /\ Take(Loop, op, "ok", FinishedSize(n))
               /\ pc' = [pc EXCEPT ![Loop] = "call"]
          ELSE /\ pc' = [pc EXCEPT ![Loop] = "ready"]
               /\ cur' = [cur EXCEPT ![Loop] = None]
               /\ UNCHANGED opVars
  /\ foreign' = (foreign \/ fd = "reused")
  /\ Release(Dir[op])
  /\ UNCHANGED <<fdVars, calls, draining, inCallback, arrived, peer>>

\* exec moved nothing: the task leaves the queue or waits.
ExecNone ==
  LET op == cur[Loop] IN
  /\ pc[Loop] = "exec"
  /\ \E answer \in Answers(op) :
       IF Ends(answer)
       THEN /\ Take(Loop, op, "error", FinishedSize(0))
            /\ pc' = [pc EXCEPT ![Loop] = "call"]
       ELSE /\ pc' = [pc EXCEPT ![Loop] = "ready"]
            /\ cur' = [cur EXCEPT ![Loop] = None]
            /\ UNCHANGED opVars
  /\ foreign' = (foreign \/ fd = "reused")
  /\ Release(Dir[op])
  /\ UNCHANGED <<fdVars, moved, calls, draining, inCallback, peerVars>>

\* The callback of the task that was taken is called, and returns.
Invoke ==
  /\ pc[Loop] = "call"
  /\ calls' = [calls EXCEPT ![cur[Loop]] = @ + 1]
  /\ pc' = [pc EXCEPT ![Loop] = "ready"]
  /\ cur' = [cur EXCEPT ![Loop] = None]
  /\ inCallback' = [inCallback EXCEPT ![Loop] = TRUE]
  /\ UNCHANGED <<fdVars, holder, opVars, ioVars, draining, peerVars>>

CallbackReturn ==
  /\ pc[Loop] = "ready" /\ inCallback[Loop]
  /\ inCallback' = [inCallback EXCEPT ![Loop] = FALSE]
  /\ UNCHANGED <<fdVars, holder, opVars, ioVars, calls, pc, cur, draining,
                 peerVars>>

DoSteps == ExecMove \/ ExecNone \/ Invoke \/ CallbackReturn

\* The runtime is stopped: release_all_handles locks handles_mtx_ and resets
\* runtime_ ...
RuntimeStop ==
  /\ pc[Loop] = "ready" /\ ~inCallback[Loop]
  /\ linked' = FALSE
  /\ pc' = [pc EXCEPT ![Loop] = "release"]
  /\ UNCHANGED <<closed, registered, fd, holder, opVars, ioVars, calls, cur,
                 draining, inCallback, peerVars>>

\* ... and then drops the socket from the tables, neither closing it nor
\* calling its callbacks; the mutex is unlocked and the thread ends.
ReleaseHandles ==
  /\ Releasing
  /\ registered' = FALSE
  /\ pc' = [pc EXCEPT ![Loop] = "stopped"]
  /\ UNCHANGED <<closed, linked, fd, holder, opVars, ioVars, calls, cur,
                 draining, inCallback, peerVars>>

-----------------------------------------------------------------------------
(* The rest of the process, and the other end of the connection.           *)

\* Some thread opens a file or accepts a connection and gets the number.
FdReuse ==
  /\ fd = "closed"
  /\ fd' = "reused"
  /\ UNCHANGED <<closed, registered, linked, holder, opVars, ioVars, calls,
                 threadVars, peerVars>>

PeerSend ==
  /\ peer = "open" /\ fd = "own"
  /\ arrived < MaxBytes
  /\ arrived' = arrived + 1
  /\ inbox' = inbox + 1
  /\ UNCHANGED <<fdVars, holder, opVars, ioVars, calls, threadVars, peer>>

PeerEnd ==
  /\ peer = "open" /\ fd = "own"
  /\ peer' \in {"fin", "reset"}
  /\ UNCHANGED <<fdVars, holder, opVars, ioVars, calls, threadVars, arrived,
                 inbox>>

\* Every thread is at rest: no operation is under way that could be stuck.
Terminated ==
  /\ \A t \in Threads : pc[t] \in {"ready", "stopped"} /\ ~inCallback[t]
  /\ UNCHANGED vars

Next ==
  \/ \E t \in Threads :
       \/ \E op \in Ops : Submit(t, op) \/ Refuse(t, op)
       \/ Push(t)
       \/ Cancel(t)
       \/ CloseBegin(t)
       \/ CloseSteps(t)
  \/ \E d \in Dirs : DoBegin(d)
  \/ DoSteps
  \/ RuntimeStop
  \/ ReleaseHandles
  \/ FdReuse
  \/ PeerSend
  \/ PeerEnd
  \/ Terminated

Spec == Init /\ [][Next]_vars

(***************************************************************************)
(* A thread inside an operation goes on, callbacks return (weak fairness), *)
(* and the sweep of the runtime thread's loop calls do_read and do_write   *)
(* of a registered socket again and again (strong fairness: in between the *)
(* mutex may be held, or the thread be busy with the other queue).         *)
(* Nothing obliges the application to start or close anything, the peer to *)
(* send, or the runtime to be stopped.                                     *)
(***************************************************************************)
Fairness ==
  /\ \A t \in Threads : WF_vars(Push(t)) /\ WF_vars(CloseSteps(t))
  /\ \A d \in Dirs : SF_vars(DoBegin(d))
  /\ WF_vars(DoSteps)
  /\ WF_vars(ReleaseHandles)

FairSpec == Spec /\ Fairness

-----------------------------------------------------------------------------
TypeOK ==
  /\ closed \in BOOLEAN /\ registered \in BOOLEAN /\ linked \in BOOLEAN
  /\ foreign \in BOOLEAN
  /\ fd \in {"own", "closed", "reused"}
  /\ holder \in [Dirs -> Threads \cup {None}]
  /\ queue \in [Dirs -> Seq(Ops)]
  /\ status \in [Ops -> {"new", "queued", "taken", "cancelled", "refused"}]
  /\ outcome \in [Ops -> {"none", "ok", "error"}]
  /\ given \in [Ops -> Nat]
  /\ moved \in [Ops -> Nat]
  /\ calls \in [Ops -> Nat]
  /\ pc \in [Threads -> {"ready", "push", "exec", "call", "readRuntime",
                         "deregister", "closeFd", "drain", "drainCall",
                         "drainCallback", "release", "stopped"}]
  /\ cur \in [Threads -> Ops \cup {None}]
  /\ draining \in [Threads -> Dirs]
  /\ inCallback \in [Threads -> BOOLEAN]
  /\ arrived \in Nat /\ inbox \in Nat
  /\ peer \in {"open", "fin", "reset"}

Closing(t) == pc[t] \in {"readRuntime", "deregister", "closeFd", "drain",
                         "drainCall", "drainCallback"}

\* No callback is called twice, and one is called only if its task was taken
\* from the queue: never for a refused or cancelled operation.  do_read,
\* do_write and close() take tasks from the same queues on different threads.
CalledAtMostOnce ==
  \A op \in Ops : calls[op] <= (IF status[op] = "taken" THEN 1 ELSE 0)

\* Once the close() that won closed_ has returned, no accepted operation is
\* left behind: none is queued and none is about to be, although async_read
\* tests closed_ before it pushes and close() sets it without the mutex.
NothingStranded ==
  (closed /\ \A t \in Threads : ~Closing(t)) =>
    /\ \A op \in Ops : status[op] # "queued"
    /\ \A t \in Threads : pc[t] # "push"

\* Whoever locks handles_mtx_ and finds the socket in the runtime's tables finds
\* it under a number that still names the socket's own file, so register_handle
\* never meets an old socket under a new one's number.  While release_all_handles
\* has the mutex it may be otherwise: a close() that finds runtime_ reset does
\* not wait for the tables to be emptied.
RegisteredOwnsFd == registered /\ ~Releasing => fd = "own"

\* Whoever is about to call ::close(fd_) closes the socket's own file: no
\* two calls of close() both get there.
ClosesOwnFd ==
  \A t \in Threads : pc[t] \in {"readRuntime", "deregister", "closeFd"} => fd = "own"

\* Why recv or send may have failed for good.
Broken(op) ==
  \/ closed
  \/ peer = "reset"
  \/ Dir[op] = "read" /\ peer = "fin"
  \/ Size[op] = 0

\* A callback reports an error only on a closed socket, after the peer ended
\* the connection, or for an operation of 0 bytes: having to wait (EAGAIN) is
\* never an error.
ErrorOnlyWhenBroken == \A op \in Ops : outcome[op] = "error" => Broken(op)

\* The size a callback is called with is the number of bytes recv or send
\* moved for the operation: what has left the stream, or entered it, is known.
ReportsExactly(op) == status[op] = "taken" => given[op] = moved[op]

\* It is so for every operation: false, since do_read and do_write forget what
\* an unfinished async_read or async_write has moved.
ExactReport == \A op \in Ops : ReportsExactly(op)

\* It is so for the _some forms, whatever else is in their queue: a task of
\* theirs leaves the queue in the turn in which it moves bytes, or reports none.
SomeReportExactly == \A op \in Ops : ~Until[op] => ReportsExactly(op)

\* fd_ is never used once its number may name another file: false, since do_read
\* and do_write test closed_ before recv and send, while close() on another thread
\* sets it and closes fd_ without their mutex.
NoForeignIO == ~foreign

\* close() completes what it finds: every operation accepted before or while
\* the socket is closed is called back or cancelled.
CloseCompletes ==
  \A op \in Ops : (closed /\ status[op] \in {"queued", "taken"})
                    ~> (calls[op] = 1 \/ status[op] = "cancelled")

\* A read that waits while the peer ends the connection is answered, unless
\* the runtime is stopped under it.
ReadAnsweredAtEnd ==
  \A op \in Ops : (status[op] = "queued" /\ Dir[op] = "read" /\ peer # "open")
                    ~> (status[op] # "queued" \/ pc[Loop] = "stopped")

-----------------------------------------------------------------------------
(* The promise to the application (AsyncOps), kept by the socket.          *)

\* Some thread has passed the test of closed_ and will push the operation.
Pushing(op) == \E t \in Threads : pc[t] = "push" /\ cur[t] = op

PhaseOf(op) ==
  CASE status[op] = "taken" -> IF calls[op] = 0 THEN "accepted" ELSE "completed"
    [] status[op] = "queued" -> "accepted"
    [] status[op] = "new" -> IF Pushing(op) THEN "accepted" ELSE "new"
    [] OTHER -> status[op]

AbsPhase == [op \in Ops |-> PhaseOf(op)]

Promise == INSTANCE AsyncOps WITH open <- ~closed, phase <- AbsPhase, called <- calls

\* Each accepted operation is completed once or cancelled, nothing is accepted
\* after close(), and closing completes what was accepted.
KeepsPromise == Promise!AbsSpec
=============================================================================
