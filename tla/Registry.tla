------------------------------ MODULE Registry ------------------------------
(***************************************************************************)
(* The sockets of one spinet::Runtime (src/core/runtime.cpp): which of     *)
(* them its tables, its events and its thread refer to, who keeps each     *)
(* object alive, who closes it, and on which thread its destructor runs.   *)
(*                                                                         *)
(* The loop works on raw pointers: those epoll_wait returned and those it  *)
(* copied from all_sockets_.  Meanwhile callbacks and other threads close  *)
(* sockets and drop their references.  A TcpSocket's destructor calls      *)
(* close(), on whatever thread the last reference is dropped and with      *)
(* whatever mutex that thread holds.                                       *)
(*                                                                         *)
(* all_handles_, all_sockets_ and the epoll set change together, under     *)
(* handles_mtx_, so the model has one table.  What goes on inside a queue  *)
(* is the subject of TcpSocket; here a queue matters only because its      *)
(* callbacks may own the socket they wait for.  Of the endpoint's run()    *)
(* and stop() (Endpoint) it has what decides when the loop runs and when   *)
(* tcp_connect answers: running_, stopped_ and who waits for mtx_.         *)
(***************************************************************************)
EXTENDS Integers, FiniteSets

CONSTANTS Sockets,  \* the TcpSocket objects, each created at most once
          Fds,      \* the descriptor numbers the kernel gives out
          Users,    \* the application's own threads
          Loop,     \* the runtime's thread
          None      \* no socket, no thread

Threads == Users \cup {Loop}

ASSUME RegistryConstantsOK ==
  /\ IsFiniteSet(Sockets)
  /\ Loop \notin Users
  /\ None \notin Sockets /\ None \notin Threads

VARIABLES
  at,         \* "unborn", "open", the place in close() ("runtime", "deregister",
              \* "closeFd", "drain"), or "closed": close() has returned
  by,         \* the thread that is inside close() of the socket
  how,        \* what the caller of close() has: a shared_ptr ("owner"), a raw
              \* pointer of the loop ("event"), or it is the "destructor"
  depth,      \* how many other calls of close() that call is nested in
  fd,         \* fd_ of each socket
  owner,      \* the socket whose file each descriptor number names
  linked,     \* runtime_ is set
  handles,    \* all_handles_: the socket registered under each number
  removable,  \* removable_handles_
  held,       \* sockets that variables and callbacks in progress refer to
  pending,    \* sockets with a queued operation whose callback owns them
  mtx,        \* who holds handles_mtx_
  loop,       \* where the runtime's thread is: "started", "wait", "dispatch",
              \* "sweep", "clear", "reset", "release", or "ended": there is none
  visiting,   \* the calls it is yet to make through raw pointers
  cleanup,    \* the references it is destroying with handles_mtx_ held
  inCallback, \* it runs a callback that it called itself
  running,    \* running_ of the endpoint
  starting,   \* a run() has set running_ and goes on to start the thread
  stopped,    \* stopped_ of the runtime
  stopping,   \* a stop() of the endpoint holds mtx_
  blocked     \* the loop's callback waits for mtx_, held by that stop()

closeVars == <<at, by, how, depth>>
tableVars == <<linked, handles, removable>>
fileVars == <<fd, owner>>
refVars == <<held, pending>>
lifeVars == <<running, starting, stopped, stopping, blocked>>
loopVars == <<mtx, loop, visiting, cleanup, inCallback, lifeVars>>
vars == <<closeVars, tableVars, fileVars, refVars, loopVars>>

Init ==
  /\ at = [s \in Sockets |-> "unborn"]
  /\ by = [s \in Sockets |-> None]
  /\ how = [s \in Sockets |-> "owner"]
  /\ depth = [s \in Sockets |-> 0]
  /\ fd = [s \in Sockets |-> None]
  /\ owner = [f \in Fds |-> None]
  /\ linked = [s \in Sockets |-> FALSE]
  /\ handles = [f \in Fds |-> None]
  /\ removable = {}
  /\ held = {}
  /\ pending = {}
  /\ mtx = None
  /\ loop = "ended"
  /\ visiting = {}
  /\ cleanup = {}
  /\ inCallback = FALSE
  /\ running = FALSE /\ starting = FALSE
  /\ stopped = TRUE /\ stopping = FALSE
  /\ blocked = FALSE
-----------------------------------------------------------------------------
(* References.                                                             *)

EverySlot == {handles[f] : f \in Fds}
Registered == {s \in Sockets : \E f \in Fds : handles[f] = s}

\* s is referred to when the application holds h and the loop destroys c.  A
\* thread that called close() through a shared_ptr has that pointer.
Kept(s, h, c) ==
  \/ s \in h \cup c \cup pending \cup removable \cup Registered
  \/ by[s] # None /\ how[s] = "owner"

\* The object exists: something refers to it, or its destructor has not returned.
Alive(s) ==
  /\ at[s] # "unborn"
  /\ Kept(s, held, cleanup) \/ (by[s] # None /\ how[s] = "destructor")

-----------------------------------------------------------------------------
(* Threads inside close(), and threads that run application code.          *)

Inside(t) == {s \in Sockets : by[s] = t}

\* The call of close() that thread t is executing.
Innermost(t, s) ==
  /\ by[s] = t /\ \A o \in Inside(t) : depth[o] <= depth[s]
  /\ ~(t = Loop /\ blocked)

RunsAppCode(t) ==
  \/ Inside(t) = {} /\ (t = Loop => inCallback /\ ~blocked)
  \/ \E s \in Sockets : Innermost(t, s) /\ at[s] = "drain"

LoopIdle == Inside(Loop) = {} /\ ~inCallback

\* The exchange of closed_ succeeds; otherwise close() returns at once.
EnterClose(t, s, caller) ==
  /\ at[s] = "open"
  /\ at' = [at EXCEPT ![s] = "runtime"]
  /\ by' = [by EXCEPT ![s] = t]
  /\ how' = [how EXCEPT ![s] = caller]
  /\ depth' = [depth EXCEPT ![s] = Cardinality(Inside(t))]

\* A reference to s has gone, h and c remain: the last one runs ~TcpSocket,
\* which closes a socket that was not closed before.
NeverCloses(t, s, h, c) == UNCHANGED closeVars
DestroyIfLast(t, s, h, c) ==
  IF at[s] = "open" /\ ~Kept(s, h, c)
  THEN EnterClose(t, s, "destructor")
  ELSE UNCHANGED closeVars

-----------------------------------------------------------------------------
(* Registration.                                                           *)

\* Which object comes next makes no difference; the kernel has an order in which
\* it gives out the numbers that are free.
NewSocket == CHOOSE s \in Sockets : at[s] = "unborn"
NewFd == CHOOSE f \in Fds : owner[f] = None

\* register_handle of a new socket s with descriptor f.  Had the table an
\* entry for f, it would be replaced: NumbersAreFresh says it never has.
Register(s, f) ==
  /\ at[s] = "unborn" /\ s = NewSocket
  /\ owner[f] = None /\ f = NewFd
  /\ mtx = None
  /\ at' = [at EXCEPT ![s] = "open"]
  /\ fd' = [fd EXCEPT ![s] = f]
  /\ owner' = [owner EXCEPT ![f] = s]
  /\ linked' = [linked EXCEPT ![s] = TRUE]
  /\ handles' = [handles EXCEPT ![f] = s]
  /\ held' = held \cup {s}
  /\ UNCHANGED <<by, how, depth, removable, pending, mtx, loop, visiting,
                 cleanup, lifeVars>>

\* tcp_connect: refused unless the endpoint runs; another thread waits for a
\* stop() that holds mtx_ ...
Connect(t, s, f) ==
  /\ RunsAppCode(t)
  /\ running /\ ~stopping
  /\ Register(s, f)
  /\ UNCHANGED inCallback

\* ... and a callback of the loop for one that waits for the loop.
ConnectBlocks ==
  /\ RunsAppCode(Loop)
  /\ stopping
  /\ blocked' = TRUE
  /\ UNCHANGED <<closeVars, tableVars, fileVars, refVars, mtx, loop, visiting,
                 cleanup, inCallback, running, starting, stopped, stopping>>

\* do_accept: the new socket goes to accept_callback.
Accept(s, f) ==
  /\ loop = "dispatch" /\ LoopIdle
  /\ Register(s, f)
  /\ inCallback' = TRUE

-----------------------------------------------------------------------------
(* What application code does with the sockets it refers to.               *)

\* It starts an operation whose callback owns the socket.
Submit(t, s) ==
  /\ RunsAppCode(t)
  /\ s \in held /\ at[s] = "open"
  /\ pending' = pending \cup {s}
  /\ UNCHANGED <<closeVars, tableVars, fileVars, held, loopVars>>

Close(t, s) ==
  /\ RunsAppCode(t)
  /\ s \in held
  /\ EnterClose(t, s, "owner")
  /\ UNCHANGED <<tableVars, fileVars, refVars, loopVars>>

Drop(t, s) ==
  /\ RunsAppCode(t)
  /\ s \in held
  /\ held' = held \ {s}
  /\ DestroyIfLast(t, s, held \ {s}, cleanup)
  /\ UNCHANGED <<tableVars, fileVars, pending, loopVars>>

-----------------------------------------------------------------------------
(* close(), after the exchange of closed_.                                 *)

Goto(s, label) == at' = [at EXCEPT ![s] = label] /\ UNCHANGED <<by, how, depth>>

\* Handle::close: runtime_.lock(), with no mutex.
ReadRuntime(t, s) ==
  /\ Innermost(t, s) /\ at[s] = "runtime"
  /\ Goto(s, IF linked[s] THEN "deregister" ELSE "closeFd")
  /\ UNCHANGED <<tableVars, fileVars, refVars, loopVars>>

\* deregister_handle, under handles_mtx_.  It does nothing for a handle that
\* is not, or no longer, the one in the table.
Forgets(s) == UNCHANGED removable
Retires(s) == removable' = removable \cup {s}

DeregisterNothing(t, s) ==
  /\ Innermost(t, s) /\ at[s] = "deregister"
  /\ mtx = None
  /\ Goto(s, "closeFd")
  /\ UNCHANGED <<tableVars, fileVars, refVars, loopVars>>

Deregister(t, s) ==
  /\ Innermost(t, s) /\ at[s] = "deregister"
  /\ mtx = None
  /\ IF handles[fd[s]] = s
     THEN /\ linked' = [linked EXCEPT ![s] = FALSE]
          /\ handles' = [handles EXCEPT ![fd[s]] = None]
          /\ Retires(s)
     ELSE UNCHANGED tableVars
  /\ Goto(s, "closeFd")
  /\ UNCHANGED <<fileVars, refVars, loopVars>>

\* ::close(fd_).
CloseFd(t, s) ==
  /\ Innermost(t, s) /\ at[s] = "closeFd"
  /\ owner' = [owner EXCEPT ![fd[s]] = None]
  /\ Goto(s, "drain")
  /\ UNCHANGED <<tableVars, fd, refVars, loopVars>>

\* The callback of a queued operation is called: what it owns is now in the
\* hands of the application code that runs.
Drain(t, s) ==
  /\ Innermost(t, s) /\ at[s] = "drain"
  /\ s \in pending
  /\ pending' = pending \ {s}
  /\ held' = held \cup {s}
  /\ UNCHANGED <<closeVars, tableVars, fileVars, loopVars>>

CloseReturn(t, s) ==
  /\ Innermost(t, s) /\ at[s] = "drain"
  /\ s \notin pending
  /\ at' = [at EXCEPT ![s] = "closed"]
  /\ by' = [by EXCEPT ![s] = None]
  /\ how' = [how EXCEPT ![s] = "owner"]
  /\ depth' = [depth EXCEPT ![s] = 0]
  /\ UNCHANGED <<tableVars, fileVars, refVars, loopVars>>

CloseSteps(t) ==
  \E s \in Sockets :
    ReadRuntime(t, s) \/ Deregister(t, s) \/ CloseFd(t, s) \/ Drain(t, s)
      \/ CloseReturn(t, s)
-----------------------------------------------------------------------------
(* A turn of Runtime::exec.                                                *)

\* epoll_wait fills the array of events with raw pointers.
WaitForEvents ==
  /\ loop = "wait" /\ LoopIdle
  /\ \E ready \in SUBSET Registered : visiting' = ready \X {"event"}
  /\ loop' = "dispatch"
  /\ UNCHANGED <<closeVars, tableVars, fileVars, refVars, mtx, cleanup,
                 inCallback, lifeVars>>

\* The loop goes on while stopped_ is not set.
Poll == ~stopped /\ WaitForEvents

\* The call through a raw pointer is due: the loop goes through the events
\* and the copy in any order, but do_read comes before do_write.
Visit(s, call) ==
  /\ loop \in {"dispatch", "sweep"} /\ LoopIdle
  /\ <<s, call>> \in visiting
  /\ call = "do_write" => <<s, "do_read">> \notin visiting
  /\ visiting' = visiting \ {<<s, call>>}
  /\ UNCHANGED <<tableVars, fileVars, mtx, loop, cleanup, lifeVars>>

\* There is nothing to do, ...
VisitNothing(s, call) ==
  /\ Visit(s, call)
  /\ UNCHANGED <<closeVars, refVars, inCallback>>

\* ... or an operation is answered: its callback may have owned the socket
\* (of an operation that was queued before close() began, too), ...
VisitAnswers(s, call) ==
  /\ Visit(s, call)
  /\ inCallback' = TRUE
  /\ \/ s \in pending /\ pending' = pending \ {s} /\ held' = held \cup {s}
     \/ at[s] = "open" /\ UNCHANGED refVars
  /\ UNCHANGED closeVars

\* ... or the event is a hang-up.
VisitHangUp(s, call) ==
  /\ Visit(s, call)
  /\ call = "event"
  /\ EnterClose(Loop, s, "event")
  /\ UNCHANGED <<refVars, inCallback>>

CallbackReturn ==
  /\ inCallback /\ ~blocked /\ Inside(Loop) = {}
  /\ inCallback' = FALSE
  /\ UNCHANGED <<closeVars, tableVars, fileVars, refVars, mtx, loop, visiting,
                 cleanup, lifeVars>>

\* all_sockets_ is copied under handles_mtx_.
Copy ==
  /\ loop = "dispatch" /\ LoopIdle /\ visiting = {}
  /\ mtx = None
  /\ visiting' = Registered \X {"do_read", "do_write"}
  /\ loop' = "sweep"
  /\ UNCHANGED <<closeVars, tableVars, fileVars, refVars, mtx, cleanup,
                 inCallback, lifeVars>>

\* removable_handles_.clear(), begun: handles_mtx_ is locked.
ClearNothing ==
  /\ loop = "sweep" /\ LoopIdle /\ visiting = {}
  /\ loop' = "wait"
  /\ UNCHANGED <<closeVars, tableVars, fileVars, refVars, mtx, visiting,
                 cleanup, inCallback, lifeVars>>

Clear ==
  /\ loop = "sweep" /\ LoopIdle /\ visiting = {}
  /\ mtx = None
  /\ mtx' = Loop
  /\ cleanup' = removable
  /\ removable' = {}
  /\ loop' = "clear"
  /\ UNCHANGED <<closeVars, linked, handles, fileVars, refVars, visiting,
                 inCallback, lifeVars>>

-----------------------------------------------------------------------------
(* release_all_handles, and the destruction of references under the mutex. *)

\* The loop finds stopped_ set and locks handles_mtx_.
Leave ==
  /\ loop = "wait" /\ LoopIdle
  /\ stopped
  /\ mtx = None
  /\ mtx' = Loop
  /\ loop' = "reset"
  /\ UNCHANGED <<closeVars, tableVars, fileVars, refVars, visiting, cleanup,
                 inCallback, lifeVars>>

\* runtime_.reset() of one socket after the other; a closing thread may look
\* at runtime_ in between.
Reset(s) ==
  /\ loop = "reset"
  /\ s \in Registered /\ linked[s]
  /\ linked' = [linked EXCEPT ![s] = FALSE]
  /\ UNCHANGED <<closeVars, handles, removable, fileVars, refVars, loopVars>>

\* The tables are swapped away, then destroyed: first all_handles_, then
\* removable_handles_; the model lets them mix.
TakeTables ==
  /\ cleanup' = Registered \cup removable
  /\ handles' = [f \in Fds |-> None]
  /\ removable' = {}
  /\ loop' = "release"
  /\ UNCHANGED <<closeVars, linked, fileVars, refVars, mtx, visiting,
                 inCallback, lifeVars>>

ReleaseAtOnce == loop = "reset" /\ TakeTables
Release ==
  /\ loop = "reset"
  /\ \A s \in Registered : ~linked[s]
  /\ TakeTables

\* One reference is destroyed.
CleanupNext(s) ==
  /\ loop \in {"clear", "release"} /\ LoopIdle
  /\ s \in cleanup
  /\ cleanup' = cleanup \ {s}
  /\ DestroyIfLast(Loop, s, held, cleanup \ {s})
  /\ UNCHANGED <<tableVars, fileVars, refVars, mtx, loop, visiting, inCallback,
                 lifeVars>>

\* The last one was: handles_mtx_ is unlocked, the turn or the loop ends.
CleanupEnd ==
  /\ loop \in {"clear", "release"} /\ LoopIdle
  /\ cleanup = {}
  /\ mtx' = None
  /\ loop' = IF loop = "clear" THEN "wait" ELSE "ended"
  /\ UNCHANGED <<closeVars, tableVars, fileVars, refVars, visiting, cleanup,
                 inCallback, lifeVars>>

-----------------------------------------------------------------------------
(* run() and stop() of the endpoint, one run() at a time.                  *)

\* run() sets running_, then waits for mtx_.
RunBegin ==
  /\ ~running /\ ~starting
  /\ running' = TRUE /\ starting' = TRUE
  /\ UNCHANGED <<closeVars, tableVars, fileVars, refVars, mtx, loop, visiting,
                 cleanup, inCallback, stopped, stopping, blocked>>

\* It starts the runtime's thread, or fails if there still is one.
Spawn ==
  /\ starting /\ ~stopping
  /\ starting' = FALSE
  /\ loop' = IF loop = "ended" THEN "started" ELSE loop
  /\ UNCHANGED <<closeVars, tableVars, fileVars, refVars, mtx, visiting, cleanup,
                 inCallback, running, stopped, stopping, blocked>>

\* exec's first statement clears stopped_, set since or not.
ExecStart ==
  /\ loop = "started"
  /\ loop' = "wait"
  /\ stopped' = FALSE
  /\ UNCHANGED <<closeVars, tableVars, fileVars, refVars, mtx, visiting, cleanup,
                 inCallback, running, starting, stopping, blocked>>

\* stop() locks mtx_, stops the runtime if it runs, perhaps after others of the
\* endpoint, ...
StopLock ==
  /\ running /\ ~stopping
  /\ stopping' = TRUE
  /\ UNCHANGED <<closeVars, tableVars, fileVars, refVars, mtx, loop, visiting,
                 cleanup, inCallback, running, starting, stopped, blocked>>

StopSet ==
  /\ stopping /\ loop # "ended"
  /\ stopped' = TRUE
  /\ UNCHANGED <<closeVars, tableVars, fileVars, refVars, mtx, loop, visiting,
                 cleanup, inCallback, running, starting, stopping, blocked>>

\* ... and returns when the thread has ended.
StopReturn ==
  /\ stopping /\ loop = "ended"
  /\ running' = FALSE /\ stopping' = FALSE
  /\ UNCHANGED <<closeVars, tableVars, fileVars, refVars, mtx, loop, visiting,
                 cleanup, inCallback, starting, stopped, blocked>>

-----------------------------------------------------------------------------
AppSteps(t) ==
  \E s \in Sockets :
    \/ \E f \in Fds : Connect(t, s, f)
    \/ Submit(t, s) \/ Close(t, s) \/ Drop(t, s)

TurnSteps ==
  \/ Poll \/ Copy \/ Clear \/ Leave \/ Release \/ CleanupEnd \/ CallbackReturn
  \/ \E s \in Sockets :
       \/ Reset(s) \/ CleanupNext(s)
       \/ \E call \in {"event", "do_read", "do_write"} :
            VisitNothing(s, call) \/ VisitAnswers(s, call) \/ VisitHangUp(s, call)

Next ==
  \/ TurnSteps
  \/ RunBegin \/ Spawn \/ ExecStart
  \/ StopLock \/ StopSet \/ StopReturn
  \/ ConnectBlocks
  \/ \E s \in Sockets, f \in Fds : Accept(s, f)
  \/ \E t \in Threads : AppSteps(t) \/ CloseSteps(t)

Spec == Init /\ [][Next]_vars

LoopSteps == ExecStart \/ TurnSteps \/ CloseSteps(Loop)

\* The runtime's thread goes on, through its turns and through close(); what
\* callbacks do ends, unless it waits for mtx_; a run() that has begun starts the
\* thread, and a stop() that finds it ended returns.  handles_mtx_ is held by
\* the runtime's thread alone.
FairSpec == Spec /\ WF_vars(LoopSteps) /\ WF_vars(Spawn \/ StopReturn)

-----------------------------------------------------------------------------
TypeOK ==
  /\ at \in [Sockets -> {"unborn", "open", "runtime", "deregister", "closeFd",
                         "drain", "closed"}]
  /\ by \in [Sockets -> Threads \cup {None}]
  /\ how \in [Sockets -> {"owner", "event", "destructor"}]
  /\ depth \in [Sockets -> Nat]
  /\ fd \in [Sockets -> Fds \cup {None}]
  /\ owner \in [Fds -> Sockets \cup {None}]
  /\ linked \in [Sockets -> BOOLEAN]
  /\ handles \in [Fds -> Sockets \cup {None}]
  /\ removable \subseteq Sockets
  /\ held \subseteq Sockets
  /\ pending \subseteq Sockets
  /\ mtx \in {Loop, None}
  /\ loop \in {"started", "wait", "dispatch", "sweep", "clear", "reset", "release",
               "ended"}
  /\ visiting \subseteq Sockets \X {"event", "do_read", "do_write"}
  /\ cleanup \subseteq Sockets
  /\ inCallback \in BOOLEAN
  /\ running \in BOOLEAN /\ starting \in BOOLEAN
  /\ stopped \in BOOLEAN /\ stopping \in BOOLEAN
  /\ blocked \in BOOLEAN

\* Every raw pointer the loop has yet to use, and every socket in whose close()
\* a thread is, leads to an object that exists, whatever callbacks and other
\* threads have closed and dropped since the pointer was taken.
NoDangling ==
  /\ \A v \in visiting : Alive(v[1])
  /\ \A s \in Sockets : by[s] # None => Alive(s)

\* A thread that destroys references with handles_mtx_ held never comes to
\* deregister_handle, which would lock that mutex again, neither in the
\* destructor it runs nor in what the callbacks there close.
NoRelock == mtx = Loop => \A s \in Inside(Loop) : at[s] # "deregister"

\* register_handle never finds an entry under the number of a new socket: the
\* branch that closes the handle it replaces, with the mutex held, is not taken.
NumbersAreFresh ==
  [][\A f \in Fds : handles'[f] \notin {handles[f], None} => handles[f] = None]_vars

\* An open file belongs to a socket that exists: whoever drops the last
\* reference to a socket, wherever that happens, closes its descriptor.
NoFileLost == \A f \in Fds : owner[f] # None => Alive(owner[f])

\* A closed socket that the application does not refer to is freed: the runtime
\* does not go on keeping it, unless its thread waits for mtx_ for ever.
RetiredIsFreed ==
  \A s \in Sockets : (at[s] = "closed" /\ s \notin held) ~> (~Alive(s) \/ blocked)

\* A stop() that finds exec past its first statement ends the loop, whatever the
\* destructors and callbacks that run while it releases its sockets close and
\* drop, unless one of them waits for mtx_.
StopEnds ==
  (stopped /\ loop \notin {"started", "ended"}) ~> (loop = "ended" \/ blocked)
=============================================================================
